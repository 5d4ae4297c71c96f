--------------------------- MODULE DOMachineProofs ---------------------------
(***************************************************************************)
(* Proofs about DOMachine, for every number of data disks, droplets, edits *)
(* and mishaps, every kind of mishap included.                             *)
(*                                                                         *)
(* One inductive invariant is common to all of them.  It says what a copy  *)
(* of the object (in the API server, in the cache, on the watch, in the    *)
(* running reconciliation) has in common with the one in the API server,   *)
(* what is true at each step of a reconciliation, and what follows once    *)
(* the finalizer has been persisted.  Two more, each with the argument it  *)
(* rests on at its head, carry what is said about droplets: the contract   *)
(* of an infrastructure object, the effect of a failure, and the account   *)
(* of what is lost, with what it says of machines nothing happened to.     *)
(***************************************************************************)
EXTENDS DOMachine, ManagedObjectProofs

NormalCalls == {"GetVolume", "CreateVolume", "GetDroplet", "CreateDroplet"}
DeleteCalls == {"DeleteGetDroplet", "DeleteDroplet", "DeleteGetVolume",
                "DeleteVolume"}
DiskCalls == {"GetVolume", "CreateVolume", "DeleteGetVolume", "DeleteVolume"}
PatchCalls == {"PatchSpec", "PatchStatus"}

NoVolumes == \A v \in VolumeNames : volumes[v] = 0

\* What any copy of the object, however old, tells about the API server.
CopyOK(o) ==
  /\ o.dataDisks = DataDisks
  /\ o.finalizer => protected
  /\ o.phase = "deleting" => o.finalizer
  /\ o.phase # "live" => store.phase # "live"
  /\ o.providerID # NoDroplet => store.providerID # NoDroplet

ApiOK ==
  /\ CopyOK(store) /\ CopyOK(cache)
  /\ \A i \in 1..Len(watch) : CopyOK(watch[i])
  /\ PhaseOrder

RunOK ==
  /\ CopyOK(orig)
  /\ mem.dataDisks = DataDisks
  /\ pc \in DiskCalls => disk <= Len(DataDisks)
  /\ pc \in NormalCalls => orig.phase = "live"
  /\ pc \in DeleteCalls => orig.phase = "deleting"
  /\ pc \in NormalCalls \union DeleteCalls =>
       /\ mem.finalizer
       /\ mem.providerID = orig.providerID
       /\ mem.ready = orig.ready
  /\ pc # "idle" /\ orig.phase = "deleting" => cache.phase # "live"
  /\ pc \in PatchCalls =>
       /\ mem.ready /\ ~orig.ready => orig.providerID # NoDroplet
       /\ orig.providerID # NoDroplet => mem.providerID # NoDroplet
       /\ ~mem.finalizer => orig.phase = "deleting" /\ NoVolumes

VolumesOK ==
  /\ VolumeNamesUnique
  /\ \A v \in VolumeNames :
       volumes[v] # 0 => \E i \in 1..Len(DataDisks) : DataDisks[i] = v
  /\ pc = "CreateVolume" => volumes[DataDisks[disk]] = 0
  /\ pc = "DeleteVolume" => volumes[DataDisks[disk]] = 1
  /\ pc \in {"DeleteGetVolume", "DeleteVolume"} =>
       \A i \in 1..(disk - 1) : volumes[DataDisks[i]] = 0

\* What the persisted finalizer buys.
ProtectionOK ==
  /\ protected /\ store.phase # "gone" => store.finalizer
  /\ store.providerID # NoDroplet => protected
  /\ protected /\ store.phase = "gone" =>
       NoVolumes /\ cache.phase # "live" /\ pc \notin NormalCalls

IInv ==
  /\ TypeOK
  /\ ApiOK
  /\ RunOK
  /\ VolumesOK
  /\ ProtectionOK
  /\ ReadyHasProviderID

ApiTypeOK ==
  /\ store \in Objects /\ cache \in Objects /\ watch \in Seq(Objects)
  /\ protected \in BOOLEAN

-----------------------------------------------------------------------------
(* The copies of the object.                                               *)

\* Every data disk has a volume name.
LEMMA DiskNames ==
  /\ Len(DataDisks) \in Nat
  /\ \A i \in 1..Len(DataDisks) : DataDisks[i] \in VolumeNames
BY MachineAssumption

\* The new object is an object.
LEMMA NewObjectType == NewObject \in Objects
BY MachineAssumption DEF NewObject, Objects, Phases, Statuses, NoDroplet, DropletIDs

\* Nothing changes for the copies when the API server and the cache rest.
LEMMA ApiStutter ==
  ASSUME ApiTypeOK, ApiOK, UNCHANGED api
  PROVE  ApiTypeOK' /\ ApiOK'
BY DEF ApiTypeOK, ApiOK, CopyOK, PhaseOrder, api

\* Write keeps the copies in order if the new version keeps the spec, does
\* not take a deletion back and does not forget the provider ID.
LEMMA WriteKeepsCopies ==
  ASSUME ApiTypeOK, ApiOK, NEW obj \in Objects, Write(obj),
         obj.dataDisks = DataDisks,
         obj.phase = "deleting" => obj.finalizer,
         store.phase # "live" => obj.phase # "live",
         store.providerID # NoDroplet => obj.providerID # NoDroplet
  PROVE  /\ ApiTypeOK' /\ ApiOK'
         /\ CopyOK(orig) /\ orig' = orig => CopyOK(orig)'
<1>1. /\ store' = obj /\ cache' = cache /\ protected' \in BOOLEAN
      /\ protected => protected'
      /\ obj.finalizer => protected'
  BY Zenon DEF Write, ApiTypeOK
<1>2. ASSUME NEW o \in Objects, CopyOK(o)
      PROVE  /\ o.finalizer => protected'
             /\ o.phase # "live" => obj.phase # "live"
             /\ o.providerID # NoDroplet => obj.providerID # NoDroplet
  BY <1>1, <1>2 DEF CopyOK
<1>3. CASE obj = store
  <2>1. watch' = watch /\ store' = store
    BY <1>1, <1>3 DEF Write
  <2>2. \A i \in 1..Len(watch') : CopyOK(watch[i])'
    BY <1>1, <2>1 DEF ApiOK, CopyOK
  <2>3. CopyOK(store)' /\ CopyOK(cache)'
    BY <1>1, <2>1 DEF ApiOK, CopyOK
  <2>4. PhaseOrder'
    BY <1>1, <2>1 DEF ApiOK, PhaseOrder
  <2>5. CopyOK(orig) /\ orig' = orig => CopyOK(orig)'
    BY <1>1, <2>1 DEF CopyOK
  <2> QED
    <3>1. ApiTypeOK'
      BY <1>1, <2>1 DEF ApiTypeOK
    <3> QED
      BY <2>2, <2>3, <2>4, <2>5, <3>1 DEF ApiOK
<1>4. CASE obj # store
  <2>1. watch' = Append(watch, obj)
    BY <1>4 DEF Write
  <2>2. /\ watch' \in Seq(Objects) /\ Len(watch') = Len(watch) + 1
        /\ Len(watch) \in Nat
        /\ \A i \in 1..Len(watch) : watch'[i] = watch[i] /\ watch[i] \in Objects
        /\ watch'[Len(watch) + 1] = obj
    BY <2>1 DEF ApiTypeOK
  <2>3. \A i \in 1..Len(watch') : i \in 1..Len(watch) \/ i = Len(watch) + 1
    BY <2>2
  <2>4. \A i \in 1..Len(watch') : CopyOK(watch[i])'
    BY <1>1, <2>2, <2>3 DEF ApiOK, CopyOK
  <2>5. CopyOK(store)' /\ CopyOK(cache)'
    BY <1>1 DEF ApiOK, CopyOK
  <2>6. PhaseOrder'
    <3>1. /\ cache.phase # "live" => obj.phase # "live"
          /\ \A i \in 1..Len(watch) : watch[i].phase # "live" => obj.phase # "live"
      BY DEF ApiOK, CopyOK
    <3>2. cache'.phase # "live" => \A i \in 1..Len(watch') : watch'[i].phase # "live"
      BY <1>1, <2>2, <2>3, <3>1 DEF ApiOK, PhaseOrder
    <3>3. ASSUME NEW i \in 1..Len(watch'), NEW j \in 1..Len(watch'),
                 i <= j, watch'[i].phase # "live"
          PROVE  watch'[j].phase # "live"
      <4>1. CASE j = Len(watch) + 1
        BY <2>2, <2>3, <3>1, <3>3, <4>1
      <4>2. CASE j \in 1..Len(watch)
        BY <2>2, <2>3, <3>3, <4>2 DEF ApiOK, PhaseOrder
      <4> QED
        BY <2>3, <4>1, <4>2
    <3> QED
      BY <3>2, <3>3 DEF PhaseOrder
  <2> QED
    BY <1>1, <2>2, <2>4, <2>5, <2>6 DEF ApiTypeOK, ApiOK, CopyOK
<1> QED
  BY <1>3, <1>4

\* So does the delivery of an event.
LEMMA DeliverKeepsCopies ==
  ASSUME ApiTypeOK, ApiOK, Deliver
  PROVE  /\ ApiTypeOK' /\ ApiOK'
         /\ cache.phase # "live" => cache'.phase # "live"
<1>1. /\ Len(watch) \in Nat /\ Len(watch) > 0
      /\ cache' = watch[1] /\ watch' = Tail(watch)
      /\ store' = store /\ protected' = protected
  BY DEF Deliver, ApiTypeOK
<1>2. /\ watch' \in Seq(Objects) /\ Len(watch') = Len(watch) - 1
      /\ \A i \in 1..Len(watch') : watch'[i] = watch[i + 1]
      /\ watch[1] \in Objects
  BY <1>1 DEF ApiTypeOK
<1>3. /\ 1 \in 1..Len(watch)
      /\ \A i \in 1..Len(watch') : i + 1 \in 1..Len(watch)
  BY <1>1, <1>2
<1> QED
  BY <1>1, <1>2, <1>3 DEF ApiTypeOK, ApiOK, CopyOK, PhaseOrder

\* So does a restart of the manager.
LEMMA RestartKeepsCopies ==
  ASSUME ApiTypeOK, ApiOK, Restart
  PROVE  ApiTypeOK' /\ ApiOK'
<1>1. store' = store /\ protected' = protected /\ cache' = store /\ watch' = <<>>
  BY DEF Restart
<1> QED
  BY <1>1 DEF ApiTypeOK, ApiOK, CopyOK, PhaseOrder

-----------------------------------------------------------------------------
(* The initial state, and the actions that leave the copies alone.         *)

\* The invariant holds at the start.
LEMMA InitIInv == Init => IInv
<1> SUFFICES ASSUME Init PROVE IInv
  OBVIOUS
<1> USE DEF Init, InitObject
<1>1. TypeOK
  <2>1. /\ store \in Objects /\ cache \in Objects /\ orig \in Objects
        /\ mem \in Objects
    BY NewObjectType
  <2>2. watch \in Seq(Objects)
    OBVIOUS
  <2>5. protected \in BOOLEAN
    BY Zenon
  <2>3. mishaps \in MishapCounts /\ disk \in 1..(Len(DataDisks) + 1)
    BY DiskNames, NoMishapsYet
  <2>4. /\ droplets \in [DropletIDs -> Statuses]
        /\ volumes \in [VolumeNames -> Nat]
        /\ cluster \in {"missing", "present", "ready"}
        /\ pc \in PCs
    BY DEF PCs, CloudCalls, Statuses
  <2> QED
    BY <2>1, <2>2, <2>3, <2>4, <2>5 DEF TypeOK
<1>2. ApiOK
  BY DEF ApiOK, CopyOK, PhaseOrder, NewObject, NoDroplet
<1>3. RunOK
  BY DEF RunOK, CopyOK, NewObject, DiskCalls, NormalCalls, DeleteCalls, PatchCalls
<1>4. VolumesOK
  BY DEF VolumesOK, VolumeNamesUnique
<1>5. ProtectionOK /\ ReadyHasProviderID
  BY DEF ProtectionOK, ReadyHasProviderID, NewObject, NoDroplet
<1> QED
  BY <1>1, <1>2, <1>3, <1>4, <1>5 DEF IInv

\* A step that changes neither the copies, nor the reconciliation, nor the
\* volumes keeps the invariant.
LEMMA QuietStep ==
  ASSUME IInv, UNCHANGED <<api, run, volumes, mishaps>>,
         cluster' \in {"missing", "present", "ready"},
         droplets' \in [DropletIDs -> Statuses]
  PROVE  IInv'
<1>1. ApiTypeOK' /\ ApiOK'
  BY ApiStutter DEF IInv, TypeOK, ApiTypeOK
<1>2. TypeOK'
  BY <1>1 DEF IInv, TypeOK, ApiTypeOK, run
<1>3. RunOK'
  BY DEF IInv, RunOK, CopyOK, NoVolumes, api, run
<1>4. VolumesOK'
  BY DEF IInv, VolumesOK, VolumeNamesUnique, run
<1>5. ProtectionOK' /\ ReadyHasProviderID'
  BY DEF IInv, ProtectionOK, ReadyHasProviderID, NoVolumes, api, run
<1> QED
  BY <1>1, <1>2, <1>3, <1>4, <1>5 DEF IInv

\* A reconciliation that only reads DigitalOcean, or only changes droplets,
\* and then ends or goes on with another call.
LEMMA CallStep ==
  ASSUME IInv, UNCHANGED <<api, orig>>,
         mishaps' \in MishapCounts,
         cluster' = cluster,
         droplets' \in [DropletIDs -> Statuses],
         volumes' \in [VolumeNames -> Nat],
         pc' \in PCs, mem' \in Objects, disk' \in 1..(Len(DataDisks) + 1)
  PROVE  TypeOK' /\ ApiOK' /\ CopyOK(orig)' /\ ReadyHasProviderID'
<1>1. ApiTypeOK' /\ ApiOK'
  BY ApiStutter DEF IInv, TypeOK, ApiTypeOK
<1>2. TypeOK'
  BY <1>1 DEF IInv, TypeOK, ApiTypeOK
<1>3. CopyOK(orig)'
  BY DEF IInv, RunOK, CopyOK, api
<1> QED
  BY <1>1, <1>2, <1>3 DEF IInv, ReadyHasProviderID, api

-----------------------------------------------------------------------------
(* The environment.                                                        *)

\* Deleting an object ends it or leaves it waiting for its finalizer.
LEMMA UserDeleteIInv ==
  ASSUME IInv, UserDelete
  PROVE  IInv'
<1> DEFINE obj == Finalized([store EXCEPT !.phase = "deleting"])
<1>0. /\ ApiTypeOK /\ ApiOK /\ CopyOK(orig) /\ CopyOK(store)
      /\ store \in Objects /\ store.phase = "live"
      /\ Write(obj) /\ UNCHANGED <<cluster, cloud, run>>
      /\ mishaps' \in MishapCounts
  BY MishapCounted
  DEF IInv, TypeOK, ApiTypeOK, ApiOK, RunOK, UserDelete, Delete, NoMishap
<1>1. /\ obj \in Objects /\ obj.dataDisks = store.dataDisks
      /\ obj.finalizer = store.finalizer /\ obj.providerID = store.providerID
      /\ obj.ready = store.ready
      /\ obj.phase \in {"deleting", "gone"}
      /\ obj.phase = "deleting" <=> store.finalizer
  BY <1>0, Zenon DEF Finalized, Objects, Phases
<1> HIDE DEF obj
<1>2. ApiTypeOK' /\ ApiOK' /\ CopyOK(orig)'
  BY <1>0, <1>1, WriteKeepsCopies DEF CopyOK, run
<1>3. store' = obj /\ cache' = cache /\ protected' = (protected \/ obj.finalizer)
  BY <1>0 DEF Write
<1>4. TypeOK'
  BY <1>0, <1>2 DEF IInv, TypeOK, ApiTypeOK, cloud, run
<1>5. RunOK'
  BY <1>0, <1>2, <1>3 DEF IInv, RunOK, NoVolumes, cloud, run
<1>6. VolumesOK'
  BY <1>0 DEF IInv, VolumesOK, VolumeNamesUnique, cloud, run
<1>7. ProtectionOK' /\ ReadyHasProviderID'
  BY <1>0, <1>1, <1>3, Zenon
  DEF IInv, ProtectionOK, ReadyHasProviderID, NoVolumes, cloud, run
<1> QED
  BY <1>2, <1>4, <1>5, <1>6, <1>7 DEF IInv

\* The webhook lets no update change the data disks.
LEMMA UserUpdateIInv ==
  ASSUME IInv, UserUpdate
  PROVE  IInv'
<1>1. PICK disks \in {DataDisks, <<>>} :
        LET new == [store EXCEPT !.dataDisks = disks, !.additionalTags = @ + 1]
        IN  ValidateUpdate(store, new) /\ Write(new)
  BY Zenon DEF UserUpdate
<1> DEFINE obj == [store EXCEPT !.dataDisks = disks, !.additionalTags = @ + 1]
<1>0. /\ ApiTypeOK /\ ApiOK /\ CopyOK(orig) /\ CopyOK(store)
      /\ store \in Objects /\ store.phase # "gone" /\ store.additionalTags < MaxEdits
      /\ Write(obj) /\ obj.dataDisks = store.dataDisks
      /\ UNCHANGED <<cluster, cloud, run, mishaps>>
  BY <1>1
  DEF IInv, TypeOK, ApiTypeOK, ApiOK, RunOK, UserUpdate, ValidateUpdate
<1>2. /\ obj \in Objects
      /\ obj.finalizer = store.finalizer /\ obj.providerID = store.providerID
      /\ obj.ready = store.ready /\ obj.phase = store.phase
  <2>1. disks \in Seq(VolumeNames) /\ store.additionalTags + 1 \in 0..MaxEdits
    BY <1>0, MachineAssumption DEF Objects
  <2> QED
    BY <1>0, <2>1, Zenon DEF Objects
<1> HIDE DEF obj
<1>3. ApiTypeOK' /\ ApiOK' /\ CopyOK(orig)'
  BY <1>0, <1>2, WriteKeepsCopies DEF CopyOK, run
<1>4. store' = obj /\ cache' = cache /\ protected' = (protected \/ obj.finalizer)
  BY <1>0 DEF Write
<1>5. TypeOK'
  BY <1>0, <1>3 DEF IInv, TypeOK, ApiTypeOK, cloud, run
<1>6. RunOK'
  BY <1>0, <1>3, <1>4 DEF IInv, RunOK, NoVolumes, cloud, run
<1>7. VolumesOK'
  BY <1>0 DEF IInv, VolumesOK, VolumeNamesUnique, cloud, run
<1>8. ProtectionOK' /\ ReadyHasProviderID'
  BY <1>0, <1>2, <1>4, Zenon
  DEF IInv, ProtectionOK, ReadyHasProviderID, NoVolumes, cloud, run
<1> QED
  BY <1>3, <1>5, <1>6, <1>7, <1>8 DEF IInv

\* An event brings the cache forward and changes nothing else.
LEMMA DeliverEventIInv ==
  ASSUME IInv, DeliverEvent
  PROVE  IInv'
<1>1. /\ ApiTypeOK' /\ ApiOK'
      /\ cache.phase # "live" => cache'.phase # "live"
  BY DeliverKeepsCopies DEF IInv, TypeOK, ApiTypeOK, DeliverEvent
<1>2. UNCHANGED <<store, protected, mishaps, cluster, cloud, run>>
  BY DEF DeliverEvent, Deliver
<1>3. TypeOK'
  BY <1>1, <1>2 DEF IInv, TypeOK, ApiTypeOK, cloud, run
<1>4. RunOK'
  BY <1>1, <1>2 DEF IInv, RunOK, CopyOK, NoVolumes, cloud, run
<1>5. VolumesOK'
  BY <1>2 DEF IInv, VolumesOK, VolumeNamesUnique, cloud, run
<1>6. ProtectionOK' /\ ReadyHasProviderID'
  BY <1>1, <1>2 DEF IInv, ProtectionOK, ReadyHasProviderID, NoVolumes, cloud, run
<1> QED
  BY <1>1, <1>3, <1>4, <1>5, <1>6 DEF IInv

\* A crash drops the reconciliation and lists the cache anew.
LEMMA CrashIInv ==
  ASSUME IInv, Crash
  PROVE  IInv'
<1>1. /\ ApiTypeOK' /\ ApiOK'
      /\ store' = store /\ protected' = protected /\ cache' = store
      /\ mishaps' \in MishapCounts
      /\ UNCHANGED <<cluster, cloud>>
  BY RestartKeepsCopies, MishapCounted
  DEF IInv, TypeOK, ApiTypeOK, Crash, Restart
<1>2. pc' = "idle" /\ orig' = NewObject /\ mem' = NewObject /\ disk' = 1
  BY DEF Crash, Idle
<1>3. TypeOK'
  BY <1>1, <1>2, NewObjectType, DiskNames
  DEF IInv, TypeOK, ApiTypeOK, cloud, PCs
<1>4. RunOK'
  BY <1>2
  DEF RunOK, CopyOK, NewObject, DiskCalls, NormalCalls, DeleteCalls, PatchCalls
<1>5. VolumesOK'
  BY <1>1, <1>2 DEF IInv, VolumesOK, VolumeNamesUnique, cloud
<1>6. ProtectionOK' /\ ReadyHasProviderID'
  BY <1>1, <1>2
  DEF IInv, ProtectionOK, ReadyHasProviderID, NoVolumes, cloud, NormalCalls
<1> QED
  BY <1>1, <1>3, <1>4, <1>5, <1>6 DEF IInv

-----------------------------------------------------------------------------
(* The controller.                                                         *)

\* A reconciliation starts from the cached copy, and never for the volumes
\* of a machine that is gone.
LEMMA StartReconcileIInv ==
  ASSUME IInv, StartReconcile
  PROVE  IInv'
<1>1. /\ UNCHANGED <<api, cluster, cloud>> /\ cache \in Objects /\ CopyOK(cache)
      /\ mishaps' \in MishapCounts /\ orig' = cache
      /\ ApiTypeOK' /\ ApiOK'
  BY ApiStutter, MishapCounted
  DEF IInv, TypeOK, ApiTypeOK, ApiOK, StartReconcile, NewMachineScope, ReadCache,
      NoMishap
<1>2. CASE Reconcile
  <2>1. /\ mem' = [cache EXCEPT !.finalizer = TRUE] /\ disk' = 1
        /\ cache.phase = "live"
        /\ pc' \in {"GetVolume", "GetDroplet", "PatchSpec"}
        /\ pc' = "GetVolume" => 1 <= Len(mem'.dataDisks)
    BY <1>2 DEF Reconcile, EnsureDisk
  <2>2. /\ mem' \in Objects /\ mem'.finalizer /\ mem'.dataDisks = DataDisks
        /\ mem'.providerID = cache.providerID /\ mem'.ready = cache.ready
    BY <1>1, <2>1, Zenon DEF Objects, CopyOK
  <2>3. TypeOK'
    BY <1>1, <2>1, <2>2, DiskNames
    DEF IInv, TypeOK, ApiTypeOK, cloud, PCs, CloudCalls
  <2>4. RunOK'
    BY <1>1, <2>1, <2>2
    DEF RunOK, CopyOK, api, DiskCalls, NormalCalls, DeleteCalls, PatchCalls
  <2>5. VolumesOK'
    BY <1>1, <2>1 DEF IInv, VolumesOK, VolumeNamesUnique, cloud
  <2>6. ProtectionOK' /\ ReadyHasProviderID'
    BY <1>1, <2>1 DEF IInv, ProtectionOK, ReadyHasProviderID, NoVolumes, api, cloud
  <2> QED
    BY <1>1, <2>3, <2>4, <2>5, <2>6 DEF IInv
<1>3. CASE ReconcileDelete
  <2>1. /\ mem' = cache /\ disk' = 1 /\ pc' = "DeleteGetDroplet"
        /\ cache.phase = "deleting"
    BY <1>3 DEF ReconcileDelete
  <2>3. TypeOK'
    BY <1>1, <2>1, DiskNames
    DEF IInv, TypeOK, ApiTypeOK, cloud, PCs, CloudCalls
  <2>4. RunOK'
    BY <1>1, <2>1
    DEF RunOK, CopyOK, api, DiskCalls, NormalCalls, DeleteCalls, PatchCalls
  <2>5. VolumesOK'
    BY <1>1, <2>1 DEF IInv, VolumesOK, VolumeNamesUnique, cloud
  <2>6. ProtectionOK' /\ ReadyHasProviderID'
    BY <1>1, <2>1
    DEF IInv, ProtectionOK, ReadyHasProviderID, NoVolumes, api, cloud, NormalCalls
  <2> QED
    BY <1>1, <2>3, <2>4, <2>5, <2>6 DEF IInv
<1> QED
  BY <1>2, <1>3 DEF StartReconcile

\* What a call of the normal branch may do: it leaves every volume that
\* exists, adds the one of its disk, and goes on in the same branch.
LEMMA NormalCallIInv ==
  ASSUME IInv, pc \in NormalCalls,
         UNCHANGED <<api, orig, mem, cluster>>,
         mishaps' \in MishapCounts,
         droplets' \in [DropletIDs -> Statuses],
         \/ volumes' = volumes
         \/ pc = "CreateVolume" /\ volumes' = [volumes EXCEPT ![DataDisks[disk]] = 1],
         pc' \in NormalCalls \union {"PatchSpec"},
         disk' \in 1..(Len(DataDisks) + 1),
         pc' \in DiskCalls => disk' <= Len(DataDisks),
         pc' = "CreateVolume" => volumes'[DataDisks[disk']] = 0
  PROVE  IInv'
<1>1. /\ volumes \in [VolumeNames -> Nat]
      /\ pc = "CreateVolume" => disk \in 1..Len(DataDisks) /\ DataDisks[disk] \in VolumeNames
      /\ mem \in Objects
  BY DiskNames DEF IInv, TypeOK, RunOK, DiskCalls
<1>2. volumes' \in [VolumeNames -> Nat]
  BY <1>1
<1>3. TypeOK' /\ ApiOK' /\ CopyOK(orig)' /\ ReadyHasProviderID'
  BY <1>1, <1>2, CallStep DEF NormalCalls, PCs, CloudCalls
<1>4. RunOK'
  <2>1. orig.phase = "live" /\ mem.finalizer /\ mem.ready = orig.ready
        /\ mem.providerID = orig.providerID /\ mem.dataDisks = DataDisks
    BY DEF IInv, RunOK
  <2> QED
    BY <1>3, <2>1 DEF RunOK, NormalCalls, DeleteCalls, PatchCalls
<1>5. VolumesOK'
  <2>1. \A v \in VolumeNames : volumes'[v] <= 1
    BY <1>1 DEF IInv, VolumesOK, VolumeNamesUnique
  <2>2. \A v \in VolumeNames :
          volumes'[v] # 0 => \E i \in 1..Len(DataDisks) : DataDisks[i] = v
    BY <1>1 DEF IInv, VolumesOK
  <2> QED
    BY <2>1, <2>2, Zenon DEF VolumesOK, VolumeNamesUnique, NormalCalls
<1>6. ProtectionOK'
  BY DEF IInv, ProtectionOK, api
<1> QED
  BY <1>3, <1>4, <1>5, <1>6 DEF IInv

\* What may end a reconciliation: nothing but the memory of the normal
\* branch changes, and the finalizer stays.
LEMMA ReturnIInv ==
  ASSUME IInv, pc \in NormalCalls \union DeleteCalls,
         UNCHANGED <<api, orig, cluster, disk>>,
         mishaps' \in MishapCounts,
         droplets' \in [DropletIDs -> Statuses],
         volumes' \in [VolumeNames -> Nat],
         \A v \in VolumeNames :
           \/ volumes'[v] <= volumes[v]
           \/ pc = "CreateVolume" /\ v = DataDisks[disk] /\ volumes'[v] = 1,
         pc' = "PatchSpec",
         mem' \in Objects, mem'.finalizer, mem'.dataDisks = mem.dataDisks,
         mem'.ready /\ ~mem.ready => mem.providerID # NoDroplet,
         mem.providerID # NoDroplet => mem'.providerID # NoDroplet
  PROVE  IInv'
<1>1. TypeOK' /\ ApiOK' /\ CopyOK(orig)' /\ ReadyHasProviderID'
  BY CallStep DEF PCs, IInv, TypeOK
<1>2. RunOK'
  BY <1>1 DEF IInv, RunOK, api, DiskCalls, NormalCalls, DeleteCalls, PatchCalls
<1>3. VolumesOK'
  <2>1. pc = "CreateVolume" => disk \in 1..Len(DataDisks)
    BY DEF IInv, TypeOK, RunOK, DiskCalls
  <2>2. volumes \in [VolumeNames -> Nat]
    BY DEF IInv, TypeOK
  <2>3. \A v \in VolumeNames : volumes'[v] <= 1
    BY <2>2 DEF IInv, VolumesOK, VolumeNamesUnique
  <2>4. \A v \in VolumeNames :
          volumes'[v] # 0 => \E i \in 1..Len(DataDisks) : DataDisks[i] = v
    BY <2>1, <2>2 DEF IInv, VolumesOK
  <2> QED
    BY <2>3, <2>4 DEF VolumesOK, VolumeNamesUnique
<1>4. ProtectionOK'
  <2>1. protected /\ store.phase = "gone" => \A v \in VolumeNames : volumes'[v] = 0
    BY DEF IInv, TypeOK, ProtectionOK, NoVolumes, NormalCalls
  <2> QED
    BY <2>1 DEF IInv, ProtectionOK, NoVolumes, api, NormalCalls
<1> QED
  BY <1>1, <1>2, <1>3, <1>4 DEF IInv

\* What a call of the deletion branch may do: the disks before the next one
\* have no volume any more, and the finalizer goes after the last disk.
LEMMA DeleteCallIInv ==
  ASSUME IInv, pc \in DeleteCalls,
         UNCHANGED <<api, orig, cluster, mishaps>>,
         droplets' \in [DropletIDs -> Statuses],
         volumes' \in [VolumeNames -> Nat],
         \A v \in VolumeNames : volumes'[v] <= volumes[v],
         NEW next \in 1..(Len(DataDisks) + 1),
         \A i \in 1..(next - 1) : volumes'[DataDisks[i]] = 0,
         ReleaseDisk(next)
  PROVE  IInv'
<1>1. /\ mem \in Objects /\ mem.dataDisks = DataDisks /\ orig.phase = "deleting"
      /\ mem.finalizer /\ mem.providerID = orig.providerID /\ mem.ready = orig.ready
      /\ mishaps \in MishapCounts /\ disk \in 1..(Len(DataDisks) + 1)
  BY DEF IInv, TypeOK, RunOK
<1>2. VolumesOK' /\ ProtectionOK'
  <2>1. volumes \in [VolumeNames -> Nat]
    BY DEF IInv, TypeOK
  <2>2. \A v \in VolumeNames : volumes'[v] <= 1
    BY <2>1 DEF IInv, VolumesOK, VolumeNamesUnique
  <2>3. \A v \in VolumeNames :
          volumes'[v] # 0 => \E i \in 1..Len(DataDisks) : DataDisks[i] = v
    BY <2>1 DEF IInv, VolumesOK
  <2>4. pc' \in {"DeleteGetVolume", "PatchSpec"} /\ (pc' = "DeleteGetVolume" => disk' = next)
    BY DEF ReleaseDisk, Return
  <2>5. VolumesOK'
    BY <2>2, <2>3, <2>4 DEF VolumesOK, VolumeNamesUnique
  <2>6. protected /\ store.phase = "gone" => \A v \in VolumeNames : volumes'[v] = 0
    BY <2>1 DEF IInv, ProtectionOK, NoVolumes
  <2> QED
    BY <2>4, <2>5, <2>6 DEF IInv, ProtectionOK, NoVolumes, api, NormalCalls
<1>3. CASE next <= Len(DataDisks)
  <2>1. pc' = "DeleteGetVolume" /\ disk' = next /\ mem' = mem
    BY <1>1, <1>3 DEF ReleaseDisk
  <2>2. TypeOK' /\ ApiOK' /\ CopyOK(orig)' /\ ReadyHasProviderID'
    BY <1>1, <2>1, CallStep DEF PCs, CloudCalls
  <2>3. RunOK'
    BY <1>1, <1>3, <2>1, <2>2
    DEF IInv, RunOK, api, DiskCalls, NormalCalls, DeleteCalls, PatchCalls
  <2> QED
    BY <1>2, <2>2, <2>3 DEF IInv
<1>4. CASE ~(next <= Len(DataDisks))
  <2>1. pc' = "PatchSpec" /\ disk' = disk /\ mem' = [mem EXCEPT !.finalizer = FALSE]
    BY <1>1, <1>4 DEF ReleaseDisk, Return
  <2>2. /\ mem' \in Objects /\ mem'.dataDisks = DataDisks
        /\ mem'.providerID = mem.providerID /\ mem'.ready = mem.ready
    BY <1>1, <2>1, Zenon DEF Objects
  <2>3. TypeOK' /\ ApiOK' /\ CopyOK(orig)' /\ ReadyHasProviderID'
    BY <1>1, <2>1, <2>2, CallStep DEF PCs
  <2>4. NoVolumes'
    <3>1. \A i \in 1..Len(DataDisks) : volumes'[DataDisks[i]] = 0
      BY <1>4, DiskNames
    <3> QED
      BY <1>2, <3>1 DEF NoVolumes, VolumesOK
  <2>5. RunOK'
    BY <1>1, <2>1, <2>2, <2>3, <2>4
    DEF IInv, RunOK, api, DiskCalls, NormalCalls, DeleteCalls, PatchCalls
  <2> QED
    BY <1>2, <2>3, <2>5 DEF IInv
<1> QED
  BY <1>3, <1>4

\* Looking a volume up, and creating it.
LEMMA VolumeCallsIInv ==
  ASSUME IInv, GetVolume \/ CreateVolume
  PROVE  IInv'
<1>1. /\ pc \in {"GetVolume", "CreateVolume"} /\ pc \in NormalCalls
      /\ mem.dataDisks = DataDisks /\ disk \in 1..Len(DataDisks)
      /\ Len(DataDisks) \in Nat /\ mishaps \in MishapCounts
      /\ droplets \in [DropletIDs -> Statuses]
      /\ pc = "CreateVolume" => volumes[DataDisks[disk]] = 0
  BY DiskNames
  DEF IInv, TypeOK, RunOK, VolumesOK, GetVolume, CreateVolume, DiskCalls, NormalCalls
<1>2. CASE GetVolume
  <2>1. /\ UNCHANGED <<api, orig, mem, cluster, volumes, droplets, mishaps>>
        /\ \/ pc' = "CreateVolume" /\ disk' = disk /\ volumes[DataDisks[disk]] = 0
           \/ /\ disk' = disk + 1
              /\ pc' = IF disk + 1 <= Len(DataDisks) THEN "GetVolume" ELSE "GetDroplet"
    BY <1>1, <1>2 DEF GetVolume, EnsureDisk, cloud
  <2> QED
    BY <1>1, <2>1, NormalCallIInv DEF NormalCalls, DiskCalls
<1>3. CASE CreateVolume
  <2>1. /\ UNCHANGED <<api, orig, mem, cluster, droplets, mishaps>>
        /\ volumes' = [volumes EXCEPT ![DataDisks[disk]] = @ + 1]
        /\ disk' = disk + 1
        /\ pc' = IF disk + 1 <= Len(DataDisks) THEN "GetVolume" ELSE "GetDroplet"
        /\ pc = "CreateVolume"
    BY <1>1, <1>3 DEF CreateVolume, VolumeCreated, EnsureDisk
  <2>2. volumes[DataDisks[disk]] + 1 = 1
    BY <1>1, <2>1
  <2>3. volumes' = [volumes EXCEPT ![DataDisks[disk]] = 1]
    BY <2>1, <2>2, Zenon
  <2>4. /\ pc' \in NormalCalls /\ pc' # "CreateVolume"
        /\ disk' \in 1..(Len(DataDisks) + 1)
        /\ pc' \in DiskCalls => disk' <= Len(DataDisks)
    BY <1>1, <2>1 DEF NormalCalls, DiskCalls
  <2> QED
    BY <1>1, <2>1, <2>3, <2>4, NormalCallIInv, Zenon
<1> QED
  BY <1>2, <1>3

\* What Settle leaves in memory.
LEMMA SettleFacts ==
  ASSUME mem \in Objects, NEW id \in DropletIDs, NEW status \in Statuses,
         Settle(id, status)
  PROVE  /\ pc' = "PatchSpec" /\ UNCHANGED <<orig, disk>>
         /\ mem' \in Objects
         /\ mem'.finalizer = mem.finalizer /\ mem'.dataDisks = mem.dataDisks
         /\ mem'.providerID = id /\ mem'.providerID # NoDroplet
         /\ mem'.ready = (mem.ready \/ status = "active")
<1>1. PICK noNetworks \in BOOLEAN :
        Return([mem EXCEPT
          !.providerID = id,
          !.instanceStatus = status,
          !.ready = @ \/ status = "active",
          !.failureReason = @ \/ status \notin {"new", "active"},
          !.failureMessage = @ \/ noNetworks \/ status \notin {"new", "active"}])
  BY Zenon DEF Settle, GetDropletAddress
<1>2. /\ pc' = "PatchSpec" /\ UNCHANGED <<orig, disk>>
      /\ mem' = [mem EXCEPT
          !.providerID = id,
          !.instanceStatus = status,
          !.ready = @ \/ status = "active",
          !.failureReason = @ \/ status \notin {"new", "active"},
          !.failureMessage = @ \/ noNetworks \/ status \notin {"new", "active"}]
  BY <1>1 DEF Return
<1>3. id # NoDroplet
  BY DEF DropletIDs, NoDroplet
<1>4. /\ (mem.ready \/ status = "active") \in BOOLEAN
      /\ (mem.failureReason \/ status \notin {"new", "active"}) \in BOOLEAN
      /\ (mem.failureMessage \/ noNetworks \/ status \notin {"new", "active"}) \in BOOLEAN
  OBVIOUS
<1>5. mem' \in Objects
  BY <1>2, <1>4, Zenon DEF Objects
<1>6. /\ mem'.finalizer = mem.finalizer /\ mem'.dataDisks = mem.dataDisks
      /\ mem'.providerID = id /\ mem'.ready = (mem.ready \/ status = "active")
  BY <1>2 DEF Objects
<1> QED
  BY <1>2, <1>3, <1>5, <1>6

\* Looking the droplet up, and creating it.
LEMMA DropletCallsIInv ==
  ASSUME IInv, GetDroplet \/ CreateDroplet
  PROVE  IInv'
<1>1. /\ pc \in {"GetDroplet", "CreateDroplet"} /\ pc \in NormalCalls
      /\ mem \in Objects /\ mem.finalizer
      /\ droplets \in [DropletIDs -> Statuses] /\ volumes \in [VolumeNames -> Nat]
      /\ mishaps \in MishapCounts /\ disk \in 1..(Len(DataDisks) + 1)
  BY DEF IInv, TypeOK, RunOK, GetDroplet, CreateDroplet, NormalCalls
<1>2. ASSUME NEW id \in DropletIDs, NEW status \in Statuses, Settle(id, status),
             UNCHANGED <<api, cluster, volumes, mishaps>>,
             droplets' \in [DropletIDs -> Statuses],
             status = "active" => mem.providerID # NoDroplet
      PROVE  IInv'
  <2>1. /\ pc' = "PatchSpec" /\ UNCHANGED <<orig, disk>>
        /\ mem' \in Objects
        /\ mem'.finalizer = mem.finalizer /\ mem'.dataDisks = mem.dataDisks
        /\ mem'.providerID # NoDroplet
        /\ mem'.ready => mem.ready \/ status = "active"
    BY <1>1, <1>2, SettleFacts, Zenon
  <2>2. \A v \in VolumeNames : volumes'[v] <= volumes[v]
    BY <1>1, <1>2
  <2> QED
    BY <1>1, <1>2, <2>1, <2>2, ReturnIInv
<1>3. CASE GetDroplet
  <2>1. CASE pc' = "CreateDroplet" /\ UNCHANGED <<orig, mem, disk>>
    BY <1>1, <1>3, <2>1, NormalCallIInv
    DEF GetDroplet, cloud, NormalCalls, DiskCalls
  <2>2. CASE Found(mem.providerID) /\ Settle(mem.providerID, droplets[mem.providerID])
    <3>1. mem.providerID \in DropletIDs /\ mem.providerID # NoDroplet
      BY <1>1, <2>2 DEF Found, Objects
    <3>2. droplets[mem.providerID] \in Statuses
      BY <1>1, <3>1
    <3> QED
      BY <1>1, <1>2, <1>3, <2>2, <3>1, <3>2 DEF GetDroplet, cloud
  <2> QED
    BY <1>3, <2>1, <2>2 DEF GetDroplet
<1>4. CASE CreateDroplet
  <2>1. PICK d \in DropletIDs : DropletCreated(d) /\ Settle(d, "new")
    BY <1>4 DEF CreateDroplet
  <2>2. /\ UNCHANGED <<api, cluster, volumes, mishaps>>
        /\ droplets' = [droplets EXCEPT ![d] = "new"]
    BY <1>4, <2>1, Zenon DEF CreateDroplet, DropletCreated
  <2>3. "new" \in Statuses /\ droplets' \in [DropletIDs -> Statuses]
    BY <1>1, <2>2 DEF Statuses
  <2> QED
    BY <1>2, <2>1, <2>2, <2>3
<1> QED
  BY <1>3, <1>4

\* Tearing the machine down.
LEMMA DeleteCallsIInv ==
  ASSUME IInv, DeleteGetDroplet \/ DeleteDroplet \/ DeleteGetVolume \/ DeleteVolume
  PROVE  IInv'
<1>1. /\ pc \in DeleteCalls /\ mem \in Objects
      /\ mem.dataDisks = DataDisks /\ mem.finalizer /\ orig.phase = "deleting"
      /\ droplets \in [DropletIDs -> Statuses] /\ volumes \in [VolumeNames -> Nat]
      /\ mishaps \in MishapCounts /\ disk \in 1..(Len(DataDisks) + 1)
      /\ Len(DataDisks) \in Nat /\ 1 \in 1..(Len(DataDisks) + 1)
      /\ pc \in {"DeleteGetVolume", "DeleteVolume"} => disk \in 1..Len(DataDisks)
      /\ mem.providerID = orig.providerID /\ mem.ready = orig.ready
  BY DiskNames
  DEF IInv, TypeOK, RunOK, DeleteGetDroplet, DeleteDroplet, DeleteGetVolume,
      DeleteVolume, DeleteCalls, DiskCalls
<1>2. \A v \in VolumeNames : volumes[v] <= volumes[v]
  BY <1>1
\* The lookup finds something and the deletion of it comes next.
<1>3. ASSUME pc' \in {"DeleteDroplet", "DeleteVolume"},
             UNCHANGED <<orig, mem, disk, api, cluster, cloud, mishaps>>,
             \/ pc = "DeleteGetDroplet" /\ pc' = "DeleteDroplet"
             \/ /\ pc = "DeleteGetVolume" /\ pc' = "DeleteVolume"
                /\ volumes[DataDisks[disk]] = 1
      PROVE  IInv'
  <2>1. TypeOK' /\ ApiOK' /\ CopyOK(orig)' /\ ReadyHasProviderID'
    BY <1>1, <1>3, CallStep, Zenon DEF PCs, CloudCalls, cloud
  <2>2. RunOK'
    BY <1>1, <1>3, <2>1, Zenon
    DEF IInv, RunOK, api, DiskCalls, NormalCalls, DeleteCalls, PatchCalls
  <2>3. VolumesOK'
    BY <1>3 DEF IInv, VolumesOK, VolumeNamesUnique, cloud
  <2>4. ProtectionOK'
    BY <1>3 DEF IInv, ProtectionOK, NoVolumes, NormalCalls, api, cloud
  <2> QED
    BY <2>1, <2>2, <2>3, <2>4 DEF IInv
<1>4. CASE DeleteGetDroplet
  <2>1. CASE pc' = "DeleteDroplet" /\ UNCHANGED <<orig, mem, disk>>
    <3>1. pc = "DeleteGetDroplet" /\ UNCHANGED <<api, cluster, cloud, mishaps>>
      BY <1>4 DEF DeleteGetDroplet
    <3> QED
      BY <1>3, <2>1, <3>1
  <2>2. CASE ReleaseDisk(1)
    <3>1. orig' = orig
      BY <2>2 DEF ReleaseDisk, Return
    <3>2. \A i \in 1..(1 - 1) : volumes'[DataDisks[i]] = 0
      OBVIOUS
    <3> QED
      BY <1>1, <1>2, <1>4, <2>2, <3>1, <3>2, DeleteCallIInv DEF DeleteGetDroplet, cloud
  <2> QED
    BY <1>4, <2>1, <2>2 DEF DeleteGetDroplet
<1>5. CASE DeleteDroplet
  <2>0. "leaving" \in Statuses
    BY DEF Statuses
  <2>1. /\ ReleaseDisk(1) /\ UNCHANGED <<api, cluster, mishaps, volumes>>
        /\ droplets' \in [DropletIDs -> Statuses]
    BY <1>1, <1>5, <2>0, Zenon DEF DeleteDroplet, DropletDeleted
  <2>2. orig' = orig
    BY <2>1 DEF ReleaseDisk, Return
  <2>3. \A i \in 1..(1 - 1) : volumes'[DataDisks[i]] = 0
    OBVIOUS
  <2> QED
    BY <1>1, <1>2, <2>1, <2>2, <2>3, DeleteCallIInv
<1>6. CASE DeleteGetVolume
  <2>1. /\ pc = "DeleteGetVolume" /\ UNCHANGED <<api, cluster, cloud, mishaps>>
        /\ \A i \in 1..(disk - 1) : volumes[DataDisks[i]] = 0
        /\ disk + 1 \in 1..(Len(DataDisks) + 1)
    BY <1>1, <1>6 DEF DeleteGetVolume, IInv, VolumesOK
  <2>2. CASE volumes[DataDisks[disk]] = 0 /\ ReleaseDisk(disk + 1)
    <3>1. orig' = orig
      BY <2>2 DEF ReleaseDisk, Return
    <3>2. \A i \in 1..(disk + 1 - 1) : volumes'[DataDisks[i]] = 0
      BY <1>1, <2>1, <2>2 DEF cloud
    <3> QED
      BY <1>1, <1>2, <2>1, <2>2, <3>1, <3>2, DeleteCallIInv DEF cloud
  <2>3. CASE /\ volumes[DataDisks[disk]] = 1
             /\ pc' = "DeleteVolume" /\ UNCHANGED <<orig, mem, disk>>
    BY <1>3, <2>1, <2>3
  <2> QED
    BY <1>1, <1>6, <2>2, <2>3 DEF DeleteGetVolume
<1>7. CASE DeleteVolume
  <2>1. /\ pc = "DeleteVolume" /\ UNCHANGED <<api, cluster, mishaps, droplets>>
        /\ volumes' = [volumes EXCEPT ![DataDisks[disk]] = @ - 1]
        /\ volumes[DataDisks[disk]] = 1
        /\ \A i \in 1..(disk - 1) : volumes[DataDisks[i]] = 0
        /\ disk + 1 \in 1..(Len(DataDisks) + 1)
        /\ DataDisks[disk] \in VolumeNames
        /\ ReleaseDisk(disk + 1)
    BY <1>1, <1>7, DiskNames DEF DeleteVolume, VolumeDeleted, IInv, VolumesOK
  <2>2. volumes[DataDisks[disk]] - 1 = 0
    BY <2>1
  <2>3. volumes' = [volumes EXCEPT ![DataDisks[disk]] = 0]
    BY <2>1, <2>2
  <2>4. /\ volumes' \in [VolumeNames -> Nat]
        /\ \A v \in VolumeNames : volumes'[v] <= volumes[v]
    BY <1>1, <2>1, <2>3
  <2>5. \A i \in 1..(disk + 1 - 1) : volumes'[DataDisks[i]] = 0
    BY <1>1, <2>1, <2>3, DiskNames
  <2>6. orig' = orig
    BY <2>1 DEF ReleaseDisk, Return
  <2> QED
    BY <1>1, <2>1, <2>4, <2>5, <2>6, DeleteCallIInv
<1> QED
  BY <1>4, <1>5, <1>6, <1>7

\* An error in memory changes nothing that the invariant speaks of.
LEMMA AfterErrorFacts ==
  ASSUME mem \in Objects, AfterError
  PROVE  /\ pc' = "PatchSpec" /\ UNCHANGED <<orig, disk>>
         /\ mem' \in Objects
         /\ mem'.finalizer = mem.finalizer /\ mem'.dataDisks = mem.dataDisks
         /\ mem'.providerID = mem.providerID /\ mem'.ready = mem.ready
         /\ mem'.failureReason = mem.failureReason
         /\ mem'.failureMessage = mem.failureMessage
<1>1. /\ pc' = "PatchSpec" /\ UNCHANGED <<orig, disk>>
      /\ mem' = mem \/ mem' = [mem EXCEPT !.instanceStatus = "errored"]
  BY DEF AfterError, Return
<1> QED
  BY <1>1 DEF Objects

\* A call fails, or takes effect and its answer is lost.
LEMMA ErrorIInv ==
  ASSUME IInv, CallFails \/ ReplyLost
  PROVE  IInv'
<1>1. /\ pc \in NormalCalls \union DeleteCalls
      /\ AfterError /\ UNCHANGED <<api, cluster>>
  BY DEF CallFails, ReplyLost, CloudCalls, NormalCalls, DeleteCalls
<1>2. /\ mem \in Objects /\ mem.finalizer /\ mem.dataDisks = DataDisks
      /\ droplets \in [DropletIDs -> Statuses] /\ volumes \in [VolumeNames -> Nat]
      /\ mishaps \in MishapCounts
      /\ pc \in {"CreateVolume", "DeleteVolume"} => DataDisks[disk] \in VolumeNames
  BY <1>1, DiskNames DEF IInv, TypeOK, RunOK, DiskCalls
<1>3. /\ pc' = "PatchSpec" /\ UNCHANGED <<orig, disk>>
      /\ mem' \in Objects
      /\ mem'.finalizer = mem.finalizer /\ mem'.dataDisks = mem.dataDisks
      /\ mem'.providerID = mem.providerID /\ mem'.ready = mem.ready
  BY <1>1, <1>2, AfterErrorFacts, Zenon
<1>4. ASSUME mishaps' \in MishapCounts,
             droplets' \in [DropletIDs -> Statuses],
             volumes' \in [VolumeNames -> Nat],
             \A v \in VolumeNames :
               \/ volumes'[v] <= volumes[v]
               \/ pc = "CreateVolume" /\ v = DataDisks[disk] /\ volumes'[v] = 1
      PROVE  IInv'
  BY <1>1, <1>2, <1>3, <1>4, ReturnIInv
<1>5. ASSUME volumes' = volumes
      PROVE  /\ volumes' \in [VolumeNames -> Nat]
             /\ \A v \in VolumeNames : volumes'[v] <= volumes[v]
  BY <1>2, <1>5
<1>6. CASE CallFails
  BY <1>2, <1>4, <1>5, <1>6 DEF CallFails, cloud
<1>7. CASE ReplyLost
  <2>1. CASE pc = "CreateVolume" /\ VolumeCreated /\ NoMishap
    <3>1. volumes[DataDisks[disk]] + 1 = 1
      BY <2>1 DEF IInv, VolumesOK
    <3>2. volumes' = [volumes EXCEPT ![DataDisks[disk]] = 1]
      BY <1>2, <2>1, <3>1, Zenon DEF VolumeCreated
    <3> QED
      BY <1>2, <1>4, <2>1, <3>2 DEF VolumeCreated, NoMishap
  <2>2. CASE pc = "DeleteDroplet" /\ DropletDeleted /\ NoMishap
    <3>1. "leaving" \in Statuses
      BY DEF Statuses
    <3> QED
      BY <1>2, <1>4, <1>5, <2>2, <3>1, Zenon DEF DropletDeleted, NoMishap
  <2>3. CASE pc = "DeleteVolume" /\ VolumeDeleted /\ NoMishap
    <3>1. volumes[DataDisks[disk]] - 1 = 0
      BY <2>3 DEF IInv, VolumesOK
    <3>2. volumes' = [volumes EXCEPT ![DataDisks[disk]] = 0]
      BY <1>2, <2>3, <3>1, Zenon DEF VolumeDeleted
    <3> QED
      BY <1>2, <1>4, <2>3, <3>2 DEF VolumeDeleted, NoMishap
  <2>4. CASE /\ pc = "CreateDroplet"
             /\ \E d \in DropletIDs : DropletCreated(d)
             /\ Mishap("lostReply")
    <3>1. "new" \in Statuses
      BY DEF Statuses
    <3>2. droplets' \in [DropletIDs -> Statuses] /\ volumes' = volumes
      BY <1>2, <2>4, <3>1 DEF DropletCreated
    <3>3. mishaps' \in MishapCounts
      BY <1>2, <2>4, MishapCounted
    <3> QED
      BY <1>4, <1>5, <3>2, <3>3
  <2> QED
    BY <1>7, <2>1, <2>2, <2>3, <2>4 DEF ReplyLost
<1> QED
  BY <1>6, <1>7

\* A request that fails, or meets an object that is gone, changes no copy.
LEMMA NoPatch ==
  ASSUME IInv, \/ store.phase = "gone" /\ NoMishap /\ UNCHANGED api
               \/ RequestFails
  PROVE  UNCHANGED api /\ mishaps' \in MishapCounts
BY MishapCounted DEF IInv, TypeOK, RequestFails, NoMishap

\* What the first request of Close sends.
LEMMA SpecPatchFacts ==
  ASSUME store \in Objects, orig \in Objects, mem \in Objects
  PROVE  /\ SpecPatch \in Objects
         /\ SpecPatch.finalizer = Merged(store.finalizer, orig.finalizer, mem.finalizer)
         /\ SpecPatch.providerID =
              Merged(store.providerID, orig.providerID, mem.providerID)
         /\ SpecPatch.dataDisks = store.dataDisks /\ SpecPatch.ready = store.ready
         /\ SpecPatch.failureReason = store.failureReason
         /\ SpecPatch.failureMessage = store.failureMessage
         /\ SpecPatch.phase = IF store.phase = "deleting" /\ ~SpecPatch.finalizer
                              THEN "gone" ELSE store.phase
<1> DEFINE merged == [store EXCEPT
      !.finalizer = Merged(@, orig.finalizer, mem.finalizer),
      !.providerID = Merged(@, orig.providerID, mem.providerID)]
<1>1. /\ Merged(store.finalizer, orig.finalizer, mem.finalizer) \in BOOLEAN
      /\ Merged(store.providerID, orig.providerID, mem.providerID)
           \in {NoDroplet} \union DropletIDs
  BY DEF Merged, Objects
<1>2. /\ merged \in Objects
      /\ merged.finalizer = Merged(store.finalizer, orig.finalizer, mem.finalizer)
      /\ merged.providerID = Merged(store.providerID, orig.providerID, mem.providerID)
      /\ merged.dataDisks = store.dataDisks /\ merged.ready = store.ready
      /\ merged.phase = store.phase
      /\ merged.failureReason = store.failureReason
      /\ merged.failureMessage = store.failureMessage
  BY <1>1, Zenon DEF Objects
<1>3. SpecPatch = Finalized(merged)
  BY DEF SpecPatch
<1> HIDE DEF merged
<1>4. Finalized(merged) = merged \/ Finalized(merged) = [merged EXCEPT !.phase = "gone"]
  BY DEF Finalized
<1> QED
  BY <1>2, <1>3, Zenon DEF Finalized, Objects, Phases

\* The first request: the finalizer that it drops is not needed any more, and
\* the provider ID that it adds travels with the finalizer.
LEMMA PatchSpecIInv ==
  ASSUME IInv, PatchSpec
  PROVE  IInv'
<1>1. /\ pc = "PatchSpec" /\ pc' = "PatchStatus"
      /\ UNCHANGED <<orig, mem, disk, cluster, cloud>>
      /\ store \in Objects /\ orig \in Objects /\ mem \in Objects
      /\ ApiTypeOK /\ ApiOK /\ CopyOK(store) /\ CopyOK(orig) /\ CopyOK(cache)
      /\ mem.ready /\ ~orig.ready => orig.providerID # NoDroplet
      /\ orig.providerID # NoDroplet => mem.providerID # NoDroplet
      /\ ~mem.finalizer =>
           orig.phase = "deleting" /\ NoVolumes /\ cache.phase # "live"
  BY Zenon DEF PatchSpec, IInv, TypeOK, ApiTypeOK, ApiOK, RunOK, PatchCalls
<1>2. CASE UNCHANGED api /\ mishaps' \in MishapCounts
  <2>1. TypeOK' /\ ApiOK' /\ CopyOK(orig)' /\ ReadyHasProviderID'
    BY <1>1, <1>2, CallStep, Zenon DEF IInv, TypeOK, PCs, cloud
  <2>2. RunOK'
    BY <1>1, <1>2, <2>1, Zenon
    DEF IInv, RunOK, NoVolumes, api, cloud, DiskCalls, NormalCalls, DeleteCalls, PatchCalls
  <2>3. VolumesOK'
    BY <1>1 DEF IInv, VolumesOK, VolumeNamesUnique, cloud
  <2>4. ProtectionOK'
    BY <1>1, <1>2 DEF IInv, ProtectionOK, NoVolumes, NormalCalls, api, cloud
  <2> QED
    BY <2>1, <2>2, <2>3, <2>4 DEF IInv
<1>3. CASE store.phase # "gone" /\ Write(SpecPatch) /\ NoMishap
  <2> DEFINE obj == SpecPatch
  <2>1. /\ obj \in Objects
        /\ obj.finalizer = Merged(store.finalizer, orig.finalizer, mem.finalizer)
        /\ obj.providerID = Merged(store.providerID, orig.providerID, mem.providerID)
        /\ obj.dataDisks = store.dataDisks /\ obj.ready = store.ready
        /\ obj.phase = IF store.phase = "deleting" /\ ~obj.finalizer
                       THEN "gone" ELSE store.phase
    BY <1>1, SpecPatchFacts
  <2>2. /\ store' = obj /\ cache' = cache /\ protected' = (protected \/ obj.finalizer)
        /\ Write(obj) /\ mishaps' = mishaps
    BY <1>3 DEF Write, NoMishap
  <2> HIDE DEF obj
  <2>3. store.providerID # NoDroplet => obj.providerID # NoDroplet
    BY <1>1, <2>1 DEF Merged
  <2>4. ApiTypeOK' /\ ApiOK' /\ CopyOK(orig)'
    BY <1>1, <2>1, <2>2, <2>3, WriteKeepsCopies, Zenon DEF CopyOK
  <2>5. TypeOK'
    BY <1>1, <2>2, <2>4 DEF IInv, TypeOK, ApiTypeOK, PCs, cloud
  <2>6. RunOK'
    BY <1>1, <2>2, <2>4
    DEF IInv, RunOK, NoVolumes, cloud, DiskCalls, NormalCalls, DeleteCalls, PatchCalls
  <2>7. VolumesOK'
    BY <1>1 DEF IInv, VolumesOK, VolumeNamesUnique, cloud
  <2>8. ProtectionOK'
    <3>1. ~mem.finalizer => store.phase = "deleting" /\ protected /\ orig.finalizer
      BY <1>1, <1>3 DEF CopyOK, Objects, Phases
    <3>2. mem.finalizer => (obj.finalizer \/ (~protected /\ ~obj.finalizer))
      BY <1>1, <1>3, <2>1, Zenon DEF IInv, ProtectionOK, Merged, Objects
    <3>3. ~mem.finalizer => ~obj.finalizer /\ obj.phase = "gone"
      BY <1>1, <2>1, <3>1 DEF Merged, Objects
    <3>4. protected' /\ store'.phase # "gone" => store'.finalizer
      BY <2>2, <3>2, <3>3, Zenon
    <3>5. store'.providerID # NoDroplet => protected'
      BY <1>1, <2>1, <2>2, <3>1 DEF IInv, ProtectionOK, CopyOK, Merged, Objects
    <3>6. protected' /\ store'.phase = "gone" => ~mem.finalizer
      BY <1>1, <1>3, <2>1, <2>2, <3>2, Zenon
    <3> QED
      BY <1>1, <2>2, <3>4, <3>5, <3>6, Zenon DEF ProtectionOK, NoVolumes, NormalCalls, cloud
  <2>9. ReadyHasProviderID'
    BY <2>1, <2>2, <2>3 DEF IInv, ReadyHasProviderID
  <2> QED
    BY <2>4, <2>5, <2>6, <2>7, <2>8, <2>9 DEF IInv
<1> QED
  BY <1>2, <1>3, NoPatch DEF PatchSpec

\* The second request: readiness is only news for an object that was read
\* with a provider ID, which the API server has not forgotten.
LEMMA PatchStatusIInv ==
  ASSUME IInv, PatchStatus
  PROVE  IInv'
<1>1. /\ pc = "PatchStatus" /\ UNCHANGED <<cluster, cloud>>
      /\ pc' = "idle" /\ orig' = NewObject /\ mem' = NewObject /\ disk' = 1
      /\ store \in Objects /\ orig \in Objects /\ mem \in Objects
      /\ ApiTypeOK /\ ApiOK /\ CopyOK(store) /\ CopyOK(orig)
      /\ mem.ready /\ ~orig.ready => orig.providerID # NoDroplet
  BY DEF PatchStatus, Idle, IInv, TypeOK, ApiTypeOK, ApiOK, RunOK, PatchCalls
<1>2. RunOK' /\ VolumesOK'
  <2>1. RunOK'
    BY <1>1, Zenon
    DEF RunOK, CopyOK, NewObject, DiskCalls, NormalCalls, DeleteCalls, PatchCalls
  <2>2. VolumesOK'
    BY <1>1 DEF IInv, VolumesOK, VolumeNamesUnique, cloud
  <2> QED
    BY <2>1, <2>2
<1>3. ASSUME ApiTypeOK', mishaps' \in MishapCounts
      PROVE  TypeOK'
  BY <1>1, <1>3, NewObjectType, DiskNames DEF IInv, TypeOK, ApiTypeOK, PCs, cloud
<1>4. CASE UNCHANGED api /\ mishaps' \in MishapCounts
  <2>1. ApiTypeOK' /\ ApiOK'
    BY <1>1, <1>4, ApiStutter
  <2>2. ProtectionOK' /\ ReadyHasProviderID'
    BY <1>1, <1>4
    DEF IInv, ProtectionOK, ReadyHasProviderID, NoVolumes, NormalCalls, api, cloud
  <2> QED
    BY <1>2, <1>3, <1>4, <2>1, <2>2 DEF IInv
<1>5. CASE store.phase # "gone" /\ Write(StatusPatch) /\ NoMishap
  <2>1. /\ StatusPatch \in Objects
        /\ StatusPatch.phase = store.phase /\ StatusPatch.finalizer = store.finalizer
        /\ StatusPatch.providerID = store.providerID
        /\ StatusPatch.dataDisks = store.dataDisks
        /\ StatusPatch.ready = Merged(store.ready, orig.ready, mem.ready)
    BY <1>1, ZenonT(60) DEF StatusPatch, Objects, Merged
  <2>2. /\ store' = StatusPatch /\ cache' = cache
        /\ protected' = (protected \/ StatusPatch.finalizer)
        /\ mishaps' \in MishapCounts
    BY <1>5 DEF Write, NoMishap, IInv, TypeOK
  <2>3. ApiTypeOK' /\ ApiOK'
    BY <1>1, <1>5, <2>1, WriteKeepsCopies, Zenon DEF CopyOK
  <2>4. ProtectionOK'
    BY <1>1, <1>5, <2>1, <2>2, Zenon DEF IInv, ProtectionOK, NoVolumes, NormalCalls, cloud
  <2>5. ReadyHasProviderID'
    BY <1>1, <2>1, <2>2 DEF IInv, ReadyHasProviderID, CopyOK, Merged, Objects
  <2> QED
    BY <1>2, <1>3, <2>2, <2>3, <2>4, <2>5 DEF IInv
<1> QED
  BY <1>4, <1>5, NoPatch DEF PatchStatus

-----------------------------------------------------------------------------
(* The theorems.                                                           *)

\* Actions of the environment that touch nothing but cluster and droplets.
LEMMA WorldIInv ==
  ASSUME IInv,
         \/ ClusterAppears \/ PrerequisitesMet
         \/ \E d \in DropletIDs : DropletProgress(d) \/ ExternalChange(d)
  PROVE  IInv'
<1>1. /\ cluster \in {"missing", "present", "ready"}
      /\ droplets \in [DropletIDs -> Statuses]
      /\ {"active", "deleted", "off"} \subseteq Statuses
  BY DEF IInv, TypeOK, Statuses
<1>2. CASE ClusterAppears \/ PrerequisitesMet
  BY <1>1, <1>2, QuietStep DEF ClusterAppears, PrerequisitesMet, cloud
<1>3. CASE \E d \in DropletIDs : DropletProgress(d) \/ ExternalChange(d)
  <2>1. PICK d \in DropletIDs : DropletProgress(d) \/ ExternalChange(d)
    BY <1>3
  <2>2. /\ UNCHANGED <<api, cluster, volumes, run, mishaps>>
        /\ \E s \in {"active", "deleted", "off"} : droplets' = [droplets EXCEPT ![d] = s]
    BY <2>1 DEF DropletProgress, ExternalChange
  <2> QED
    BY <1>1, <2>2, QuietStep
<1> QED
  BY <1>2, <1>3

\* IInv is inductive: every action keeps it.
LEMMA NextIInv == IInv /\ [Next]_vars => IInv'
<1> SUFFICES ASSUME IInv, [Next]_vars PROVE IInv'
  OBVIOUS
<1>1. CASE Controller
  BY <1>1, StartReconcileIInv, VolumeCallsIInv, DropletCallsIInv, DeleteCallsIInv,
     ErrorIInv, PatchSpecIInv, PatchStatusIInv DEF Controller, CallSucceeds
<1>2. CASE Environment
  BY <1>2, DeliverEventIInv, UserDeleteIInv, UserUpdateIInv, WorldIInv, CrashIInv
  DEF Environment
<1>3. CASE UNCHANGED vars
  BY <1>3, QuietStep, Zenon DEF vars, api, run, IInv, TypeOK
<1> QED
  BY <1>1, <1>2, <1>3 DEF Next, Finished

\* In every behaviour of the controller the inductive invariant holds: what
\* each copy of a DOMachine says about the one in the API server, what each
\* step of Reconcile may rely on, and what the persisted finalizer buys.
THEOREM Invariance == Spec => []IInv
BY InitIInv, NextIInv, PTL DEF Spec

\* Every variable keeps its type: above all, no step of the reconciler counts
\* a volume below zero or runs past the last data disk.
THEOREM TypeCorrect == Spec => []TypeOK
<1>1. IInv => TypeOK
  BY DEF IInv
<1> QED
  BY <1>1, Invariance, PTL

\* A DOMachine whose finalizer was persisted leaves no volume behind
\* (reconcileDelete and reconcileDeleteVolumes, under all mishaps).
THEOREM VolumesAreReclaimed == Spec => []VolumesReclaimed
<1>1. IInv => VolumesReclaimed
  BY DEF IInv, ProtectionOK, NoVolumes, VolumesReclaimed
<1> QED
  BY <1>1, Invariance, PTL

\* reconcileVolumes never makes a second volume of one name, for any list of
\* data disks and any mishaps.
THEOREM VolumesStayUnique == Spec => []VolumeNamesUnique
<1>1. IInv => VolumeNamesUnique
  BY DEF IInv, VolumesOK
<1> QED
  BY <1>1, Invariance, PTL

\* A provider ID in the API server is always guarded by the finalizer
\* (reconcile adds both before Close, and Close sends them in one request).
THEOREM RecordedDropletsProtected == Spec => []RecordedDropletProtected
<1>1. IInv => RecordedDropletProtected
  BY DEF IInv, ProtectionOK, RecordedDropletProtected
<1> QED
  BY <1>1, Invariance, PTL

\* Status.Ready is never seen without a provider ID, although Close sends the
\* status even when the request with the provider ID has failed.
THEOREM ReadyAfterProviderID == Spec => []ReadyHasProviderID
<1>1. IInv => ReadyHasProviderID
  BY DEF IInv
<1> QED
  BY <1>1, Invariance, PTL

\* A step that destroys something belongs to reconcileDelete.
LEMMA DestroyIsDelete ==
  ASSUME IInv, [Next]_vars,
         \/ \E d \in DropletIDs : droplets'[d] = "leaving" /\ droplets[d] # "leaving"
         \/ \E v \in VolumeNames : volumes'[v] < volumes[v]
  PROVE  pc \in DeleteCalls
<1>1. /\ droplets \in [DropletIDs -> Statuses] /\ volumes \in [VolumeNames -> Nat]
      /\ mem.dataDisks = DataDisks
  BY DEF IInv, TypeOK, RunOK
<1>2. SUFFICES ASSUME pc \notin DeleteCalls PROVE FALSE
  OBVIOUS
<1>3. \/ UNCHANGED volumes
      \/ VolumeCreated
  BY <1>2, Zenon
  DEF Next, Controller, CallSucceeds, Environment, Finished, vars, cloud, DeleteCalls,
      StartReconcile, GetVolume, CreateVolume, GetDroplet, CreateDroplet,
      DeleteGetDroplet, DeleteDroplet, DeleteGetVolume, DeleteVolume, CallFails,
      ReplyLost, PatchSpec, PatchStatus, DeliverEvent, UserDelete, UserUpdate,
      ClusterAppears, PrerequisitesMet, DropletProgress, ExternalChange, Crash,
      DropletCreated
<1>4. \/ UNCHANGED droplets
      \/ \E d \in DropletIDs, s \in {"new", "active", "off", "deleted"} :
           droplets' = [droplets EXCEPT ![d] = s]
  BY <1>2, Zenon
  DEF Next, Controller, CallSucceeds, Environment, Finished, vars, cloud, DeleteCalls,
      StartReconcile, GetVolume, CreateVolume, GetDroplet, CreateDroplet,
      DeleteGetDroplet, DeleteDroplet, DeleteGetVolume, DeleteVolume, CallFails,
      ReplyLost, PatchSpec, PatchStatus, DeliverEvent, UserDelete, UserUpdate,
      ClusterAppears, PrerequisitesMet, DropletProgress, ExternalChange, Crash,
      DropletCreated, VolumeCreated
<1>5. \A v \in VolumeNames : ~(volumes'[v] < volumes[v])
  BY <1>1, <1>3 DEF VolumeCreated
<1>6. \A d \in DropletIDs : droplets'[d] = "leaving" => droplets[d] = "leaving"
  BY <1>1, <1>4
<1> QED
  BY <1>5, <1>6

\* The controller destroys a droplet or a volume only of a DOMachine that is
\* being deleted, however stale the copy it works from.
THEOREM DestroysOnlyWhenDeleting == Spec => DestroyOnlyWhenDeleting
<1> DEFINE Destroys ==
      \/ \E d \in DropletIDs : droplets'[d] = "leaving" /\ droplets[d] # "leaving"
      \/ \E v \in VolumeNames : volumes'[v] < volumes[v]
<1>1. IInv /\ [Next]_vars => [Destroys => store.phase # "live"]_vars
  <2>1. IInv /\ pc \in DeleteCalls => store.phase # "live"
    BY DEF IInv, RunOK, CopyOK
  <2>2. IInv /\ [Next]_vars /\ Destroys => pc \in DeleteCalls
    BY DestroyIsDelete
  <2> QED
    BY <2>1, <2>2
<1>2. Spec => [][Destroys => store.phase # "live"]_vars
  BY <1>1, Invariance, PTL DEF Spec
<1> QED
  BY <1>2 DEF DestroyOnlyWhenDeleting

-----------------------------------------------------------------------------
(***************************************************************************)
(* Proofs about the droplets of a DOMachine: the object keeps the contract *)
(* of an infrastructure object, and a failure freezes it.                  *)
(*                                                                         *)
(* The invariant above does not look at droplets.  This one adds which     *)
(* droplets the copies of the object can name, what a                      *)
(* reconciliation knows of the droplet it is about to replace or to let    *)
(* go, and how fresh the copy is that it works on.                         *)
(***************************************************************************)

\* A provider ID is the number of a droplet that was created.
KnownDroplet(o) == o.providerID # NoDroplet => droplets[o.providerID] # "none"

AllKnown ==
  /\ KnownDroplet(store) /\ KnownDroplet(cache)
  /\ KnownDroplet(orig) /\ KnownDroplet(mem)
  /\ \A i \in 1..Len(watch) : KnownDroplet(watch[i])

\* A droplet that is replaced, or whose machine is let go, does not run.
Superseded ==
  /\ pc \in {"CreateDroplet", "DeleteGetVolume", "DeleteVolume"} =>
       orig.providerID \notin Live
  /\ pc \in PatchCalls /\ mem.providerID # orig.providerID =>
       orig.providerID \notin Live /\ ~Failed(orig) /\ mem.finalizer
  /\ pc \in PatchCalls /\ ~mem.finalizer => orig.providerID \notin Live

\* What a reconciliation reports never takes back what it read.
Reports ==
  /\ pc \in NormalCalls => ~Failed(orig) /\ ~Failed(mem)
  /\ orig.failureReason => mem.failureReason
  /\ orig.failureMessage => mem.failureMessage
  /\ orig.ready => mem.ready

\* Until a reconciliation persists its results, the copy it read tells the
\* provider ID and the failure in the API server, unless it was stale.
CopyFresh ==
  ~Happened("staleRead") /\ pc \in CloudCalls \union {"PatchSpec"} =>
    /\ orig.providerID = store.providerID
    /\ orig.failureReason = store.failureReason
    /\ orig.failureMessage = store.failureMessage

DInv == CacheFollows /\ AllKnown /\ Superseded /\ Reports /\ CopyFresh

\* What the cloud does to droplets: none is forgotten, none comes back.
DropletsAge ==
  \A d \in DropletIDs :
    droplets[d] # "none" => droplets'[d] # "none" /\ (d \in Live' => d \in Live)

-----------------------------------------------------------------------------
\* Every copy, in whichever place, names a known droplet.
LEMMA KnownCopies ==
  AllKnown <=> \A o : Copy(o) \/ o = orig \/ o = mem => KnownDroplet(o)
BY DEF AllKnown, Copy

\* The invariant holds at the start.
LEMMA InitDInv == Init => DInv
BY DEF Init, InitObject, DInv, CacheFollows, AllKnown, KnownDroplet, Superseded,
       Reports, CopyFresh, NewObject, PatchCalls, NormalCalls, CloudCalls

\* Every step ages the droplets.
LEMMA StepAges ==
  ASSUME IInv, [Next]_vars
  PROVE  DropletsAge
<1> USE DEF DropletsAge, Live
<1>1. droplets \in [DropletIDs -> Statuses]
  BY DEF IInv, TypeOK
<1>2. ASSUME droplets' = droplets PROVE DropletsAge
  BY <1>2
<1>3. ASSUME NEW d \in DropletIDs, DropletProgress(d) \/ ExternalChange(d)
      PROVE  DropletsAge
  BY <1>1, <1>3 DEF DropletProgress, ExternalChange
<1>4. ASSUME NEW d \in DropletIDs, DropletCreated(d) PROVE DropletsAge
  BY <1>1, <1>4 DEF DropletCreated, Fresh
<1>5. ASSUME DropletDeleted PROVE DropletsAge
  BY <1>1, <1>5 DEF DropletDeleted
<1>6. CASE CreateDroplet
  BY <1>4, <1>6 DEF CreateDroplet
<1>7. CASE DeleteDroplet
  BY <1>5, <1>7 DEF DeleteDroplet
<1>8. CASE ReplyLost
  BY <1>2, <1>4, <1>5, <1>8 DEF ReplyLost, VolumeCreated, VolumeDeleted
<1>9. CASE Controller /\ ~CreateDroplet /\ ~DeleteDroplet /\ ~ReplyLost
  BY <1>2, <1>9, Zenon
  DEF Controller, CallSucceeds, StartReconcile, CallFails, PatchSpec, PatchStatus,
      GetVolume, CreateVolume, VolumeCreated, GetDroplet, DeleteGetDroplet,
      DeleteGetVolume, DeleteVolume, VolumeDeleted, cloud
<1>10. CASE Environment
  BY <1>2, <1>3, <1>10
  DEF Environment, DeliverEvent, UserDelete, UserUpdate, ClusterAppears,
      PrerequisitesMet, Crash, cloud
<1>11. CASE Finished \/ UNCHANGED vars
  BY <1>2, <1>11 DEF Finished, vars
<1> QED
  BY <1>6, <1>7, <1>8, <1>9, <1>10, <1>11, Zenon DEF Next

\* Every step has at most one mishap.
LEMMA StepMishaps ==
  ASSUME [Next]_vars
  PROVE  NoMishap \/ \E k \in MishapKinds : Mishap(k)
<1> USE DEF NoMishap, MishapKinds
<1>1. CASE Controller
  BY <1>1, Zenon
  DEF Controller, CallSucceeds, StartReconcile, ReadCache, CallFails, ReplyLost,
      PatchSpec, PatchStatus, RequestFails, GetVolume, CreateVolume, GetDroplet,
      CreateDroplet, DeleteGetDroplet, DeleteDroplet, DeleteGetVolume, DeleteVolume
<1>2. CASE Environment
  BY <1>2
  DEF Environment, DeliverEvent, Deliver, UserDelete, Delete, UserUpdate,
      ClusterAppears, PrerequisitesMet, DropletProgress, ExternalChange, Crash, Restart
<1>3. CASE Finished \/ UNCHANGED vars
  BY <1>3 DEF Finished, vars
<1> QED
  BY <1>1, <1>2, <1>3 DEF Next

\* Droplets that copies name stay known, and those that do not run stay so.
LEMMA KnownStays ==
  ASSUME IInv, DropletsAge, NEW o \in Objects, KnownDroplet(o)
  PROVE  /\ KnownDroplet(o)'
         /\ o.providerID \notin Live => o.providerID \notin Live'
BY DEF DropletsAge, KnownDroplet, Objects, Live, NoDroplet, DropletIDs

-----------------------------------------------------------------------------
(* The invariant is kept.                                                  *)

\* Others may move, and write versions of the object that name the same
\* droplet, while the reconciliation rests.
LEMMA OthersKeep ==
  ASSUME IInv, IInv', DInv, [Next]_vars, UNCHANGED run, CacheFollows',
         \A o : Copy(o)' => Copy(o) \/ o = store',
         store'.providerID = store.providerID,
         store'.failureReason = store.failureReason, store'.failureMessage = store.failureMessage
  PROVE  DInv'
<1>1. /\ DropletsAge /\ orig' = orig /\ mem' = mem /\ pc' = pc
      /\ orig \in Objects /\ mem \in Objects /\ store \in Objects
  BY StepAges DEF run, IInv, TypeOK
<1>2. \A o \in Objects : Copy(o) \/ o = orig \/ o = mem => KnownDroplet(o)'
  BY <1>1, KnownCopies, KnownStays DEF DInv
<1>3. KnownDroplet(store)'
  <2>1. store.providerID = NoDroplet \/ droplets'[store.providerID] # "none"
    BY <1>1, KnownStays
    DEF DInv, AllKnown, KnownDroplet, DropletsAge, Objects, DropletIDs, NoDroplet
  <2> QED
    BY <2>1 DEF KnownDroplet
<1>4. AllKnown'
  <2>1. ASSUME NEW o, Copy(o)' PROVE KnownDroplet(o)'
    <3>1. CASE o = store'
      BY <1>3, <3>1 DEF KnownDroplet
    <3>2. CASE Copy(o)
      <4>1. o \in Objects
        BY <3>2 DEF Copy, IInv, TypeOK
      <4> QED
        BY <1>2, <3>2, <4>1
    <3> QED
      BY <2>1, <3>1, <3>2
  <2>2. KnownDroplet(orig)' /\ KnownDroplet(mem)'
    BY <1>1, <1>2 DEF KnownDroplet
  <2> QED
    BY <2>1, <2>2 DEF AllKnown, Copy, KnownDroplet
<1>5. orig.providerID \notin Live => orig.providerID \notin Live'
  BY <1>1, KnownStays DEF DInv, AllKnown
<1>6. Superseded'
  BY <1>1, <1>5 DEF DInv, Superseded
<1>7. Reports'
  BY <1>1 DEF DInv, Reports
<1>8. CopyFresh'
  BY <1>1, StepMishaps, HappenedStays DEF DInv, CopyFresh, MishapKinds, IInv, TypeOK
<1> QED
  BY <1>4, <1>6, <1>7, <1>8 DEF DInv

\* A call to DigitalOcean leaves the API server alone; the droplet it names
\* afterwards is known, and what it gives up does not run.
LEMMA CallKeeps ==
  ASSUME IInv, IInv', DInv, [Next]_vars, UNCHANGED <<api, orig>>,
         pc \in CloudCalls, KnownDroplet(mem)', Superseded', Reports'
  PROVE  DInv'
<1>1. DropletsAge
  BY StepAges
<1>2. /\ store' = store /\ cache' = cache /\ watch' = watch /\ orig' = orig
      /\ store \in Objects /\ cache \in Objects /\ watch \in Seq(Objects)
      /\ orig \in Objects
  BY DEF api, IInv, TypeOK
<1>3. AllKnown'
  <2>1. /\ KnownDroplet(store)' /\ KnownDroplet(cache)' /\ KnownDroplet(orig)'
    BY <1>1, <1>2, KnownStays DEF DInv, AllKnown, KnownDroplet
  <2>2. \A i \in 1..Len(watch) : KnownDroplet(watch[i])'
    BY <1>1, <1>2, KnownStays DEF DInv, AllKnown, KnownDroplet
  <2> QED
    BY <1>2, <2>1, <2>2 DEF AllKnown, KnownDroplet
<1>4. CacheFollows'
  BY StutterCopies DEF DInv, api
<1>5. CopyFresh'
  BY <1>2, StepMishaps, HappenedStays
  DEF DInv, CopyFresh, MishapKinds, IInv, TypeOK
<1> QED
  BY <1>3, <1>4, <1>5 DEF DInv

\* A call that keeps what it has in memory and goes on in the normal branch.
LEMMA NormalCallsKeep ==
  ASSUME IInv, IInv', DInv, [Next]_vars, pc \in NormalCalls, UNCHANGED <<api, orig, mem>>,
         pc' \in NormalCalls \union {"PatchSpec"},
         pc' = "CreateDroplet" => orig.providerID \notin Live'
  PROVE  DInv'
<1>1. /\ mem.finalizer /\ mem.providerID = orig.providerID /\ mem.ready = orig.ready
      /\ pc \in CloudCalls
  BY DEF IInv, RunOK, NormalCalls, CloudCalls
<1>2. KnownDroplet(mem)'
  BY KnownStays, StepAges DEF IInv, TypeOK, DInv, AllKnown, KnownDroplet
<1>3. Superseded' /\ Reports'
  BY <1>1 DEF DInv, Superseded, Reports, NormalCalls, PatchCalls
<1> QED
  BY <1>1, <1>2, <1>3, CallKeeps

\* Looking for volumes and creating them.
LEMMA VolumeCallsKeep ==
  ASSUME IInv, IInv', DInv, [Next]_vars, GetVolume \/ CreateVolume
  PROVE  DInv'
<1>1. /\ pc \in NormalCalls /\ UNCHANGED <<api, orig, mem>>
      /\ pc' \in {"CreateVolume", "GetVolume", "GetDroplet"}
  BY DEF GetVolume, CreateVolume, EnsureDisk, NormalCalls
<1> QED
  BY <1>1, NormalCallsKeep DEF NormalCalls

\* Looking for the droplet and creating it.
LEMMA DropletCallsKeep ==
  ASSUME IInv, IInv', DInv, [Next]_vars, GetDroplet \/ CreateDroplet
  PROVE  DInv'
<1>1. /\ pc \in {"GetDroplet", "CreateDroplet"} /\ pc \in NormalCalls /\ pc \in CloudCalls
      /\ mem \in Objects /\ orig \in Objects /\ droplets \in [DropletIDs -> Statuses]
      /\ mem.finalizer /\ mem.providerID = orig.providerID /\ mem.ready = orig.ready
      /\ ~Failed(orig) /\ KnownDroplet(orig) /\ KnownDroplet(mem) /\ DropletsAge
      /\ UNCHANGED api
  BY StepAges, Zenon
  DEF GetDroplet, CreateDroplet, NormalCalls, CloudCalls, IInv, TypeOK, RunOK, DInv,
      Reports, AllKnown
<1>2. ASSUME GetDroplet, pc' = "CreateDroplet", UNCHANGED <<orig, mem>>,
             ~Found(mem.providerID)
      PROVE  DInv'
  <2>1. orig.providerID \notin Live'
    BY <1>1, <1>2 DEF GetDroplet, cloud, Found, Live, NoDroplet, DropletIDs
  <2> QED
    BY <1>1, <1>2, <2>1, NormalCallsKeep DEF NormalCalls
<1>3. ASSUME NEW id \in DropletIDs, NEW status \in Statuses, Settle(id, status),
             droplets'[id] # "none",
             id # orig.providerID => orig.providerID \notin Live'
      PROVE  DInv'
  <2>1. /\ pc' = "PatchSpec" /\ orig' = orig /\ mem'.finalizer = mem.finalizer
        /\ mem'.providerID = id /\ mem'.ready = (mem.ready \/ status = "active")
    BY <1>1, <1>3, SettleFacts, Zenon
  <2>2. KnownDroplet(mem)'
    BY <1>3, <2>1 DEF KnownDroplet
  <2>3. Superseded'
    BY <1>1, <1>3, <2>1 DEF Superseded, PatchCalls
  <2>4. Reports'
    BY <1>1, <2>1, Zenon DEF Failed, Reports, NormalCalls
  <2> QED
    BY <1>1, <2>1, <2>2, <2>3, <2>4, CallKeeps, Zenon
<1>4. CASE GetDroplet
  <2>1. CASE Found(mem.providerID) /\ Settle(mem.providerID, droplets[mem.providerID])
    <3>1. mem.providerID \in DropletIDs /\ droplets' = droplets
      BY <1>1, <1>4, <2>1, Zenon DEF Found, Objects, GetDroplet, cloud
    <3>2. droplets[mem.providerID] \in Statuses /\ droplets'[mem.providerID] # "none"
      BY <1>1, <2>1, <3>1 DEF Found
    <3> QED
      BY <1>1, <1>3, <2>1, <3>1, <3>2
  <2> QED
    BY <1>2, <1>4, <2>1, Zenon DEF GetDroplet
<1>5. CASE CreateDroplet
  <2>1. PICK d \in DropletIDs : DropletCreated(d) /\ Settle(d, "new")
    BY <1>5 DEF CreateDroplet
  <2>2. droplets'[d] # "none"
    BY <1>1, <2>1 DEF DropletCreated
  <2>3. orig.providerID \notin Live'
    <3>1. orig.providerID \notin Live
      BY <1>5 DEF CreateDroplet, DInv, Superseded
    <3> QED
      BY <1>1, <3>1, KnownStays
  <2> QED
    BY <1>3, <2>1, <2>2, <2>3 DEF Statuses
<1> QED
  BY <1>4, <1>5

\* Tearing the machine down.
LEMMA DeleteCallsKeep ==
  ASSUME IInv, IInv', DInv, [Next]_vars,
         DeleteGetDroplet \/ DeleteDroplet \/ DeleteGetVolume \/ DeleteVolume
  PROVE  DInv'
<1>1. /\ pc \in DeleteCalls /\ pc \in CloudCalls
      /\ mem \in Objects /\ orig \in Objects /\ droplets \in [DropletIDs -> Statuses]
      /\ mem.finalizer /\ mem.providerID = orig.providerID /\ mem.ready = orig.ready
      /\ orig.failureReason => mem.failureReason
      /\ orig.failureMessage => mem.failureMessage
      /\ KnownDroplet(orig) /\ KnownDroplet(mem) /\ DropletsAge
      /\ UNCHANGED api
  BY StepAges, Zenon
  DEF DeleteGetDroplet, DeleteDroplet, DeleteGetVolume, DeleteVolume, DeleteCalls,
      CloudCalls, IInv, TypeOK, RunOK, DInv, Reports, AllKnown
<1>2. ASSUME pc' \in {"DeleteDroplet", "DeleteGetVolume", "DeleteVolume"},
             UNCHANGED <<orig, mem>>,
             pc' # "DeleteDroplet" => orig.providerID \notin Live'
      PROVE  DInv'
  <2>1. KnownDroplet(mem)'
    BY <1>1, <1>2, KnownStays DEF KnownDroplet
  <2>2. Superseded' /\ Reports'
    BY <1>1, <1>2 DEF Superseded, Reports, PatchCalls, NormalCalls
  <2> QED
    BY <1>1, <1>2, <2>1, <2>2, CallKeeps
<1>3. ASSUME NEW i, ReleaseDisk(i), orig.providerID \notin Live'
      PROVE  DInv'
  <2>1. CASE pc' = "DeleteGetVolume" /\ UNCHANGED <<orig, mem>>
    BY <1>2, <1>3, <2>1
  <2>2. CASE Return([mem EXCEPT !.finalizer = FALSE])
    <3>1. /\ pc' = "PatchSpec" /\ orig' = orig /\ mem' = [mem EXCEPT !.finalizer = FALSE]
      BY <2>2 DEF Return
    <3>2. /\ mem'.providerID = mem.providerID /\ mem'.ready = mem.ready
          /\ mem'.failureReason = mem.failureReason
          /\ mem'.failureMessage = mem.failureMessage
      BY <1>1, <3>1 DEF Objects
    <3>3. KnownDroplet(mem)'
      BY <1>1, <3>2, KnownStays DEF KnownDroplet
    <3>4. Superseded' /\ Reports'
      BY <1>1, <1>3, <3>1, <3>2 DEF Superseded, Reports, PatchCalls, NormalCalls
    <3> QED
      BY <1>1, <3>1, <3>3, <3>4, CallKeeps
  <2> QED
    BY <1>3, <2>1, <2>2 DEF ReleaseDisk
<1>4. CASE DeleteGetDroplet
  <2>1. ~Found(mem.providerID) => orig.providerID \notin Live'
    BY <1>1, <1>4 DEF DeleteGetDroplet, cloud, Found, Live, NoDroplet, DropletIDs
  <2> QED
    BY <1>2, <1>3, <1>4, <2>1 DEF DeleteGetDroplet
<1>5. CASE DeleteDroplet
  <2>1. orig.providerID \notin Live'
    BY <1>1, <1>5 DEF DeleteDroplet, DropletDeleted, Live
  <2> QED
    BY <1>3, <1>5, <2>1 DEF DeleteDroplet
<1>6. CASE DeleteGetVolume \/ DeleteVolume
  <2>1. orig.providerID \notin Live
    BY <1>6 DEF DeleteGetVolume, DeleteVolume, DInv, Superseded
  <2>2. orig.providerID \notin Live'
    BY <1>1, <2>1, KnownStays
  <2> QED
    BY <1>2, <1>3, <1>6, <2>2 DEF DeleteGetVolume, DeleteVolume
<1> QED
  BY <1>4, <1>5, <1>6

\* A call fails, or takes effect and its answer is lost.
LEMMA ErrorsKeep ==
  ASSUME IInv, IInv', DInv, [Next]_vars, CallFails \/ ReplyLost
  PROVE  DInv'
<1>1. /\ pc \in NormalCalls \union DeleteCalls /\ pc \in CloudCalls
      /\ AfterError /\ UNCHANGED api /\ mem \in Objects
  BY DEF CallFails, ReplyLost, CloudCalls, NormalCalls, DeleteCalls, IInv, TypeOK
<1>2. /\ mem.finalizer /\ mem.providerID = orig.providerID /\ mem.ready = orig.ready
      /\ orig.failureReason => mem.failureReason
      /\ orig.failureMessage => mem.failureMessage
  BY <1>1 DEF IInv, RunOK, DInv, Reports
<1>3. /\ pc' = "PatchSpec" /\ orig' = orig /\ mem'.finalizer = mem.finalizer
      /\ mem'.providerID = mem.providerID /\ mem'.ready = mem.ready
      /\ mem'.failureReason = mem.failureReason
      /\ mem'.failureMessage = mem.failureMessage
  BY <1>1, AfterErrorFacts
<1>4. KnownDroplet(mem)'
  BY <1>1, <1>3, KnownStays, StepAges, Zenon DEF KnownDroplet, DInv, AllKnown
<1>5. Superseded' /\ Reports'
  BY <1>2, <1>3, Zenon DEF Superseded, Reports, PatchCalls, NormalCalls
<1> QED
  BY <1>1, <1>3, <1>4, <1>5, CallKeeps

\* A reconciliation starts from the cached copy, which is stale only if a
\* mishap was counted.
LEMMA StartKeeps ==
  ASSUME IInv, IInv', DInv, [Next]_vars, StartReconcile
  PROVE  DInv'
<1>1. /\ UNCHANGED <<api, cloud>> /\ orig' = cache /\ cache \in Objects
      /\ KnownDroplet(cache) /\ CacheFollows /\ DropletsAge
  BY StepAges
  DEF StartReconcile, ReadCache, NewMachineScope, IInv, TypeOK, DInv, AllKnown
<1>2. /\ mem'.providerID = cache.providerID /\ mem'.ready = cache.ready
      /\ mem'.failureReason = cache.failureReason
      /\ mem'.failureMessage = cache.failureMessage
      /\ pc' = "PatchSpec" => mem'.finalizer
      /\ pc' \in {"GetVolume", "GetDroplet", "PatchSpec", "DeleteGetDroplet"}
      /\ pc' # "DeleteGetDroplet" => ~Failed(cache)
  <2>1. CASE Reconcile
    BY <1>1, <2>1 DEF Reconcile, EnsureDisk, Objects
  <2>2. CASE ReconcileDelete
    BY <2>2 DEF ReconcileDelete
  <2> QED
    BY <2>1, <2>2 DEF StartReconcile
<1>3. AllKnown'
  BY <1>1, <1>2 DEF DInv, AllKnown, KnownDroplet, api, cloud
<1>4. CacheFollows'
  BY <1>1, StutterCopies
<1>5. Superseded' /\ Reports'
  BY <1>1, <1>2 DEF Failed, Superseded, Reports, PatchCalls, NormalCalls
<1>6. CopyFresh'
  <2>1. SUFFICES ASSUME ~Happened("staleRead")' PROVE cache = store /\ UNCHANGED store
    BY <1>1 DEF CopyFresh
  <2>2. watch = <<>>
    BY <2>1, MishapHappens DEF StartReconcile, ReadCache, IInv, TypeOK
  <2> QED
    BY <1>1, <2>2 DEF CacheFollows, api
<1> QED
  BY <1>3, <1>4, <1>5, <1>6 DEF DInv

\* The first request of Close.
LEMMA PatchSpecKeeps ==
  ASSUME IInv, IInv', DInv, [Next]_vars, PatchSpec
  PROVE  DInv'
<1>1. /\ pc = "PatchSpec" /\ pc' = "PatchStatus"
      /\ UNCHANGED <<orig, mem, droplets>>
      /\ store \in Objects /\ orig \in Objects /\ mem \in Objects
      /\ watch \in Seq(Objects)
  BY DEF PatchSpec, cloud, IInv, TypeOK
<1>2. Superseded' /\ Reports' /\ CopyFresh'
  BY <1>1 DEF DInv, Superseded, Reports, CopyFresh, Live, PatchCalls, NormalCalls, CloudCalls
<1>3. CASE UNCHANGED api
  BY <1>1, <1>2, <1>3, StutterCopies, ZenonT(60) DEF DInv, AllKnown, KnownDroplet, api
<1>4. CASE Write(SpecPatch)
  <2>1. /\ SpecPatch \in Objects
        /\ SpecPatch.providerID = Merged(store.providerID, orig.providerID, mem.providerID)
    BY <1>1, SpecPatchFacts
  <2>2. KnownDroplet(SpecPatch)
    BY <2>1, Zenon DEF KnownDroplet, Merged, DInv, AllKnown
  <2>3. CacheFollows' /\ \A o : Copy(o)' => Copy(o) \/ o = SpecPatch
    BY <1>1, <1>4, <2>1, WriteCopies DEF DInv
  <2>4. \A o : Copy(o) \/ o = orig \/ o = mem \/ o = SpecPatch => KnownDroplet(o)
    BY <2>2, KnownCopies DEF DInv
  <2>5. \A o : Copy(o)' \/ o = orig' \/ o = mem' => KnownDroplet(o)'
    BY <1>1, <2>3, <2>4 DEF KnownDroplet
  <2>6. AllKnown'
    BY <2>5 DEF AllKnown, Copy, KnownDroplet
  <2> QED
    BY <1>2, <2>3, <2>6 DEF DInv
<1> QED
  BY <1>3, <1>4 DEF PatchSpec, RequestFails

\* What is left when a reconciliation is over.
LEMMA IdleKeeps ==
  ASSUME IInv, DInv, Idle, UNCHANGED droplets, CacheFollows',
         \A o : Copy(o)' => Copy(o) \/ o.providerID = store.providerID
  PROVE  DInv'
<1>1. pc' = "idle" /\ orig' = NewObject /\ mem' = NewObject
  BY DEF Idle
<1>2. \A o : Copy(o)' => KnownDroplet(o)'
  BY KnownCopies DEF DInv, AllKnown, KnownDroplet
<1>3. AllKnown'
  BY <1>1, <1>2 DEF AllKnown, Copy, KnownDroplet, NewObject
<1>4. Superseded' /\ Reports' /\ CopyFresh'
  BY <1>1 DEF Superseded, Reports, CopyFresh, PatchCalls, NormalCalls, CloudCalls
<1> QED
  BY <1>3, <1>4 DEF DInv

\* The second request of Close, and a crash.
LEMMA EndKeeps ==
  ASSUME IInv, DInv, PatchStatus \/ Crash
  PROVE  DInv'
<1>1. /\ Idle /\ UNCHANGED droplets
      /\ store \in Objects /\ orig \in Objects /\ mem \in Objects
      /\ watch \in Seq(Objects) /\ CacheFollows
  BY DEF PatchStatus, Crash, cloud, IInv, TypeOK, DInv
<1>2. CASE UNCHANGED api
  BY <1>1, <1>2, StutterCopies, IdleKeeps
<1>3. CASE Write(StatusPatch)
  <2>1. StatusPatch \in Objects /\ StatusPatch.providerID = store.providerID
    BY <1>1, Zenon DEF StatusPatch, Objects, Merged
  <2> QED
    BY <1>1, <1>3, <2>1, WriteCopies, IdleKeeps
<1>4. CASE Crash
  BY <1>1, <1>4, RestartCopies, IdleKeeps DEF Crash
<1> QED
  BY <1>2, <1>3, <1>4 DEF PatchStatus, RequestFails

\* Users, the cluster, DigitalOcean.
LEMMA EnvironmentKeeps ==
  ASSUME IInv, IInv', DInv, [Next]_vars, Environment, ~Crash
  PROVE  DInv'
<1>1. /\ UNCHANGED run /\ store \in Objects /\ watch \in Seq(Objects)
      /\ CacheFollows
  BY DEF Environment, DeliverEvent, UserDelete, UserUpdate, ClusterAppears,
         PrerequisitesMet, DropletProgress, ExternalChange, IInv, TypeOK, DInv
<1>2. CASE UNCHANGED api
  BY <1>1, <1>2, StutterCopies, OthersKeep DEF api
<1>3. CASE DeliverEvent
  BY <1>1, <1>3, DeliverCopies, OthersKeep DEF DeliverEvent, Deliver
<1>4. ASSUME NEW obj \in Objects, Write(obj), obj.providerID = store.providerID,
             obj.failureReason = store.failureReason, obj.failureMessage = store.failureMessage
      PROVE  DInv'
  BY <1>1, <1>4, WriteCopies, OthersKeep DEF Write
<1>5. CASE UserDelete
  <2> DEFINE obj == Finalized([store EXCEPT !.phase = "deleting"])
  <2>1. /\ obj \in Objects /\ obj.providerID = store.providerID
        /\ obj.failureReason = store.failureReason
        /\ obj.failureMessage = store.failureMessage
    BY <1>1, Zenon DEF Finalized, Objects, Phases
  <2>2. Write(obj)
    BY <1>5 DEF UserDelete, Delete
  <2> HIDE DEF obj
  <2> QED
    BY <1>4, <2>1, <2>2
<1>6. CASE UserUpdate
  <2>1. PICK disks \in {DataDisks, <<>>} :
          Write([store EXCEPT !.dataDisks = disks, !.additionalTags = @ + 1])
    BY <1>6, Zenon DEF UserUpdate
  <2> DEFINE obj == [store EXCEPT !.dataDisks = disks, !.additionalTags = @ + 1]
  <2>2. disks \in Seq(VolumeNames) /\ store.additionalTags + 1 \in 0..MaxEdits
    <3>1. store.additionalTags < MaxEdits
      BY <1>6 DEF UserUpdate
    <3>2. store.additionalTags \in 0..MaxEdits
      BY <1>1 DEF Objects
    <3>3. store.additionalTags + 1 \in 0..MaxEdits
      BY <3>1, <3>2, MachineAssumption
    <3>4. disks \in Seq(VolumeNames)
      <4>1. <<>> \in Seq(VolumeNames)
        OBVIOUS
      <4> QED
        BY <4>1, MachineAssumption, Zenon
    <3> QED
      BY <3>3, <3>4
  <2>3. /\ obj \in Objects /\ obj.providerID = store.providerID
        /\ obj.failureReason = store.failureReason
        /\ obj.failureMessage = store.failureMessage
    BY <1>1, <2>2, Zenon DEF Objects
  <2> HIDE DEF obj
  <2> QED
    BY <1>4, <2>1, <2>3, Zenon DEF obj
<1> QED
  BY <1>2, <1>3, <1>5, <1>6
  DEF Environment, ClusterAppears, PrerequisitesMet, DropletProgress, ExternalChange

\* Every step keeps the invariant.
LEMMA NextDInv == IInv /\ IInv' /\ DInv /\ [Next]_vars => DInv'
<1> SUFFICES ASSUME IInv, IInv', DInv, [Next]_vars PROVE DInv'
  OBVIOUS
<1>1. CASE Controller
  BY <1>1, StartKeeps, VolumeCallsKeep, DropletCallsKeep, DeleteCallsKeep, ErrorsKeep,
     PatchSpecKeeps, EndKeeps
  DEF Controller, CallSucceeds
<1>2. CASE Environment
  BY <1>2, EnvironmentKeeps, EndKeeps
<1>3. CASE Finished \/ UNCHANGED vars
  BY <1>3, StutterCopies, OthersKeep, Zenon DEF Finished, vars, run, api, DInv
<1> QED
  BY <1>1, <1>2, <1>3 DEF Next

\* The invariant holds in every behaviour.
THEOREM DropletInvariance == Spec => [](IInv /\ DInv)
BY InitDInv, NextIInv, NextDInv, InitIInv, PTL DEF Spec

-----------------------------------------------------------------------------
(* The contract.                                                           *)

\* What the object says of the droplets changes only by a write of Close, by
\* a deletion, by a stale read or by the fate of the droplet it names.
LEMMA SameView ==
  ASSUME IInv, DInv, [Next]_vars, UNCHANGED store,
         Happened("staleRead")' = Happened("staleRead")
  PROVE  [Contract!Next]_(Contract!vars)
<1>1. store.providerID \in Live' => store.providerID \in Live
  BY StepAges, KnownStays, Zenon DEF IInv, TypeOK, DInv, AllKnown
<1> QED
  BY <1>1 DEF Contract!Next, Contract!Stop, Contract!vars

\* Another mishap, or none, makes no read stale.
LEMMA OtherMishap ==
  ASSUME mishaps \in MishapCounts,
         NoMishap \/ \E k \in MishapKinds \ {"staleRead"} : Mishap(k)
  PROVE  Happened("staleRead")' = Happened("staleRead")
BY DEF Happened, NoMishap, Mishap, MishapCounts, MishapKinds

\* Only a read from the cache can be stale.
LEMMA NotStale ==
  ASSUME IInv, [Next]_vars, ~StartReconcile
  PROVE  Happened("staleRead")' = Happened("staleRead")
<1>1. NoMishap \/ \E k \in MishapKinds \ {"staleRead"} : Mishap(k)
  <2> USE DEF NoMishap, MishapKinds
  <2>1. CASE Controller
    BY <2>1, Zenon
    DEF Controller, CallSucceeds, CallFails, ReplyLost,
        PatchSpec, PatchStatus, RequestFails, GetVolume, CreateVolume, GetDroplet,
        CreateDroplet, DeleteGetDroplet, DeleteDroplet, DeleteGetVolume, DeleteVolume
  <2>2. CASE Environment
    BY <2>2
    DEF Environment, DeliverEvent, Deliver, UserDelete, Delete, UserUpdate,
        ClusterAppears, PrerequisitesMet, DropletProgress, ExternalChange, Crash, Restart
  <2>3. CASE Finished \/ UNCHANGED vars
    BY <2>3 DEF Finished, vars
  <2> QED
    BY <2>1, <2>2, <2>3 DEF Next
<1> QED
  BY <1>1, OtherMishap DEF IInv, TypeOK

\* A stale read leads the controller astray.
LEMMA StartRefines ==
  ASSUME IInv, DInv, [Next]_vars, StartReconcile
  PROVE  [Contract!Next]_(Contract!vars)
<1>1. UNCHANGED <<store, droplets>>
  BY DEF StartReconcile, ReadCache, api, cloud
<1>2. Happened("staleRead") => Happened("staleRead")'
  BY StepMishaps, HappenedStays DEF IInv, TypeOK, MishapKinds
<1>3. Happened("staleRead")' \in BOOLEAN /\ Happened("staleRead") \in BOOLEAN
  BY DEF Happened
<1> QED
  BY <1>1, <1>2, <1>3, Zenon
  DEF Contract!Next, Contract!GoAstray, Contract!vars, Live

\* The deletion of an object without a finalizer, or with one.
LEMMA DeleteRefines ==
  ASSUME IInv, DInv, [Next]_vars, UserDelete
  PROVE  [Contract!Next]_(Contract!vars)
<1> DEFINE obj == Finalized([store EXCEPT !.phase = "deleting"])
<1>1. /\ store' = obj /\ store.phase = "live" /\ store \in Objects /\ UNCHANGED droplets
      /\ Happened("staleRead")' = Happened("staleRead")
  <2>1. NoMishap \/ \E k \in MishapKinds \ {"staleRead"} : Mishap(k)
    BY DEF UserDelete, Delete, MishapKinds
  <2> QED
    BY <2>1, OtherMishap DEF UserDelete, Delete, Write, IInv, TypeOK, cloud
<1>2. /\ obj.providerID = store.providerID /\ obj.ready = store.ready
      /\ obj.failureReason = store.failureReason
      /\ obj.failureMessage = store.failureMessage
      /\ obj.phase = IF store.finalizer THEN "deleting" ELSE "gone"
  BY <1>1 DEF Finalized, Objects, Phases
<1>3. store.providerID # NoDroplet => store.finalizer
  BY <1>1 DEF IInv, ProtectionOK
<1> QED
  BY <1>1, <1>2, <1>3 DEF Failed, Contract!Next, Contract!Delete, Contract!vars, Live

\* The first request of Close names a droplet or lets the object go.
LEMMA PatchSpecRefines ==
  ASSUME IInv, DInv, [Next]_vars, PatchSpec
  PROVE  [Contract!Next]_(Contract!vars)
<1>1. /\ pc = "PatchSpec" /\ UNCHANGED <<orig, mem, droplets>>
      /\ store \in Objects /\ orig \in Objects /\ mem \in Objects
      /\ Happened("staleRead")' = Happened("staleRead")
      /\ ~Happened("staleRead") => orig.providerID = store.providerID
      /\ mem.providerID # orig.providerID => orig.providerID \notin Live /\ mem.finalizer
      /\ ~mem.finalizer => orig.providerID \notin Live
      /\ store.phase = "deleting" => store.finalizer
      /\ store.ready => store.providerID # NoDroplet
      /\ orig.providerID # NoDroplet => mem.providerID # NoDroplet
  <2>1. ~StartReconcile
    BY DEF PatchSpec, StartReconcile
  <2> QED
    BY <2>1, NotStale, Zenon
    DEF PatchSpec, cloud, IInv, TypeOK, DInv, CopyFresh, Superseded, PatchCalls,
        ApiOK, CopyOK, ReadyHasProviderID, RunOK
<1>2. CASE UNCHANGED store
  BY <1>1, <1>2, SameView
<1>3. CASE store.phase # "gone" /\ Write(SpecPatch)
  <2>1. /\ SpecPatch \in Objects
        /\ SpecPatch.finalizer = Merged(store.finalizer, orig.finalizer, mem.finalizer)
        /\ SpecPatch.providerID = Merged(store.providerID, orig.providerID, mem.providerID)
        /\ SpecPatch.ready = store.ready
        /\ SpecPatch.failureReason = store.failureReason
        /\ SpecPatch.failureMessage = store.failureMessage
        /\ SpecPatch.phase = IF store.phase = "deleting" /\ ~SpecPatch.finalizer
                             THEN "gone" ELSE store.phase
    BY <1>1, SpecPatchFacts, Zenon
  <2>2. store' = SpecPatch
    BY <1>3 DEF Write
  <2>3. CASE mem.providerID = orig.providerID
    <3>1. store'.providerID = store.providerID
      BY <2>1, <2>2, <2>3 DEF Merged
    <3>2. CASE store'.phase = store.phase
      BY <1>1, <2>1, <2>2, <3>1, <3>2 DEF Failed, Contract!vars, Live
    <3>3. CASE store'.phase # store.phase
      <4>1. store.phase = "deleting" /\ store'.phase = "gone" /\ ~mem.finalizer
        BY <1>1, <2>1, <2>2, <3>3 DEF Merged, Objects
      <4>2. store.providerID \notin Live \/ Happened("staleRead")
        BY <1>1, <4>1
      <4> QED
        BY <1>1, <2>1, <2>2, <3>1, <4>1, <4>2, Zenon
        DEF Failed, Contract!Next, Contract!Leave, Contract!vars, Live
    <3> QED
      BY <3>2, <3>3
  <2>4. CASE mem.providerID # orig.providerID
    <3>1. /\ store'.providerID = mem.providerID /\ store'.phase = store.phase
          /\ store'.ready = store.ready /\ Failed(store') = Failed(store)
      BY <1>1, <2>1, <2>2, <2>4 DEF Failed, Merged
    <3>2. mem.providerID # NoDroplet /\ (store.providerID \notin Live \/ Happened("staleRead"))
      BY <1>1, <2>4
    <3>3. /\ store.ready \in BOOLEAN /\ Failed(store) \in BOOLEAN
          /\ (store.providerID \in Live)' \in BOOLEAN
      BY <1>1 DEF Failed, Objects
    <3>4. store'.providerID = store.providerID =>
            (store.providerID \in Live)' = (store.providerID \in Live)
      BY <1>1, Zenon DEF Live
    <3> QED
      BY <1>1, <1>3, <3>1, <3>2, <3>3, <3>4, Zenon
      DEF Contract!Next, Contract!Record, Contract!vars
  <2> QED
    BY <2>3, <2>4
<1> QED
  BY <1>2, <1>3 DEF PatchSpec, RequestFails, api

\* The second request of Close reports, and takes nothing back.
LEMMA PatchStatusRefines ==
  ASSUME IInv, IInv', DInv, [Next]_vars, PatchStatus
  PROVE  [Contract!Next]_(Contract!vars)
<1>1. /\ UNCHANGED droplets
      /\ store \in Objects /\ orig \in Objects /\ mem \in Objects
      /\ Happened("staleRead")' = Happened("staleRead")
      /\ orig.ready => mem.ready
      /\ orig.failureReason => mem.failureReason
      /\ orig.failureMessage => mem.failureMessage
      /\ store'.ready => store'.providerID # NoDroplet
  <2>1. ~StartReconcile
    BY DEF PatchStatus, StartReconcile
  <2> QED
    BY <2>1, NotStale, Zenon
    DEF PatchStatus, cloud, IInv, TypeOK, DInv, Reports, ReadyHasProviderID
<1>2. CASE UNCHANGED store
  BY <1>1, <1>2, SameView
<1>3. CASE store.phase # "gone" /\ Write(StatusPatch)
  <2>1. /\ store' = StatusPatch
        /\ StatusPatch.phase = store.phase /\ StatusPatch.providerID = store.providerID
        /\ StatusPatch.ready = Merged(store.ready, orig.ready, mem.ready)
        /\ StatusPatch.failureReason =
             Merged(store.failureReason, orig.failureReason, mem.failureReason)
        /\ StatusPatch.failureMessage =
             Merged(store.failureMessage, orig.failureMessage, mem.failureMessage)
    BY <1>1, <1>3 DEF StatusPatch, Objects, Write
  <2>2. /\ store.ready => store'.ready
        /\ Failed(store) => Failed(store')
        /\ store'.ready \in BOOLEAN /\ Failed(store') \in BOOLEAN
    BY <1>1, <2>1 DEF Failed, Merged, Objects
  <2>3. /\ (store.providerID \in Live)' = (store.providerID \in Live)
        /\ (store.providerID \in Live)' \in BOOLEAN
    BY <1>1, <2>1 DEF Live
  <2> QED
    BY <1>1, <1>3, <2>1, <2>2, <2>3, Zenon DEF Contract!Next, Contract!Record, Contract!vars
<1> QED
  BY <1>2, <1>3 DEF PatchStatus, RequestFails, api

\* Every step of the controller and of its world is one of the contract's.
LEMMA NextRefines ==
  IInv /\ IInv' /\ DInv /\ [Next]_vars => [Contract!Next]_(Contract!vars)
<1> SUFFICES ASSUME IInv, IInv', DInv, [Next]_vars PROVE [Contract!Next]_(Contract!vars)
  OBVIOUS
<1>1. CASE StartReconcile \/ UserDelete \/ PatchSpec \/ PatchStatus
  BY <1>1, StartRefines, DeleteRefines, PatchSpecRefines, PatchStatusRefines
<1>2. CASE UserUpdate
  <2>1. PICK disks \in {DataDisks, <<>>} :
          store' = [store EXCEPT !.dataDisks = disks, !.additionalTags = @ + 1]
    BY <1>2, Zenon DEF UserUpdate, Write
  <2>2. UNCHANGED <<droplets, mishaps>> /\ store \in Objects
    BY <1>2 DEF UserUpdate, cloud, IInv, TypeOK
  <2>3. /\ store'.phase = store.phase /\ store'.providerID = store.providerID
        /\ store'.ready = store.ready
        /\ store'.failureReason = store.failureReason
        /\ store'.failureMessage = store.failureMessage
    BY <2>1, <2>2 DEF Objects
  <2> QED
    BY <2>2, <2>3 DEF Failed, Contract!vars, Live, Happened
<1>3. CASE ~StartReconcile /\ UNCHANGED store
  BY <1>3, NotStale, SameView
<1>4. StartReconcile \/ UserDelete \/ PatchSpec \/ PatchStatus \/ UserUpdate \/ UNCHANGED store
  <2>1. CASE Controller
    BY <2>1, Zenon
    DEF Controller, CallSucceeds, CallFails, ReplyLost, GetVolume, CreateVolume, GetDroplet,
        CreateDroplet, DeleteGetDroplet, DeleteDroplet, DeleteGetVolume, DeleteVolume, api
  <2>2. CASE Environment
    BY <2>2
    DEF Environment, DeliverEvent, Deliver, ClusterAppears, PrerequisitesMet,
        DropletProgress, ExternalChange, Crash, Restart, api
  <2>3. CASE Finished \/ UNCHANGED vars
    BY <2>3 DEF Finished, vars, api
  <2> QED
    BY <2>1, <2>2, <2>3 DEF Next
<1> QED
  BY <1>1, <1>2, <1>3, <1>4

\* A DOMachine keeps the contract of an infrastructure object: InfraContract
\* is what DOMachine implements, whatever the mishaps (reconcile,
\* reconcileDelete and machineScope.Close).
THEOREM MachineKeepsContract == Spec => KeepsContract
<1>1. Init => Contract!Init
  BY DEF Failed, Init, InitObject, Contract!Init, NewObject, Live, Happened, MishapKinds,
         NoDroplet, DropletIDs
<1>2. IInv /\ IInv' /\ DInv /\ [Next]_vars => [Contract!Next]_(Contract!vars)
  BY NextRefines
<1> QED
  BY <1>1, <1>2, DropletInvariance, PTL DEF Spec, KeepsContract, Contract!Spec

-----------------------------------------------------------------------------
(* Failures.                                                               *)

\* No step of the controller or of its world touches a failed machine.
LEMMA StepFrozen ==
  ASSUME IInv, DInv, [Next]_vars, Failed(store), ~Happened("staleRead")
  PROVE  /\ store'.providerID = store.providerID
         /\ \A d \in DropletIDs : droplets[d] = "none" => droplets'[d] = "none"
<1>1. pc # "CreateDroplet"
  BY Zenon DEF Failed, DInv, CopyFresh, Reports, NormalCalls, CloudCalls
<1>2. pc = "PatchSpec" => mem.providerID = orig.providerID
  BY Zenon DEF Failed, DInv, CopyFresh, Superseded, PatchCalls
<1>3. store \in Objects /\ orig \in Objects /\ mem \in Objects
      /\ droplets \in [DropletIDs -> Statuses]
  BY DEF IInv, TypeOK
<1>4. \A d \in DropletIDs : droplets[d] = "none" => droplets'[d] = "none"
  <2>1. CASE Controller
    BY <1>1, <1>3, <2>1, Zenon
    DEF Controller, CallSucceeds, CallFails, ReplyLost, PatchSpec, PatchStatus,
        StartReconcile, GetVolume, CreateVolume, VolumeCreated, GetDroplet,
        CreateDroplet, DeleteGetDroplet, DeleteDroplet, DropletDeleted,
        DeleteGetVolume, DeleteVolume, VolumeDeleted, cloud, Live
  <2>2. CASE Environment
    BY <1>3, <2>2
    DEF Environment, DeliverEvent, UserDelete, UserUpdate, ClusterAppears,
        PrerequisitesMet, DropletProgress, ExternalChange, Crash, cloud, Live
  <2>3. CASE Finished \/ UNCHANGED vars
    BY <2>3 DEF Finished, vars
  <2> QED
    BY <2>1, <2>2, <2>3 DEF Next
<1>5. store'.providerID = store.providerID
  <2>1. ASSUME Write(SpecPatch), pc = "PatchSpec" PROVE store'.providerID = store.providerID
    BY <1>2, <1>3, <2>1, SpecPatchFacts DEF Write, Merged
  <2>2. ASSUME Write(StatusPatch) PROVE store'.providerID = store.providerID
    BY <1>3, <2>2 DEF Write, StatusPatch, Objects
  <2>3. CASE Controller
    BY <2>1, <2>2, <2>3, Zenon
    DEF Controller, CallSucceeds, CallFails, ReplyLost, PatchSpec, PatchStatus,
        StartReconcile, ReadCache, RequestFails, GetVolume, CreateVolume, GetDroplet,
        CreateDroplet, DeleteGetDroplet, DeleteDroplet, DeleteGetVolume, DeleteVolume, api
  <2>4. CASE UserDelete \/ UserUpdate
    BY <1>3, <2>4, Zenon DEF UserDelete, UserUpdate, Delete, Write, Finalized, Objects
  <2>5. CASE Environment /\ ~UserDelete /\ ~UserUpdate
    BY <2>5
    DEF Environment, DeliverEvent, Deliver, ClusterAppears, PrerequisitesMet,
        DropletProgress, ExternalChange, Crash, Restart, api
  <2>6. CASE Finished \/ UNCHANGED vars
    BY <2>6 DEF Finished, vars, api
  <2> QED
    BY <2>3, <2>4, <2>5, <2>6 DEF Next
<1> QED
  BY <1>4, <1>5

\* A failed machine has neither a new droplet nor another provider ID
\* (reconcile's early return), unless a stale read overlooked the failure.
THEOREM FailureFreezes == Spec => FailureFreezesMachine
<1> DEFINE Frozen ==
      Failed(store) /\ ~Happened("staleRead") =>
        /\ store'.providerID = store.providerID
        /\ \A d \in DropletIDs : droplets[d] = "none" => droplets'[d] = "none"
<1>1. IInv /\ DInv /\ [Next]_vars => [Frozen]_vars
  BY StepFrozen
<1> QED
  BY <1>1, DropletInvariance, PTL DEF Spec, FailureFreezesMachine

-----------------------------------------------------------------------------
(***************************************************************************)
(* The account of the droplets of a DOMachine: each one that nobody names  *)
(* any more was paid for with a mishap, for every number of droplets and   *)
(* mishaps.                                                                *)
(*                                                                         *)
(* A mishap often happens long before the droplet is lost: a stale read    *)
(* when a reconciliation starts, a finalizer that is missing when the      *)
(* object is deleted, a patch that fails.  The account therefore also      *)
(* books the loss that is still to come, AtRisk.                           *)
(***************************************************************************)

\* The droplet that the object in the API server names.
Named == IF store.phase = "gone" THEN {} ELSE {store.providerID}

\* The droplet that only the running reconciliation can still record.
Carried ==
  IF pc # "idle" /\ mem.providerID # orig.providerID THEN {mem.providerID} ELSE {}

Lost == Live \ (Named \union Carried)

\* The running reconciliation may lose one more droplet: the object does not
\* name what it read there, or its first patch did not arrive.
AtRisk ==
  \/ pc \notin {"idle", "PatchStatus"} /\ orig.providerID \notin Named
  \/ pc = "PatchStatus" /\ ~(Carried \subseteq Named)

Accounted == Cardinality(Lost) + (IF AtRisk THEN 1 ELSE 0) <= MishapTotal

-----------------------------------------------------------------------------
(* Bookkeeping.                                                            *)

\* The library counts finite sets; its theorems come in under a name of their own.
Finite == INSTANCE FiniteSetTheorems

\* The library counts what Cardinality counts.
LEMMA SameCount ==
  /\ \A S : Finite!Cardinality(S) = Cardinality(S)
  /\ \A S : Finite!IsFiniteSet(S) <=> IsFiniteSet(S)
<1>1. \A S : Finite!Cardinality(S) = Cardinality(S)
  BY DEF Finite!Cardinality, Cardinality
<1>2. \A S : Finite!IsFiniteSet(S) <=> IsFiniteSet(S)
  BY DEF Finite!IsFiniteSet, IsFiniteSet
<1> QED
  BY <1>1, <1>2

\* What loses nothing does not grow.
LEMMA LoseNone ==
  ASSUME NEW A, NEW B, IsFiniteSet(A), B \subseteq A
  PROVE  /\ IsFiniteSet(B) /\ Cardinality(B) \in Nat /\ Cardinality(A) \in Nat
         /\ Cardinality(B) <= Cardinality(A)
<1>1. Finite!IsFiniteSet(A)
  BY SameCount, Zenon
<1>2. Finite!IsFiniteSet(B) /\ Finite!Cardinality(B) <= Finite!Cardinality(A)
  BY <1>1, Finite!FS_Subset
<1>3. Finite!Cardinality(B) \in Nat /\ Finite!Cardinality(A) \in Nat
  BY <1>1, <1>2, Finite!FS_CardinalityType
<1> QED
  BY <1>2, <1>3, SameCount, Zenon

\* What loses one thing grows by one.
LEMMA LoseOne ==
  ASSUME NEW A, NEW B, NEW x, IsFiniteSet(A), B \subseteq A \union {x}
  PROVE  /\ IsFiniteSet(B) /\ Cardinality(B) \in Nat /\ Cardinality(A) \in Nat
         /\ Cardinality(B) <= Cardinality(A) + 1
<1>1. Finite!IsFiniteSet(A)
  BY SameCount, Zenon
<1>2. /\ Finite!IsFiniteSet(A \union {x})
      /\ \/ Finite!Cardinality(A \union {x}) = Finite!Cardinality(A)
         \/ Finite!Cardinality(A \union {x}) = Finite!Cardinality(A) + 1
  BY <1>1, Finite!FS_AddElement
<1>3. /\ IsFiniteSet(A \union {x})
      /\ \/ Cardinality(A \union {x}) = Cardinality(A)
         \/ Cardinality(A \union {x}) = Cardinality(A) + 1
  BY <1>2, SameCount, Zenon
<1>4. Cardinality(A) \in Nat
  BY LoseNone
<1>5. /\ IsFiniteSet(B) /\ Cardinality(B) \in Nat /\ Cardinality(A \union {x}) \in Nat
      /\ Cardinality(B) <= Cardinality(A \union {x})
  BY <1>3, LoseNone
<1> QED
  BY <1>3, <1>4, <1>5

\* There are finitely many droplets.
LEMMA FiniteLost ==
  ASSUME MaxDroplets \in Nat
  PROVE  IsFiniteSet(Lost) /\ Cardinality(Lost) \in Nat
<1>1. IsFiniteSet(DropletIDs)
  BY Finite!FS_Interval, SameCount DEF DropletIDs
<1>2. Lost \subseteq DropletIDs
  BY DEF Lost, Live
<1> QED
  BY <1>1, <1>2, LoseNone

\* A step pays with a mishap, or it does not.
Pays == MishapTotal' = MishapTotal + 1
Free == MishapTotal' = MishapTotal

\* No step has two mishaps.
LEMMA StepPays ==
  ASSUME IInv, [Next]_vars
  PROVE  /\ MishapTotal \in Nat /\ (Pays \/ Free)
         /\ NoMishap => Free
         /\ \A k : Mishap(k) => Pays
<1>1. mishaps \in MishapCounts
  BY DEF IInv, TypeOK
<1>2. NoMishap => Free
  BY DEF NoMishap, Free, MishapTotal
<1>3. \A k : Mishap(k) => Pays
  BY <1>1, MishapCounted DEF Pays
<1> QED
  BY <1>1, <1>2, <1>3, MishapTotalNat, StepMishaps

\* Nothing is lost, and a new risk is paid for.
LEMMA NothingLost ==
  ASSUME IInv, [Next]_vars, Accounted, Lost' \subseteq Lost,
         AtRisk' => AtRisk \/ Pays
  PROVE  Accounted'
<1>1. IsFiniteSet(Lost)
  BY FiniteLost, MachineAssumption
<1>2. /\ Cardinality(Lost') \in Nat /\ Cardinality(Lost) \in Nat
      /\ Cardinality(Lost') <= Cardinality(Lost)
  BY <1>1, LoseNone
<1>3. MishapTotal \in Nat /\ (Pays \/ Free)
  BY StepPays
<1> DEFINE before == Cardinality(Lost)
           after == Cardinality(Lost')
<1>4. /\ before \in Nat /\ after \in Nat /\ after <= before
      /\ before + (IF AtRisk THEN 1 ELSE 0) <= MishapTotal
  BY <1>2 DEF Accounted
<1> HIDE DEF before, after
<1>5. after + (IF AtRisk' THEN 1 ELSE 0) <= MishapTotal'
  BY <1>3, <1>4 DEF Pays, Free
<1> QED
  BY <1>5 DEF Accounted, after

\* One droplet is lost; it was at risk or is paid for.
LEMMA OneLost ==
  ASSUME IInv, [Next]_vars, Accounted, NEW x, Lost' \subseteq Lost \union {x},
         \/ AtRisk /\ ~AtRisk'
         \/ Pays /\ (AtRisk' => AtRisk)
  PROVE  Accounted'
<1>1. IsFiniteSet(Lost)
  BY FiniteLost, MachineAssumption
<1>2. /\ Cardinality(Lost') \in Nat /\ Cardinality(Lost) \in Nat
      /\ Cardinality(Lost') <= Cardinality(Lost) + 1
  BY <1>1, LoseOne, Zenon
<1>3. MishapTotal \in Nat /\ (Pays \/ Free)
  BY StepPays
<1> DEFINE before == Cardinality(Lost)
           after == Cardinality(Lost')
<1>4. /\ before \in Nat /\ after \in Nat /\ after <= before + 1
      /\ before + (IF AtRisk THEN 1 ELSE 0) <= MishapTotal
  BY <1>2 DEF Accounted
<1> HIDE DEF before, after
<1>5. after + (IF AtRisk' THEN 1 ELSE 0) <= MishapTotal'
  BY <1>3, <1>4 DEF Pays, Free
<1> QED
  BY <1>5 DEF Accounted, after

-----------------------------------------------------------------------------
(* The steps.                                                              *)

\* The account is empty at the start.
LEMMA InitAccounted == Init => Accounted
<1> SUFFICES ASSUME Init PROVE Accounted
  OBVIOUS
<1>1. Live = {} /\ ~AtRisk
  BY DEF Init, Live, AtRisk
<1>2. Lost = {}
  BY <1>1 DEF Lost
<1>3. Cardinality(Lost) = 0
  BY <1>2, Finite!FS_EmptySet, SameCount
<1>4. MishapTotal = 0
  BY DEF Init, InitObject, MishapTotal, MishapKinds
<1> QED
  BY <1>1, <1>3, <1>4 DEF Accounted

\* A step that leaves object and reconciliation alone creates no droplet.
LEMMA QuietAccount ==
  ASSUME IInv, DInv, [Next]_vars, Accounted, UNCHANGED <<pc, orig, mem>>,
         store'.phase = store.phase, store'.providerID = store.providerID, Live' \subseteq Live
  PROVE  Accounted'
<1>1. Named' = Named /\ Carried' = Carried
  BY DEF Named, Carried
<1>2. AtRisk' => AtRisk
  BY <1>1 DEF AtRisk
<1> QED
  BY <1>1, <1>2, NothingLost DEF Lost

\* A reconciliation that starts from the latest version risks nothing.
LEMMA StartAccount ==
  ASSUME IInv, DInv, [Next]_vars, Accounted, StartReconcile
  PROVE  Accounted'
<1>1. /\ pc = "idle" /\ orig' = cache /\ UNCHANGED <<store, droplets>>
      /\ pc' \in PCs \ {"idle", "PatchStatus"}
      /\ cache \in Objects /\ cache.phase # "gone"
      /\ mem' = cache \/ mem' = [cache EXCEPT !.finalizer = TRUE]
  BY DEF StartReconcile, NewMachineScope, Reconcile, ReconcileDelete, EnsureDisk, ReadCache,
         api, cloud, IInv, TypeOK, PCs, CloudCalls
<1>2. mem'.providerID = cache.providerID
  BY <1>1 DEF Objects
<1>3. Named' = Named /\ Carried' = {} /\ Carried = {} /\ Live' = Live
  BY <1>1, <1>2 DEF Named, Carried, Live
<1>4. AtRisk' => Pays
  <2>1. CASE watch = <<>>
    <3>1. cache = store
      BY <2>1 DEF DInv, CacheFollows
    <3>2. ~AtRisk'
      BY <1>1, <3>1 DEF AtRisk, Named
    <3> QED
      BY <3>2
  <2>2. CASE watch # <<>>
    BY <2>2, StepPays DEF StartReconcile, ReadCache
  <2> QED
    BY <2>1, <2>2
<1> QED
  BY <1>3, <1>4, NothingLost DEF Lost

\* A call that creates no droplet.
LEMMA CallAccount ==
  ASSUME IInv, DInv, [Next]_vars, Accounted, pc \in CloudCalls, UNCHANGED <<store, orig>>,
         pc' \notin {"idle", "PatchStatus"}, mem'.providerID = mem.providerID, Live' \subseteq Live
  PROVE  Accounted'
<1>1. Named' = Named /\ Carried' = Carried
  BY DEF Named, Carried, CloudCalls
<1>2. AtRisk' => AtRisk
  BY <1>1 DEF AtRisk, CloudCalls
<1> QED
  BY <1>1, <1>2, NothingLost DEF Lost

\* A new droplet is carried by the reconciliation that created it.  When the
\* answer is lost nobody names it, and that is a mishap.
LEMMA CreateAccount ==
  ASSUME IInv, DInv, [Next]_vars, Accounted, pc = "CreateDroplet", UNCHANGED <<store, orig>>,
         pc' = "PatchSpec", NEW d \in DropletIDs, DropletCreated(d),
         mem'.providerID = d \/ (Pays /\ mem'.providerID = mem.providerID)
  PROVE  Accounted'
<1>1. /\ mem.providerID = orig.providerID /\ orig \in Objects
      /\ droplets \in [DropletIDs -> Statuses] /\ KnownDroplet(orig)
  BY Zenon DEF IInv, TypeOK, RunOK, NormalCalls, DInv, AllKnown
<1>2. Live' = Live \union {d} /\ droplets[d] = "none"
  BY <1>1 DEF Live, DropletCreated, Fresh
<1>3. d # orig.providerID
  BY <1>1, <1>2 DEF KnownDroplet, NoDroplet, DropletIDs
<1>4. Named' = Named /\ Carried = {} /\ (AtRisk' => AtRisk)
  BY <1>1, Zenon DEF Named, Carried, AtRisk
<1>5. CASE mem'.providerID = d
  <2>1. Carried' = {d}
    BY <1>3, <1>5, Zenon DEF Carried
  <2>2. Lost' \subseteq Lost
    BY <1>2, <1>4, <2>1 DEF Lost
  <2> QED
    BY <1>4, <2>2, NothingLost
<1>6. CASE Pays /\ mem'.providerID = mem.providerID
  <2>1. Lost' \subseteq Lost \union {d}
    BY <1>2, <1>4 DEF Lost
  <2> QED
    BY <1>4, <1>6, <2>1, OneLost
<1> QED
  BY <1>5, <1>6

\* The calls of a reconciliation.
LEMMA CallsAccount ==
  ASSUME IInv, DInv, [Next]_vars, Accounted, CallSucceeds \/ CallFails \/ ReplyLost
  PROVE  Accounted'
<1>1. /\ pc \in CloudCalls /\ UNCHANGED api /\ store' = store
      /\ mem \in Objects /\ orig \in Objects /\ droplets \in [DropletIDs -> Statuses]
  BY Zenon DEF CallSucceeds, CallFails, ReplyLost, GetVolume, CreateVolume, GetDroplet,
         CreateDroplet, DeleteGetDroplet, DeleteDroplet, DeleteGetVolume, DeleteVolume,
         CloudCalls, IInv, TypeOK, api
<1>2. ASSUME UNCHANGED <<orig, mem>>, pc' \in CloudCalls, Live' \subseteq Live
      PROVE  Accounted'
  BY <1>1, <1>2, CallAccount DEF CloudCalls
<1>3. ASSUME NEW i, ReleaseDisk(i), Live' \subseteq Live PROVE Accounted'
  <2>1. CASE Return([mem EXCEPT !.finalizer = FALSE])
    <3>1. pc' = "PatchSpec" /\ orig' = orig /\ mem'.providerID = mem.providerID
      BY <1>1, <2>1 DEF Return, Objects
    <3> QED
      BY <1>1, <1>3, <3>1, CallAccount
  <2>2. CASE pc' = "DeleteGetVolume" /\ UNCHANGED <<orig, mem>>
    BY <1>2, <1>3, <2>2 DEF CloudCalls
  <2> QED
    BY <1>3, <2>1, <2>2 DEF ReleaseDisk
<1>4. ASSUME UNCHANGED droplets PROVE Live' \subseteq Live
  BY <1>4 DEF Live
<1>5. ASSUME DropletDeleted PROVE Live' \subseteq Live
  BY <1>1, <1>5 DEF DropletDeleted, Live
<1>6. CASE GetVolume \/ CreateVolume
  BY <1>2, <1>4, <1>6 DEF GetVolume, CreateVolume, VolumeCreated, EnsureDisk, cloud, CloudCalls
<1>7. CASE GetDroplet
  <2>1. CASE pc' = "CreateDroplet" /\ UNCHANGED <<orig, mem>>
    BY <1>2, <1>4, <1>7, <2>1, Zenon DEF GetDroplet, cloud, CloudCalls
  <2>2. CASE Found(mem.providerID) /\ Settle(mem.providerID, droplets[mem.providerID])
    <3>1. mem.providerID \in DropletIDs /\ droplets[mem.providerID] \in Statuses
      BY <1>1, <2>2 DEF Found, Objects
    <3>2. pc' = "PatchSpec" /\ orig' = orig /\ mem'.providerID = mem.providerID
      BY <1>1, <2>2, <3>1, SettleFacts
    <3> QED
      BY <1>1, <1>4, <1>7, <3>2, CallAccount DEF GetDroplet, cloud
  <2> QED
    BY <1>7, <2>1, <2>2 DEF GetDroplet
<1>8. CASE CreateDroplet
  <2>1. PICK d \in DropletIDs : DropletCreated(d) /\ Settle(d, "new")
    BY <1>8 DEF CreateDroplet
  <2>2. pc' = "PatchSpec" /\ orig' = orig /\ mem'.providerID = d
    BY <1>1, <2>1, SettleFacts DEF Statuses
  <2> QED
    BY <1>1, <1>8, <2>1, <2>2, CreateAccount, Zenon DEF CreateDroplet
<1>9. CASE DeleteGetDroplet \/ DeleteGetVolume
  BY <1>2, <1>3, <1>4, <1>9 DEF DeleteGetDroplet, DeleteGetVolume, cloud, CloudCalls
<1>10. CASE DeleteDroplet \/ DeleteVolume
  BY <1>3, <1>4, <1>5, <1>10 DEF DeleteDroplet, DeleteVolume, VolumeDeleted
<1>11. CASE CallFails \/ ReplyLost
  <2>1. AfterError
    BY <1>11 DEF CallFails, ReplyLost
  <2>2. pc' = "PatchSpec" /\ orig' = orig /\ mem'.providerID = mem.providerID
    BY <1>1, <2>1, AfterErrorFacts
  <2>3. CASE pc = "CreateDroplet" /\ ReplyLost
    <3>1. (\E d \in DropletIDs : DropletCreated(d)) /\ Pays
      BY <2>3, StepPays DEF ReplyLost
    <3> QED
      BY <1>1, <2>2, <2>3, <3>1, CreateAccount
  <2>4. CASE ~(pc = "CreateDroplet" /\ ReplyLost)
    <3>1. Live' \subseteq Live
      BY <1>4, <1>5, <1>11, <2>4
      DEF CallFails, ReplyLost, VolumeCreated, VolumeDeleted, cloud
    <3> QED
      BY <1>1, <2>2, <3>1, CallAccount
  <2> QED
    BY <2>3, <2>4
<1> QED
  BY <1>6, <1>7, <1>8, <1>9, <1>10, <1>11 DEF CallSucceeds

\* The first request of Close.  It loses the droplet that the object names
\* only if the reconciliation had read something else there.
LEMMA PatchSpecAccount ==
  ASSUME IInv, DInv, [Next]_vars, Accounted, PatchSpec
  PROVE  Accounted'
<1>1. /\ pc = "PatchSpec" /\ pc' = "PatchStatus" /\ UNCHANGED <<orig, mem, droplets>>
      /\ store \in Objects /\ orig \in Objects /\ mem \in Objects
      /\ mem.providerID # orig.providerID => orig.providerID \notin Live /\ mem.finalizer
      /\ ~mem.finalizer => orig.providerID \notin Live
      /\ store.phase = "deleting" => store.finalizer
  BY Zenon DEF PatchSpec, cloud, IInv, TypeOK, DInv, Superseded, PatchCalls, ApiOK, CopyOK
<1>2. Carried' = Carried /\ Live' = Live
  BY <1>1 DEF Carried, Live
<1>3. CASE UNCHANGED store
  <2>1. Lost' \subseteq Lost
    BY <1>2, <1>3 DEF Lost, Named
  <2>2. store.phase = "gone" => AtRisk
    BY <1>1 DEF AtRisk, Named
  <2>3. store.phase # "gone" /\ ~Pays => ~AtRisk'
    <3>1. SUFFICES ASSUME store.phase # "gone", ~Pays PROVE ~AtRisk'
      OBVIOUS
    <3>2. Write(SpecPatch)
      BY <3>1, StepPays DEF PatchSpec, RequestFails
    <3>3. store.providerID = Merged(store.providerID, orig.providerID, mem.providerID)
      BY <1>1, <1>3, <3>2, SpecPatchFacts DEF Write
    <3> QED
      BY <1>1, <1>3, <3>1, <3>3 DEF AtRisk, Carried, Named, Merged
  <2> QED
    BY <2>1, <2>2, <2>3, NothingLost
<1>4. CASE store.phase # "gone" /\ Write(SpecPatch)
  <2>1. /\ store' = SpecPatch
        /\ SpecPatch.finalizer = Merged(store.finalizer, orig.finalizer, mem.finalizer)
        /\ SpecPatch.providerID = Merged(store.providerID, orig.providerID, mem.providerID)
        /\ SpecPatch.phase = IF store.phase = "deleting" /\ ~SpecPatch.finalizer
                             THEN "gone" ELSE store.phase
    BY <1>1, <1>4, SpecPatchFacts DEF Write
  <2>2. ~AtRisk'
    <3>1. CASE mem.providerID = orig.providerID
      BY <1>1, <3>1 DEF AtRisk, Carried
    <3>2. CASE mem.providerID # orig.providerID
      <4>1. store'.providerID = mem.providerID /\ store'.phase # "gone"
        BY <1>1, <1>4, <2>1, <3>2 DEF Merged
      <4> QED
        BY <1>1, <4>1 DEF AtRisk, Carried, Named
    <3> QED
      BY <3>1, <3>2
  <2>3. Lost' \subseteq Lost \union {store.providerID}
    BY <1>2 DEF Lost, Named
  <2>4. CASE store.providerID # orig.providerID
    <3>1. AtRisk
      BY <1>1, <2>4 DEF AtRisk, Named
    <3> QED
      BY <2>2, <2>3, <3>1, OneLost
  <2>5. CASE store.providerID = orig.providerID
    <3>1. store.providerID \in Live' => store.providerID \in Named'
      <4>1. CASE ~mem.finalizer \/ mem.providerID # orig.providerID
        BY <1>1, <1>2, <2>5, <4>1
      <4>2. CASE mem.finalizer /\ mem.providerID = orig.providerID
        BY <1>1, <1>4, <2>1, <4>2, Zenon DEF Merged, Named
      <4> QED
        BY <4>1, <4>2 DEF Objects
    <3>2. Lost' \subseteq Lost
      BY <1>2, <2>3, <3>1 DEF Lost, Named
    <3> QED
      BY <2>2, <3>2, NothingLost
  <2> QED
    BY <2>4, <2>5
<1> QED
  BY <1>3, <1>4 DEF PatchSpec, RequestFails, api

\* The end of a reconciliation drops what it carried.
LEMMA EndAccount ==
  ASSUME IInv, DInv, [Next]_vars, Accounted, PatchStatus \/ Crash
  PROVE  Accounted'
<1>1. pc' = "idle" /\ Live' = Live /\ Carried \subseteq {mem.providerID}
  BY DEF PatchStatus, Crash, Idle, cloud, Live, Carried
<1>2. Carried' = {} /\ ~AtRisk'
  BY <1>1 DEF Carried, AtRisk
<1>3. Named' = Named
  <2>1. CASE UNCHANGED store
    BY <2>1 DEF Named
  <2>2. CASE Write(StatusPatch)
    <3>1. store \in Objects
      BY DEF IInv, TypeOK
    <3>2. store'.phase = store.phase /\ store'.providerID = store.providerID
      BY <2>2, <3>1 DEF Write, StatusPatch, Objects
    <3> QED
      BY <3>2 DEF Named
  <2> QED
    BY <2>1, <2>2 DEF PatchStatus, Crash, Restart, RequestFails, api
<1>4. Lost' \subseteq Lost \union {mem.providerID}
  BY <1>1, <1>2, <1>3 DEF Lost
<1>5. CASE Pays \/ AtRisk
  BY <1>2, <1>4, <1>5, OneLost
<1>6. CASE ~Pays /\ ~AtRisk
  <2>1. PatchStatus /\ Carried \subseteq Named
    BY <1>6, StepPays DEF Crash, Restart, AtRisk, PatchStatus
  <2>2. Lost' \subseteq Lost
    BY <1>1, <1>2, <1>3, <2>1 DEF Lost
  <2> QED
    BY <1>2, <2>2, NothingLost
<1> QED
  BY <1>5, <1>6

\* Without a finalizer the deletion is at once, but then no droplet is named.
LEMMA DeleteAccount ==
  ASSUME IInv, DInv, [Next]_vars, Accounted, UserDelete
  PROVE  Accounted'
<1> DEFINE obj == Finalized([store EXCEPT !.phase = "deleting"])
<1>1. /\ store' = obj /\ store.phase = "live" /\ store \in Objects
      /\ UNCHANGED <<droplets, pc, orig, mem>>
      /\ ~store.finalizer /\ pc # "idle" => Pays
  BY StepPays DEF UserDelete, Delete, Write, IInv, TypeOK, cloud, run
<1>2. /\ obj.providerID = store.providerID
      /\ obj.phase = IF store.finalizer THEN "deleting" ELSE "gone"
  BY <1>1 DEF Finalized, Objects, Phases
<1>3. Carried' = Carried /\ Live' = Live
  BY <1>1 DEF Carried, Live
<1>4. CASE store.finalizer
  <2>1. Named' = Named
    BY <1>1, <1>2, <1>4 DEF Named
  <2>2. AtRisk' => AtRisk
    BY <1>1, <1>3, <2>1 DEF AtRisk
  <2> QED
    BY <1>3, <2>1, <2>2, NothingLost DEF Lost
<1>5. CASE ~store.finalizer
  <2>1. store.providerID = NoDroplet
    BY <1>1, <1>5 DEF IInv, ProtectionOK
  <2>2. store.providerID \notin Live
    BY <2>1 DEF Live, NoDroplet, DropletIDs
  <2>3. Lost' \subseteq Lost
    BY <1>3, <2>2 DEF Lost, Named
  <2>4. AtRisk' => Pays
    BY <1>1, <1>5 DEF AtRisk
  <2> QED
    BY <2>3, <2>4, NothingLost
<1> QED
  BY <1>4, <1>5

\* Every step keeps the account.
LEMMA NextAccounted == IInv /\ DInv /\ Accounted /\ [Next]_vars => Accounted'
<1> SUFFICES ASSUME IInv, DInv, Accounted, [Next]_vars PROVE Accounted'
  OBVIOUS
<1>1. CASE Controller
  BY <1>1, StartAccount, CallsAccount, PatchSpecAccount, EndAccount DEF Controller
<1>2. CASE UserDelete \/ Crash
  BY <1>2, DeleteAccount, EndAccount
<1>3. CASE UserUpdate
  <2>1. store \in Objects
    BY DEF IInv, TypeOK
  <2>2. /\ store'.phase = store.phase /\ store'.providerID = store.providerID
        /\ UNCHANGED <<droplets, pc, orig, mem>>
    BY <1>3, <2>1 DEF UserUpdate, Write, Objects, cloud, run
  <2> QED
    BY <2>2, QuietAccount DEF Live
<1>4. CASE Environment /\ ~UserDelete /\ ~Crash /\ ~UserUpdate
  <2>1. UNCHANGED <<store, pc, orig, mem>>
    BY <1>4
    DEF Environment, DeliverEvent, Deliver, ClusterAppears, PrerequisitesMet,
        DropletProgress, ExternalChange, api, run
  <2>2. droplets \in [DropletIDs -> Statuses]
    BY DEF IInv, TypeOK
  <2>3. Live' \subseteq Live
    BY <1>4, <2>2
    DEF Environment, DeliverEvent, ClusterAppears, PrerequisitesMet,
        DropletProgress, ExternalChange, cloud, Live
  <2> QED
    BY <2>1, <2>3, QuietAccount
<1>5. CASE Finished \/ UNCHANGED vars
  <2>1. UNCHANGED <<store, droplets, pc, orig, mem>>
    BY <1>5 DEF Finished, vars, api, cloud, run
  <2> QED
    BY <2>1, QuietAccount DEF Live
<1> QED
  BY <1>1, <1>2, <1>3, <1>4, <1>5 DEF Next

\* The account balances in every state.
THEOREM AccountInvariance == Spec => [](IInv /\ DInv /\ Accounted)
<1>1. Init => Accounted
  BY InitAccounted
<1>2. IInv /\ DInv /\ Accounted /\ [Next]_vars => Accounted'
  BY NextAccounted
<1> QED
  BY <1>1, <1>2, DropletInvariance, PTL DEF Spec

\* A droplet of a DOMachine escapes the controller's bookkeeping only through
\* a mishap (a crash, a lost answer, a failed patch, a stale read, a deletion
\* before the finalizer arrived), and each mishap costs at most one droplet.
THEOREM LeaksAreBounded == Spec => []LeaksBoundedByMishaps
<1>1. IInv /\ Accounted => LeaksBoundedByMishaps
  <2> SUFFICES ASSUME IInv, Accounted PROVE LeaksBoundedByMishaps
    OBVIOUS
  <2>1. IsFiniteSet(Lost) /\ Cardinality(Lost) \in Nat
    BY FiniteLost, MachineAssumption
  <2>2. Orphans \subseteq Lost
    BY DEF Orphans, Lost, Named, Carried
  <2>3. Cardinality(Orphans) \in Nat /\ Cardinality(Orphans) <= Cardinality(Lost)
    BY <2>1, <2>2, LoseNone
  <2>4. MishapTotal \in Nat
    BY MishapTotalNat DEF IInv, TypeOK
  <2> DEFINE lost == Cardinality(Lost)
  <2>5. lost \in Nat /\ lost + (IF AtRisk THEN 1 ELSE 0) <= MishapTotal
    BY <2>1 DEF Accounted
  <2> HIDE DEF lost
  <2>6. lost <= MishapTotal
    BY <2>4, <2>5
  <2> QED
    BY <2>1, <2>3, <2>4, <2>6 DEF LeaksBoundedByMishaps, lost
<1> QED
  BY <1>1, AccountInvariance, PTL

-----------------------------------------------------------------------------
(* What the account says of the droplets that are there.                   *)

\* Of the droplets that are not lost, one at most runs, or the second is
\* booked as a risk: a reconciliation replaces only a droplet that is gone.
LEMMA OneIsKept ==
  ASSUME IInv, DInv
  PROVE  \E x, y : /\ Live \subseteq (Lost \union {x}) \union {y}
                   /\ x = y \/ AtRisk
<1> DEFINE Fits == \E x, y : /\ Live \subseteq (Lost \union {x}) \union {y}
                             /\ x = y \/ AtRisk
<1>1. Live \subseteq Lost \union Named \union Carried
  BY DEF Lost
<1>2. ASSUME NEW x, Live \subseteq Lost \union {x} PROVE Fits
  <2>1. Live \subseteq (Lost \union {x}) \union {x}
    BY <1>2, Zenon
  <2> QED
    BY <2>1, Zenon
<1>3. ASSUME AtRisk, NEW x, NEW y, Named \subseteq {x}, Carried \subseteq {y} PROVE Fits
  <2>1. Live \subseteq (Lost \union {x}) \union {y}
    BY <1>1, <1>3, Zenon
  <2> QED
    BY <1>3, <2>1, Zenon
<1>4. Named \subseteq {store.providerID} /\ Carried \subseteq {mem.providerID}
  BY DEF Named, Carried
<1>5. CASE Carried \subseteq Named
  <2>1. Live \subseteq Lost \union {store.providerID}
    BY <1>1, <1>4, <1>5, Zenon
  <2> QED
    BY <1>2, <2>1, Zenon
<1>6. CASE ~(Carried \subseteq Named) /\ ~AtRisk
  <2>1. pc # "idle" /\ mem.providerID # orig.providerID
    BY <1>6 DEF Carried
  <2>2. pc \in PatchCalls
    BY <2>1 DEF IInv, RunOK, TypeOK, PCs, CloudCalls, NormalCalls, DeleteCalls, PatchCalls
  <2>3. pc = "PatchSpec" /\ orig.providerID \in Named
    BY <1>6, <2>2 DEF AtRisk, PatchCalls
  <2>4. orig.providerID \notin Live /\ Named = {orig.providerID}
    BY <1>4, <2>1, <2>2, <2>3, Zenon DEF DInv, Superseded
  <2>5. Live \subseteq Lost \union {mem.providerID}
    BY <1>1, <1>4, <2>4, Zenon
  <2> QED
    BY <1>2, <2>5, Zenon
<1>7. CASE AtRisk
  BY <1>3, <1>4, <1>7, Zenon
<1> QED
  BY <1>5, <1>6, <1>7, Zenon

\* Without a mishap a DOMachine never has two droplets, and each mishap adds
\* at most one (GetDroplet before CreateDroplet, Close after it).
THEOREM OneDroplet == Spec => []OneDropletPerMachine
<1>1. IInv /\ DInv /\ Accounted => OneDropletPerMachine
  <2> SUFFICES ASSUME IInv, DInv, Accounted PROVE OneDropletPerMachine
    OBVIOUS
  <2>1. PICK x, y : Live \subseteq (Lost \union {x}) \union {y} /\ (x = y \/ AtRisk)
    BY OneIsKept, Zenon
  <2>2. IsFiniteSet(Lost)
    BY FiniteLost, MachineAssumption
  <2>3. /\ IsFiniteSet(Lost \union {x}) /\ Cardinality(Lost \union {x}) \in Nat
        /\ Cardinality(Lost) \in Nat
        /\ Cardinality(Lost \union {x}) <= Cardinality(Lost) + 1
    BY <2>2, LoseOne, ZenonT(60)
  <2>4. /\ Cardinality(Live) \in Nat
        /\ Cardinality(Live) <= Cardinality(Lost \union {x}) + 1
    BY <2>1, <2>3, LoseOne
  <2>5. CASE AtRisk
    <3>1. Cardinality(Lost) + 1 <= MishapTotal
      BY <2>5 DEF Accounted
    <3>2. MishapTotal \in Nat
      BY MishapTotalNat DEF IInv, TypeOK
    <3> QED
      BY <2>3, <2>4, <3>1, <3>2 DEF OneDropletPerMachine
  <2>6. CASE ~AtRisk
    <3>1. Live \subseteq Lost \union {x}
      BY <2>1, <2>6, Zenon
    <3>2. Cardinality(Live) <= Cardinality(Lost) + 1
      BY <2>2, <3>1, LoseOne, ZenonT(60)
    <3>3. Cardinality(Lost) + 0 <= MishapTotal
      BY <2>6 DEF Accounted
    <3>4. MishapTotal \in Nat
      BY MishapTotalNat DEF IInv, TypeOK
    <3> QED
      BY <2>3, <2>4, <3>2, <3>3, <3>4 DEF OneDropletPerMachine
  <2> QED
    BY <2>5, <2>6
<1> QED
  BY <1>1, AccountInvariance, PTL

-----------------------------------------------------------------------------
(***************************************************************************)
(* What is left when a DOMachine is gone.  Once the finalizer has been     *)
(* persisted, VolumesReclaimed tells.  Before that, and without a mishap,  *)
(* no reconciliation has come to its end: nothing was created yet, or the  *)
(* one that creates it is still running and the object still there.        *)
(***************************************************************************)
Clean ==
  MishapTotal = 0 /\ ~protected =>
    /\ pc = "idle" => NoVolumes
    /\ pc # "idle" => store.phase = "live" /\ pc # "PatchStatus"

\* A step without a mishap, from a state without one, and what it keeps.
LEMMA UnmarredStep ==
  ASSUME IInv, [Next]_vars, MishapTotal' = 0
  PROVE  MishapTotal = 0 /\ NoMishap /\ \A k : ~Mishap(k)
<1>1. MishapTotal \in Nat /\ (NoMishap => Free) /\ \A k : Mishap(k) => Pays
  BY StepPays
<1>2. \A k : ~Mishap(k)
  BY <1>1 DEF Pays
<1>3. NoMishap
  BY <1>2, StepMishaps
<1> QED
  BY <1>1, <1>2, <1>3 DEF Free

\* The calls of a reconciliation leave the API server alone.
LEMMA CallsStay ==
  ASSUME CallSucceeds \/ CallFails \/ ReplyLost
  PROVE  /\ pc \in CloudCalls /\ UNCHANGED api
         /\ pc' \in CloudCalls \union {"PatchSpec"}
<1> USE DEF CloudCalls
<1>1. CASE GetVolume \/ CreateVolume
  BY <1>1 DEF GetVolume, CreateVolume, EnsureDisk
<1>2. CASE GetDroplet \/ CreateDroplet
  BY <1>2, ZenonT(60) DEF GetDroplet, CreateDroplet, Settle, Return
<1>3. ASSUME NEW i, ReleaseDisk(i) PROVE pc' \in {"DeleteGetVolume", "PatchSpec"}
  BY <1>3 DEF ReleaseDisk, Return
<1>4. CASE DeleteGetDroplet \/ DeleteDroplet
  BY <1>3, <1>4 DEF DeleteGetDroplet, DeleteDroplet
<1>5. CASE DeleteGetVolume \/ DeleteVolume
  BY <1>3, <1>5 DEF DeleteGetVolume, DeleteVolume
<1>6. CASE CallFails \/ ReplyLost
  BY <1>6 DEF CallFails, ReplyLost, AfterError, Return
<1> QED
  BY <1>1, <1>2, <1>4, <1>5, <1>6 DEF CallSucceeds

\* The finalizer arrives with the first request of Close.
LEMMA CleanStep == IInv /\ DInv /\ Clean /\ [Next]_vars => Clean'
<1> SUFFICES ASSUME IInv, DInv, Clean, [Next]_vars, MishapTotal' = 0, ~protected'
             PROVE  /\ pc' = "idle" => NoVolumes'
                    /\ pc' # "idle" => store'.phase = "live" /\ pc' # "PatchStatus"
  BY DEF Clean
<1>1. MishapTotal = 0 /\ NoMishap /\ \A k : ~Mishap(k)
  BY UnmarredStep
<1>2. /\ store \in Objects /\ orig \in Objects /\ mem \in Objects /\ cache \in Objects
      /\ CopyOK(store) /\ CopyOK(cache) /\ CopyOK(orig)
  BY DEF IInv, TypeOK, ApiOK, RunOK
<1>3. ASSUME ~protected, UNCHANGED <<pc, volumes>>, store'.phase = store.phase
      PROVE  /\ pc' = "idle" => NoVolumes'
             /\ pc' # "idle" => store'.phase = "live" /\ pc' # "PatchStatus"
  BY <1>1, <1>3 DEF Clean, NoVolumes
<1>4. CASE StartReconcile
  <2>1. /\ UNCHANGED <<store, protected>> /\ watch = <<>>
        /\ cache.phase \in {"live", "deleting"}
        /\ pc' \in {"GetVolume", "GetDroplet", "PatchSpec", "DeleteGetDroplet"}
    BY <1>1, <1>4
    DEF StartReconcile, Reconcile, ReconcileDelete, EnsureDisk, ReadCache, api
  <2>2. store.phase = "live"
    BY <1>2, <2>1 DEF DInv, CacheFollows, CopyOK
  <2> QED
    BY <2>1, <2>2
<1>5. CASE CallSucceeds \/ CallFails \/ ReplyLost
  <2>1. /\ pc \in CloudCalls /\ UNCHANGED <<store, protected>>
        /\ pc' \in CloudCalls \union {"PatchSpec"}
    BY <1>5, CallsStay DEF api
  <2> QED
    BY <1>1, <2>1 DEF Clean, CloudCalls
<1>6. CASE PatchSpec
  <2>1. protected => protected'
    BY <1>1, <1>6, ZenonT(60) DEF PatchSpec, Write, RequestFails, api
  <2>2. store.phase = "live" /\ pc = "PatchSpec"
    BY <1>1, <1>6, <2>1 DEF PatchSpec, Clean
  <2>3. ~orig.finalizer /\ mem.finalizer
    BY <1>2, <2>1, <2>2 DEF CopyOK, IInv, RunOK, PatchCalls
  <2>4. SpecPatch.finalizer
    BY <1>2, <2>2, <2>3, SpecPatchFacts, ZenonT(60) DEF Merged
  <2>5. Write(SpecPatch)
    BY <1>1, <1>6, <2>2 DEF PatchSpec, RequestFails
  <2> QED
    BY <2>4, <2>5, ZenonT(60) DEF Write
<1>7. CASE PatchStatus
  <2>1. protected => protected'
    BY <1>1, <1>7, ZenonT(60) DEF PatchStatus, Write, RequestFails, api
  <2> QED
    BY <1>1, <1>7, <2>1 DEF PatchStatus, Clean
<1>8. CASE UserDelete
  <2>1. UNCHANGED <<pc, volumes>> /\ (protected => protected')
    BY <1>8, ZenonT(60) DEF UserDelete, Delete, Write, cloud, run
  <2>2. pc = "idle"
    BY <1>1, <1>2, <1>8, <2>1 DEF UserDelete, Delete, CopyOK
  <2> QED
    BY <1>1, <2>1, <2>2 DEF Clean, NoVolumes
<1>9. CASE UserUpdate
  <2>1. /\ UNCHANGED <<pc, volumes>> /\ (protected => protected')
        /\ store'.phase = store.phase
    BY <1>2, <1>9, ZenonT(60) DEF UserUpdate, Write, Objects, cloud, run
  <2> QED
    BY <1>3, <2>1
<1>10. CASE Environment /\ ~UserDelete /\ ~UserUpdate
  <2>1. UNCHANGED <<store, protected, pc, volumes>>
    BY <1>1, <1>10
    DEF Environment, DeliverEvent, Deliver, ClusterAppears, PrerequisitesMet,
        DropletProgress, ExternalChange, Crash, Restart, api, cloud, run
  <2> QED
    BY <1>3, <2>1
<1>11. CASE Finished \/ UNCHANGED vars
  <2>1. UNCHANGED <<store, protected, pc, volumes>>
    BY <1>11 DEF Finished, vars
  <2> QED
    BY <1>3, <2>1
<1> QED
  BY <1>4, <1>5, <1>6, <1>7, <1>8, <1>9, <1>10, <1>11 DEF Next, Controller

\* Without a mishap a DOMachine that is gone has left neither a droplet nor a
\* volume, at whatever moment it was deleted: what the comment of
\* MachineFinalizer promises.
THEOREM NothingIsLeft == Spec => []NothingLeftBehind
<1>1. Init => Clean
  BY DEF Init, Clean, NoVolumes
<1>2. Spec => []Clean
  BY <1>1, CleanStep, DropletInvariance, PTL DEF Spec
<1>3. IInv /\ Clean /\ LeaksBoundedByMishaps => NothingLeftBehind
  <2> SUFFICES ASSUME IInv, Clean, LeaksBoundedByMishaps,
                      MishapTotal = 0, store.phase = "gone", pc = "idle"
               PROVE  Live = {} /\ \A v \in VolumeNames : volumes[v] = 0
    BY DEF NothingLeftBehind
  <2>1. Orphans = Live
    BY DEF Orphans
  <2>2. IsFiniteSet(DropletIDs)
    BY MachineAssumption, Finite!FS_Interval, SameCount DEF DropletIDs
  <2>3. IsFiniteSet(Live) /\ Cardinality(Live) \in Nat
    BY <2>2, LoseNone DEF Live
  <2>4. Cardinality(Live) = 0
    BY <2>1, <2>3 DEF LeaksBoundedByMishaps
  <2>5. Live = {}
    BY <2>3, <2>4, Finite!FS_EmptySet, SameCount
  <2>6. NoVolumes
    BY DEF Clean, IInv, ProtectionOK
  <2> QED
    BY <2>5, <2>6 DEF NoVolumes
<1> QED
  BY <1>2, <1>3, Invariance, LeaksAreBounded, PTL
=============================================================================
