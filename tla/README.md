# Verification of the DigitalOcean provider for Cluster API

The provider turns two kinds of Kubernetes objects into DigitalOcean
resources. A `DOCluster` gets a load balancer and, if it asks for one, a DNS
record; a `DOMachine` gets a droplet and one volume for each data disk. The
specifications here model both controllers with everything that can move
between two of their remote calls (users, a cache that lags behind the API
server, DigitalOcean, failed calls, lost answers, restarts of the manager),
the events that wake them, the check for DNS propagation, the two API versions
and their webhooks, the names and tags of cloud resources, and the program
that cleans up the test account.

## The system

| part | source | state | operations |
|---|---|---|---|
| DOMachine controller | `controllers/domachine_controller.go` | the DOMachine, one copy per place | `Reconcile`, `reconcile`, `reconcileVolumes`, `reconcileDelete`, `reconcileDeleteVolumes` |
| compute services | `cloud/services/computes` | droplets, volumes (in DigitalOcean) | get, create, delete; lookups of images and SSH keys |
| machine scope | `cloud/scope/machine.go` | the object as read | setters, `Close` (two patches) |
| DOCluster controller | `controllers/docluster_controller.go` | the DOCluster, one copy per place | `Reconcile`, `reconcile`, `reconcileDelete` |
| networking services | `cloud/services/networking` | load balancers, DNS records | get, create, upsert, delete |
| cluster scope | `cloud/scope/cluster.go` | the object as read | setters, `Close` (two patches) |
| DNS utilities | `util/dns` | none; asks DNS servers and their caches | `CheckDNSPropagated`, authoritative server, resolver |
| API types | `api/v1alpha4` | spec and status | `ApplyDefault`, names, tags |
| webhooks | `api/v1alpha4/*_webhook.go` | none | `ValidateUpdate`, `ValidateCreate` |
| conversion | `api/v1alpha3` | conversion data in an annotation | conversion to and from `v1alpha4` |
| manager | `main.go` | informers, work queues | wiring, leader election, resync |
| janitor | `hack/do-janitor` | the list it works through | lists page by page, deletes old resources of the test account |

How they interact: a controller reads its object from the informer cache,
decides, calls DigitalOcean through a service, collects what it learned in the
object in memory, and writes it back when it returns, through the scope's
`Close`. `Close` is a merge patch against the object *as read*: one request for
metadata and spec, which the webhook sees, and one for the status, which it
does not see. There is no optimistic lock.

What makes this hard: DigitalOcean IDs exist only in memory between a create
call and `Close`; the finalizer exists only in memory during the first
reconciliation; the cache may be older than the last `Close`; the two patches
fail independently; droplets and load balancers are looked up by recorded ID,
volumes and DNS records by name; volumes cannot be deleted while attached.

## Modules

| module | models |
|---|---|
| `ManagedObject` | what both controllers rely on: the object in the API server (`store`), in the cache (`cache`) and on the way there (`watch`), writes, finalizers, merge patches, restarts. External to the repository. |
| `DOMachine` | one DOMachine: its controller, scope, webhook and compute services |
| `DOCluster` | one DOCluster: its controller, scope, webhook, networking services and the answer of the propagation check |
| `InfraContract` | the abstract specification: what an infrastructure object promises to those who only see it in the API server. `DOMachine` and `DOCluster` both implement it. |
| `Wakeups` | both controllers and Cluster API core together: watches, predicates, mapping functions, early returns, order of creation and deletion |
| `DNSPropagation` | `CheckDNSPropagated`, `LookupAuthoritativeServer` and the resolver, with authoritative servers, system resolvers and their negative caches |
| `Conversion` | clients of `v1alpha3` and `v1alpha4` on one object of any of the three kinds: conversion webhook, validating webhooks, objects stored by an older release |
| `Names` | `DOSafeName`, `DataDiskName`, the tags of droplets and the tag a load balancer selects its backends by |
| `Janitor` | `do-janitor` and the tests that use the account at the same time |
| `ManagedObjectProofs`, `DOMachineProofs`, `DOClusterProofs`, `WakeupsProofs`, `DNSPropagationProofs`, `JanitorProofs` | proofs about the module each is named after |
| `DOClusterContract` | more about `DOCluster`: that it implements `InfraContract`, what it may lose, what it leaves behind, whose address it announces |
| `ApiTypesProofs` | proofs about `Conversion` and `Names`, and the checks of `Names` in `MCConversion` |
| `MCDOMachine`, `MCDOCluster`, `MCConversion`, `MCDNSPropagation` | constants for TLC; `MCConversion` also holds the checks of `Names` |

**The controllers, call by call.** In `DOMachine` and `DOCluster` a
reconciliation is cut at every remote call. `pc` names the next call, `orig` is
the object as read, `mem` the object in memory. Each action named after a call
(`GetVolume`, `CreateDroplet`, `UpsertDomainRecord`, ...) makes the call and
runs the code up to the next one. `Return` stands for the deferred `Close`,
whose two requests are `PatchSpec` and `PatchStatus`. `CallFails` lets any call
fail without effect, `ReplyLost` lets it take effect and its answer get lost.
One reconciliation runs at a time: each controller has one worker, and the
manager is deployed as one replica with leader election. Early returns that
change nothing are stuttering steps.

**The controllers, event by event.** `Wakeups` makes the opposite cut: a
reconciliation is one step, and what counts is whether it happens. Every kind of
object has its own informer, so a reconciliation may see four ages of the world
at once. An event reaches a queue through the predicate and the mapping function
of its watch. The resync is left out, since it would hide a lost event for ten
minutes and then repair it. `AtRest` spells out when nothing is left to happen
without a user; `RestIsQuiet` checks that it says exactly that, namely that no
step of the system would change anything.

**The contract.** `InfraContract` knows only phase, named resource, readiness
and failure. An object never names a second resource while the first one runs,
leaves only after its resource, and takes neither readiness nor failure back.
Its one exception, `astray`, is mapped to what really misleads each controller:
stale reads for a DOMachine; stale reads and failed patches for a DOCluster,
which writes its load balancer ID in the second request of `Close`.

**Conversion.** The fields of all three kinds are there, with a small set of
values for strings and numbers. `Nil` and the empty list are different values,
since `DeepEqual` tells them apart. JSON drops empty lists where the field is
`omitempty`.

Operators named in a comment as a mutant are wrong on purpose. No specification
uses them; each is a plausible slip in the code that one of the properties has
to notice.

### Mishaps

A mishap is an event after which a controller may have lost track of a
resource. `Mishaps` is the set of kinds an instance allows and `MaxMishaps`
their number.

| kind | event |
|---|---|
| `crash` | the manager restarts, at any point |
| `lostReply` | a creation succeeds and its answer is lost |
| `patchError` | one of the two requests of `Close` fails |
| `staleRead` | a reconciliation starts while the cache lags |
| `unprotectedDelete` | the object is deleted during a reconciliation and before the finalizer was persisted |
| `external` | somebody changes resources in the DigitalOcean console, or a load balancer fails; not counted, since nothing is lost by it |

Failed calls are not mishaps: they are always allowed and never counted.

## What is checked

Runs that pass:

| run | question | instance |
|---|---|---|
| `machine` | Does a DOMachine keep the contract? Are volumes unique and reclaimed, recorded droplets protected, is nothing destroyed early, does each mishap cost at most one droplet, is there one droplet and is nothing left behind where there was no mishap, is a failed machine frozen? Do machines come up and go away, and which failures keep them from it? | two disks, every kind of mishap, one mishap, two droplets, one edit |
| `cluster` | Does a DOCluster keep the contract? Is the DNS record reclaimed, does each mishap cost at most one load balancer, is there one load balancer and is nothing left behind where there was no mishap, does readiness wait for an endpoint with a host, is the announced port served, does an announced endpoint stay and belong to the load balancer that the object names, is a ready record advertised? Does the record follow the load balancer? Do clusters come up and go away? | two names, two ports, every kind of mishap, one mishap, two load balancers, one edit of name or port |
| `conversion` | Is the last write what both versions read? Does conversion data stay out of the hub? Can a client always write back what it read? Is what is immutable immutable in both versions? Do names and tags keep different owners apart? | two values, three writes, all kinds; names of up to three characters |
| `dns` | Is a positive verdict true? Does the check find out that a record is propagated, whatever is cached? | two authoritative servers, two system resolvers, other lookups, a record that moves once |
| `wakeups` | Is an event ever lost that a controller needed, on the way up or down? Is the system really quiet when it rests? | one machine, any object paused, one pause or restart |
| `janitor` | Has a run that ended deleted what was due? Does everything due go in the end? | two droplets, two volumes, pages of one, one deletion by tests |

Some properties name exceptions. These are limits of the code, not of the
checks:

- `FailureFreezesMachine`: a stale read misses a recorded failure and acts on
  the machine.
- `ReadyHasEndpoint`: a failed first patch with a successful second one leaves a
  DOCluster ready without an endpoint until the next reconciliation
  (`ProvisioningCompletes` says that the endpoint comes). And `reconcile` waits
  only while a load balancer is neither active nor has an address: one that is
  active first is announced with a port and no host, if there is no DNS name,
  and the webhook lets nobody add the host later.
- `RecordsReclaimed` is about the name the object leaves with. The record of an
  earlier name stays, and so does the record when the name changes after the
  deletion began.
- `EndpointIsNamedLB`: a stale read replaces a load balancer that is still
  there; the endpoint stays with the old one. It is about endpoints that are
  addresses; one that is a DNS name is the subject of `RecordFollowsLB`.
- `EndpointPortServed`: a port edited after the load balancer exists is
  announced, if nothing was announced before, and not served.
- `ReadyRecordIsAdvertised`: crashes, stale reads and failed patches lose the
  status that takes readiness back. After a crash between the rewriting of the
  record and `Close`, the flag says that an address is propagated which no
  server advertises yet, although `docluster_types.go:55` says that it "denotes
  that the DNS record is ready and propagated". The status does not
  say which name it speaks of either: a user who changes the name, and changes
  it back before the first record is propagated, finds that record ready. The
  property is therefore stated for at most one change of the name.
- `ProvisioningCompletes`: a load balancer that failed before it had an address
  is waited for, for ever. A droplet that is off fails its machine
  (`failureReason`), and so does one that was looked at before it had a network
  (`FailedBooting`, the subject of `machine_booting`); a stale read may give a
  failed machine another droplet, which it then does not look at. A leaked droplet keeps the volumes of its machine
  attached, and then neither another droplet nor the deletion can proceed.
- `RestsWhenDown`: a DOMachine whose DOCluster was deleted by hand keeps its
  finalizer for ever.
- `PropagationDetected`: a system resolver that does not answer at all ends the
  query although the next one might answer.
- `VolumeNamesApart`: suffixes with `-`, `.` or `/`, and machines whose names
  differ only in these, do collide.
- `BackendTagsApart` is about droplets without additional tags, which are taken
  over as they are and may equal the tag of any load balancer.
- `CompletedMeansClean`: a resource deleted between two pages moves another one
  past the page that would have shown it; the next run finds it.
- `DueIsReclaimed`: creation times of droplets and load balancers that never
  parse end every run before what is behind them, and nothing is said then.

Runs that show a disagreement between the code and what it says of itself:

| run | what happens |
|---|---|
| `machine_early_delete` | the DOMachine is deleted during its first reconciliation; its droplet stays, because the finalizer was only in memory |
| `machine_booting` | a droplet looked at before it has a network fails its machine for ever, and comes up all the same |
| `cluster_endpoint` | without a DNS name, the IP of a load balancer that replaces another, or that was active before it had an IP, is refused by the webhook for ever |
| `dns_cache` | the propagation check asks the system resolvers for the SOA record of the name, so they cache that it does not exist, which the check is there to avoid |
| `wakeups_paused` | an event of its Machine queues and reconciles a DOMachine that is paused |
| `janitor_volumes` | with two pages of volumes the janitor panics on its way to the second, in every run, and no volume is cleaned up |

Two more observations. `Status.Ready` is never taken back, also when the droplet
is off or destroyed, although `domachine_types.go:53` says "Ready is true when
the provider resource is ready."; the contract states what the code does. And in
`Wakeups` nothing depends on
`DOClusterToDOMachines`: without it the system still rests only when it should,
since core reports the readiness of the DOCluster through the Cluster, whose
events reach the DOMachines as well.

### Bounds

- `MaxMishaps`, `MaxDroplets`, `MaxLBs`: there is one resource more than
  mishaps, so that a mishap can cost a resource and the retry still gets one.
  How losses add up over several mishaps is proved, not checked.
- One load balancer in a behaviour is active before it has an address (`bare`).
  Once it has one, whether it is new or active makes no difference to the code,
  so that step is left out; a load balancer fails only while it has none.
- `DataDisks`: two are the least for which the volume loops have a middle.
- `MaxEdits`: one edit can meet every point of a reconciliation.
- `InitialPort` is 0, so that `ApplyDefault` and its patch take part.
- Failed calls and reconciliations are not bounded. The length of `watch` is
  bounded by the number of writes that change the object.
- `MaxWrites` is three: a write, a write in between, and the write of an old
  copy. Reads, and writes of an unchanged copy, are not counted.
- `Wakeups` has one machine; machines do not interact but through the Cluster
  and the DOCluster. `MaxIncidents` is one pause or one restart.
- `MaxAddresses` is two: the record appears and moves once. Failing servers and
  caches are not bounded.
- `PageSize` is one, so that two resources make two pages. Load balancers are
  empty in the instance: their code is that of droplets.
- `wakeups` and `wakeups_paused` do not check for deadlock, since the question
  is in which states the system rests.

### Fairness

`machine` and `cluster` assume weak fairness of `DeliverEvent` (watches
deliver), of the controller without mishaps (the queue retries errors with
back-off, honours `RequeueAfter` and resyncs every object), and of progress in
DigitalOcean and its DNS (droplets boot and go, load balancers get an address,
name servers take over records). Cloud calls may fail any number of times, so each
liveness property has the alternative that they never stop failing (waiting for
DigitalOcean is not a failure).

`dns` assumes that a check that waits or fails is repeated (`RequeueAfter`,
back-off) and that authoritative servers take over records. No cache needs to
expire and no server to recover; the property says which servers must work.

`janitor` assumes that the program is started again and runs to its end. That
DigitalOcean refuses the listing, or the deletion of the resource in question,
for ever, or never stops naming creation times that do not parse, is an
alternative of the properties.

`wakeups` needs no fairness: `RestsWhenUp` and `RestsWhenDown` are invariants
about the states in which nothing is left to happen. They say that the system
does not get stuck, and not that it gets somewhere; that reconciliations which
are woken get somewhere is what `machine` and `cluster` check.

## What is proved

All proofs are checked by TLAPS for every value of the constants that satisfies
the assumptions of the modules (`MachineAssumption`, `ClusterAssumption`,
`MishapAssumption`, `WakeupsAssumption`, `DNSAssumption`,
`ConversionAssumption`, `GarbageAssumption`, `NamesAssumption`,
`JanitorAssumption`): any list of data disks, names and ports, any kinds and
number of mishaps, edits, droplets and load balancers, any set of machines, any
number of pauses, restarts, servers, writes, resources and deletions, any size
of pages, names of any length.

**`ManagedObjectProofs`** has what both controllers share: a write adds a copy to
the watch, a delivery and a restart only move copies, so what every copy
satisfies, the cache and every later reading satisfy too. It also counts mishaps.

**`DOMachineProofs`**: `TypeOK`, `VolumesReclaimed`, `VolumeNamesUnique`,
`RecordedDropletProtected`, `ReadyHasProviderID`, `DestroyOnlyWhenDeleting`.
None is inductive. The invariant `IInv` adds

- `ApiOK`: what any copy of the object, however old, still tells about the one
  in the API server. Its data disks are the same. If it has the finalizer, the
  finalizer was persisted. If it is under deletion, so is the original. If it
  has a provider ID, the original has one. Deletion is never taken back along
  the watch.
- `RunOK`: what holds at each call. The object in memory has the finalizer
  until the last volume is gone, and readiness is news only for an object that
  was read with a provider ID.
- `VolumesOK`: `CreateVolume` finds no volume, `DeleteVolume` finds one, and
  the disks before the current one are clean during deletion.
- `ProtectionOK`: once persisted, the finalizer stays until no volume is left,
  and then no cached copy is alive that could create one again.

Further, `KeepsContract`, the refinement of `InfraContract`, and
`FailureFreezesMachine`. `DInv` adds what concerns droplets: every copy names a
droplet that was created (`AllKnown`); one that is about to be replaced or let
go does not run (`Superseded`); a reconciliation takes back nothing it read
(`Reports`); without a stale read, the copy it works on is the last one
(`CopyFresh`). Each action is then a step of the contract or a stutter.

Next, `LeaksBoundedByMishaps`. The bound itself is not inductive, since most
mishaps happen long before the loss. `Accounted` also books the loss to come:
the number of lost droplets, plus one if the running reconciliation may lose
another (`AtRisk`), is at most the number of mishaps. Two more results follow
from the account:

- `OneDropletPerMachine`. A droplet that is not lost is the one the object in the
  API server names or the one the running reconciliation is about to record.
  Both run only where the account has booked a risk, since a reconciliation
  replaces only a droplet that is gone.
- `NothingLeftBehind`. Once the finalizer is persisted, the volumes are reclaimed.
  Before that, as long as nothing happened, no reconciliation has come to its
  end: there is no volume, or the reconciliation that creates it is running and
  the object is still there (`Clean`). A droplet that is left would be a lost
  one, of which the account allows none.

**`DOClusterProofs`**: `TypeOK`, `RecordsReclaimed`, `ReadyHasEndpoint`,
`EndpointStable`. `IInv` has the same shape: `Copies` (what any copy tells),
`RunOK` (from the deletion of the record on, the record of the name as read is
gone), `SpecArrived` (between the requests of `Close` the first one has done its
work, unless it failed), `ProtectionOK`. `ReadyHasEndpoint` needs from it that
readiness which is new in memory comes with an endpoint, that its host is missing
only where a load balancer was active without an address, and that the webhook
admits the patch of the spec. On top of it:

- `EndpointPortServed`. Unless a user edits it there is one port, the one the
  object was created with or its default; every reconciliation computes it anew
  until it is persisted, and every load balancer and endpoint gets it.
- `ReadyRecordIsAdvertised`. The invariant follows the two names: before the
  renaming only the first has a record, and afterwards the second joins it when
  no reconciliation of the first is left. Without the bound on the changes of
  the name the property does not hold: with two of them TLC finds the
  behaviour described above.

**`DOClusterContract`**, from the same `IInv`:

- `KeepsContract`, along the lines of DOMachine.
- `LeaksBoundedByMishaps`. The account has one more debt, `Unguarded`: the ID of
  the load balancer is written in the second request of `Close` and the
  finalizer in the first, so an object may name a load balancer that nothing
  keeps it from leaving behind.
- `OneLBPerCluster` and `NothingLeftBehind`, from the account as for DOMachine.
- `EndpointIsNamedLB`. The two requests of `Close` fail independently and each
  carries one half of the claim. `EndpointInv` adds to it that an endpoint
  which is new in memory is that of the ID the object was read with
  (`NewHostOK`): the ID was persisted before the endpoint is decided on, and it
  is replaced only when its load balancer is gone (`Superseded`).

**`WakeupsProofs`**: `TypeOK`, `RestsWhenUp`, `RestsWhenDown`. The invariant
`WInv` says that whenever the informers know of work for an object, and of
everything that the work needs, the object is in the queue (`DueIsQueued`). For
that, the informers may be behind the API server and never contradict it
(`Ages`), and an object with a finalizer was reconciled once, so that the
informers have known its Cluster and its DOCluster (`Owners`). At rest the
caches are the store, so what has not come up, or gone, is due and therefore
queued, and what is queued has an effect.

Two results go beyond what the run checks. `RestLasts`: no step of the system
leaves a state in which it is at rest, which is one direction of `RestIsQuiet`.
`TeardownIsComplete`: if nobody deletes the DOCluster by hand, a deleted cluster
of which nothing is paused rests only when its Cluster is gone. `Orderly` says
why the exception of `RestsWhenDown` does not arise: core deletes the DOCluster
only after the last Machine is gone, and a Machine goes after its DOMachine.

**`ApiTypesProofs`**, about `Conversion`: `TypeOK`, `LastWriteIsRead`,
`HubHasNoConversionData`, `ReadThenWriteAccepted`, `TemplateNamesNoDroplet`,
`ImmutableInEveryVersion`. `RoundTrip` says, kind by kind, that the copies of
the fields in the two directions undo each other up to `Typed`, what the
encoding of an object does to its empty lists. `CInv` then says that what is
stored is what was written last up to `Typed`, in whichever version, and that
conversion data in it were written by hand; an update that the webhooks admit
compares hub objects that are both of that form. `GarbageAssumption` says that
an annotation which is not conversion data is not mistaken for it.

**`ApiTypesProofs`**, about `Names`: `DiskNamesApart` and
`BackendsAreControlPlane` for names of every length, from the fact that a string
is cut in one way only at a character that one side does not contain; and that
`DOSafeName` applied twice is `DOSafeName`, which `BuildTags` relies on. `VolumeNamesApart`
and `BackendTagsApart`, which the run checks, are these two statements for short
names, and follow from them.

**`DNSPropagationProofs`**: `TypeOK`, `PropagatedMeansServed`. The invariant adds
that neither a zone nor a check nor a verdict is ahead of the record
(`NobodyAhead`): a record that moves leaves all of them behind, so a verdict on
the present record comes from a server that has it.

**`JanitorProofs`**: `TypeOK`, `CompletedMeansClean`. `JInv` follows each resource
that was due when the run started: it is on a page that was not read yet
(`Ahead`), or listed and not marked as attached (`Listed`), or gone, as all of
an earlier kind are (`Tracked`). A creation pushes it towards later pages, never
towards one that was read; only a deletion pulls it back, which is the excuse.
The listings hold each resource that is there, once (`AccountOK`).

Only proved: the type invariants of `Conversion`, `Wakeups`, `DNSPropagation` and
`Janitor`; and `ReadyHasProviderID`, which the run `machine` sees as a part of
`KeepsContract`.

Only model-checked: liveness (`ProvisioningCompletes`, `DeletionCompletes`,
`RecordFollowsLB`, `PropagationDetected`, `DueIsReclaimed`), since fairness is
out of the prover's reach, and `RestIsQuiet`, which is about `ENABLED`: that a
system which is not at rest has a step to take is checked only. Of the
invariants and action properties that the runs check, every other one is proved.

## What is not modelled

- Image and SSH key lookups and bootstrap data: they only read, and are ways
  for `CreateDroplet` to fail.
- Of a droplet's request everything but its volumes and tags; of a load
  balancer's everything but port and tag.
- Flags, ports, health checks and profiling in `main.go`: wiring without state.
- Conversion of lists, which converts their items, and the registration of
  types; generated deep copies, for which the models copy values.
- `util/dns/resolver/faker.go`, which serves tests, and
  `test/e2e/clean_resources.go`, which nothing calls.
- Two objects that share a DNS name: the last one to reconcile owns the record,
  and the code has no notion of that.
- Two managers at once: leader election is part of the deployment.
