# Kalypso: a TLA+ model of its controllers

Kalypso is a Kubernetes operator. A cluster-scoped `Workload` names a target
(`spec.targetRef`) and embeds up to five capability specs. Workload controllers
project each of them into a capability object (`Compute`, `Networking`,
`Observability`, `Security`, `Storage`) in the target's namespace; capability
controllers turn those into ordinary Kubernetes objects (HPA, PDB, Service,
Ingress, Role, RoleBinding, PVC, monitors) or patch the target Deployment.
Capabilities may also be written by users directly.

All paths below are relative to the repository's `src/`.

## Inventory

| Part | State | Operations | Correct when |
|---|---|---|---|
| Workload controllers `internal/controller/workload/*` (5) | none of their own; the capability object | get or delete, else CreateOrUpdate | the capability is the projection of the Workload, nothing is left when it goes |
| `compute/hpa` | HPA `<compute>-hpa` | same | the HPA scales the target within the limits |
| `compute/pdb` | PDB `<compute>-pdb`, selector read from the Deployment | same, after reading a third object | the selector is the Deployment's |
| `compute/deployment`, `storage/deployment` | fields of a Deployment they do not own | merge patch, `Watches` with a map function | each keeps its fields, neither loses the other's |
| `storage/pvc` | one PVC for each volume | loop of CreateOrUpdate | every volume has its claim |
| `networking/service`, `networking/ingress` | Service named after the target, Ingress `<networking>-ingress` | get or delete, else CreateOrUpdate | backends of the Ingress are ports of the Service; a Service has one controller |
| `security/role`, `security/rolebinding` | Role, RoleBinding | same | a binding names a Role that exists |
| `observability/servicemonitor`, `podmonitor` | monitors, unstructured | same, without `Owns` | the monitor exists while enabled |
| `pkg/patch` | none | `ApplyEscapeHatches` on a copy of the object, inside the mutate function | every matching patch is applied, in order, or an error is returned |
| `cmd/main.go` | the manager: caches, queues, workers | registration, start, leader election | the controllers recover from a restart |

The controllers never call each other. They interact through the API server:
one controller's write is another's watch event, delivered late and through a
cache. What is hard about them is therefore not in any one `Reconcile`:

* a read comes from a cache, a write goes to the API server, and others write in between;
* parent and child arrive on separate watches, in any relative order;
* a call may be refused, lost, or carried out with its answer lost;
* the manager may stop anywhere and start again from a list of what exists, and
  a request of the old leader may arrive when the new one is at work;
* two controllers patch one Deployment, without saying which version they read,
  and each patch wakes both;
* the garbage collector deletes by owner uid while controllers create from old copies;
* two controllers derive related objects from one parent at different times,
  and two parents may derive the same object.

`PROJECT.json` lists these as hazards, each at the line where it bites.

## Modules

| Module | What it models |
|---|---|
| `Cluster` | what surrounds a controller: the API server's store, watch and informer cache, garbage collector, users. `Reconciler`, `TargetDeployment` and `Claims` extend it |
| `Reconciler` | the reconcile loop all "get or delete, else CreateOrUpdate" controllers run: queues, workers, calls that are refused or lost, restarts. What a controller manages is given by operator constants (`For`, `Owns`, `Skip`, `Wanted`, `Child`, `Render`, ...) |
| `Resources` | names, references, derived objects (`api/v1alpha1/types_shared.go`) |
| `PatchEngine` | `pkg/patch/patch_engine.go` |
| `Workload`, `Compute`, `Networking`, `Security` | the operators of the controllers of those packages: naming, when the child is wanted, what is rendered, what the API server defaults and refuses |
| `Kalypso` | composes them: the manager with the controllers `cmd/main.go` registers, and the properties of controllers that work together |
| `TargetDeployment` | the two Deployment controllers (Compute and Storage), which merge-patch a Deployment they do not own, and the PDB controller, which reads it |
| `TargetInvariant` | assumptions about `TargetDeployment`'s constants and its inductive invariants |
| `Claims` | the PVC controller: a loop over the volumes, one child each, left at the first error |
| `Monitors` | the ServiceMonitor and PodMonitor controllers: they watch only the Observability object, read monitors uncached (a read may fail) and apply no escape hatches |
| `Handover` | extends `Reconciler` by leader election: requests of the former leader outlive it |
| `Promise` | the abstract specification of the loop, as seen from the API server |
| `Implementation` | `Reconciler` with history variables, and the refinement mapping to `Promise` |
| `MCWorkload`, `MCNetworking`, `MCSystem`, `MCSecurity`, `MCMonitors`, `MCTarget`, `MCPatching`, `MCClaims`, `MCHandover`, `MCImplementation` | instances for TLC |
| `ClusterProofs` | lemmas about the store, the watch and the cache, which all other proofs use |
| `ReconcilerProofs`, `ImplementationProofs`, `MonitorsProofs`, `ClaimsProofs`, `TargetProofs` | the theorems about the modules they are named after |
| `ManagerProofs` | the theorems about `Handover`, and those about controllers of `Kalypso` that work together |
| `PatchProofs` | what escape hatches may do to an object |

### From `Reconcile` to actions

`workload/compute_controller.go` is the pattern; the others of this kind differ
only in the operators.

| Code | Action |
|---|---|
| dequeue, `r.Get` of the parent: NotFound, or target missing | `Skipped` |
| dequeue, parent found | `Begin`: the worker keeps the *copy* it read |
| not wanted, `r.Get` of the child fails / succeeds | `NothingToDelete` / `FoundToDelete` |
| mutate function returns an error (`SetControllerReference` or escape hatch), or renames | `MutateError` |
| `CreateOrUpdate`: NotFound / equal / different | `FoundAbsent` / `FoundEqual` / `FoundDifferent` |
| the `Create`, `Update` or `Delete` call | `CallSucceeds`, `CallRefused`, `RequestLost`, `AnswerLost` |
| `return ctrl.Result{}, nil` / `..., err` | `Done` / `Retry`, part of the actions above |

Reading the parent, reading the child and each call are separate steps: a user,
another controller, an event or a restart may come between any two of them.
Mutating and comparing use only the worker's own copies, so they belong to the
step that reads the child. `live` is the API server, `cache` the informer
cache, `pend` the watch events that are under way, `queue` and `work` the work
queues and workers, `budget` the disturbances left.

`Monitors` has the same actions for one Observability object and its two
monitors, with `ReadFails` beside the reads: an enabled monitor's failed read is
retried, a disabled one's is taken for "nothing to delete". A history variable,
`drift`, holds the monitors that somebody else changed, or whose failed read
was passed over, since the controller last looked: the controllers do not
promise anything about those.

`TargetDeployment` reads the Deployment between `Begin` and the rest:

| Code | Action |
|---|---|
| `r.Get` of the Deployment: NotFound, other kind, nothing to set | `NothingToPatch` |
| escape hatch returns an error | `HatchFails` |
| the patch is computed (`client.MergeFrom`: the leaves in which copy and result differ) | `PatchMade` |
| PDB: the Deployment is read for its selector, any error being "not found" | `SelectorRead` |
| PDB: get, delete, CreateOrUpdate | as in `Reconciler` |
| `r.Patch`, `r.Create`, ... | `CallSucceeds`, `CallRefused`, `RequestLost`, `AnswerLost` |
| `findComputesForDeployment`, `findStoragesForDeployment` | `Targets`, used by `Woken` |

A patch carries no resource version, so the API server applies it to whatever
the Deployment has become; it refuses one whose result is invalid (a mount
without its volume). In `Claims` the worker has an `index` into the volumes of
its copy of the Storage: `FoundEqual` and `CallSucceeds` go on to the next
volume, every error ends the loop (`Retry`), and the next reconcile starts from
the first volume with the Storage the cache then shows.

In `Handover`, `Takeover` is a `Restart` after which the requests that workers
were about to send are still on the way (`late`); each of them `Arrives` or
`Vanishes` at any later time, or never. One request for each controller is kept;
a second takeover that leaves another replaces it.

### The abstract specification

`Promise` has the API server's store and no caches, queues or workers. A
controller's write is one atomic step: it takes a version that the parent has
had, not an older one than the step before took for that parent, and turns the
child *as it is in the store* into what that version asks for, or removes it; it
does not write a child with another controller. Users and the garbage collector
may do anything but hand a living object to another controller.
`Implementation` adds to `Reconciler` the history this needs (`past`: the
versions of each object, `from`: the version a worker read, `last`: the version
last written from) and maps `store` to `live`. `KeepsPromise` is `Promise!Spec`.
It rests on the resource version (an update meets the child it was computed
from), on create and delete failing on the wrong side of existence, and on a
cache that does not go back. It does not hold of `Handover`, where a late
request may follow a newer one; that module has its own run.

### Abstractions

* A Deployment is a function from the leaves and lists that a merge patch treats
  as units: `nodeSelector` and `affinity` by path, and `volumes`, `containers`,
  `topologySpreadConstraints` as whole lists. Volumes and mounts are functions
  from their names, since the code finds them by name.
* The sizes of volumes are parsed by a constant operator, `ParseQuantity`; a
  size that cannot be parsed is `None`.

* A specification is the record of fields the controllers and properties tell
  apart. Names are sequences of words, so formatting `"%s-%s"` is `Append`. A
  JSON document is a function from top-level fields; patches set, replace and
  remove such fields and append to lists.
* The resource version is counted for each object, and an object's uid is the
  version that created it.
* Watches deliver in order and lose nothing until a restart, which lists
  afresh. A dropped watch that is re-listed inside a living process, and
  coalesces versions, is not modelled.
* Deletion is background deletion without finalizers (the controllers set none).
* Reads of cached objects do not fail, apart from NotFound.
* Defaulting is modelled where a controller meets it: `service.type` of the CRD
  and of Services, `minReplicas` and `metrics` of HPAs. Defaulted sub-fields of
  ports are left out; the update that changes nothing stored, which they cause
  in a cluster, is in `Update`.
* Escape hatches do not edit owner references.
* Users edit specs and may remove an owner reference; they do not add one.

### Bounds

`MaxDisturbances` bounds user writes, lost calls, restarts, takeovers and
resyncs together (0 to 2, in `monitors` 3). Two suffice for the races that need
two interventions, such as a delete and a re-creation of the parent around one
stale write, or an edit and a takeover around a late request. `MaxVersion` bounds how often the garbage collector and a controller with
a stale parent can undo each other before the parent's event is delivered;
beyond it only the order is restricted, never the outcome. Every run has one or
two parents and every child they derive.

In all runs `CHECK_DEADLOCK FALSE`: with the disturbances spent and every queue
empty, a settled cluster does stop.

### Fairness

A worker that has begun goes on (`WF`): calls return. A queued key is taken
(`SF`): the work queue is first in, first out, with the worker busy in between.
Watches deliver and the garbage collector runs (`WF`). Backoff only delays a
retry. Nothing is assumed of users, failures, restarts, resyncs or late requests;
no property relies on the periodic resync.

## Runs

| Run | Shows |
|---|---|
| `workload_pair` | Compute and Networking from one Workload, with user edits at both ends, lost calls, restarts, a CRD default and a Workload without a namespace: `NoLostWakeup`, `Convergence` |
| `workload_trio` | the other three projections: `NoLostWakeup`, and nothing is left of a deleted Workload (`NothingAbandoned`) |
| `contend` | two Networking objects and a user on one Service, with hatches that set and remove a field: the inductive invariant `IInv`, `ControllerKept`, `Convergence`, and that the loop implements `Promise` (`KeepsPromise`) |
| `system_chain` | Workload, Compute, HPA: `EndToEnd`, its safety half `ChainAtRest`, `NothingAbandoned` over two levels. One Workload has limits that no HPA can have (a minimum above the maximum): `EndToEnd` leaves out what a controller is blocked from, and by `NoLostWakeup` the chain then never rests |
| `security_pair` | Role and RoleBinding with an immutable roleRef, a hatch that fails and a targetRef that is removed: `NoLostWakeup`, `BindingsResolve` while the object is reconciled, and the two at rest are a pair of one incarnation or both gone (`BindingsAtRest`) |
| `monitors` | both monitor controllers with failed reads, foreign and user-made monitors, deletion and re-creation of the Observability object: `NoMonitorForgotten`, `MonitorsConverge` |
| `handover` | Service and Ingress of one Networking object, with takeovers: what a late request does is noticed and put right (`NoLostWakeup`, `Convergence`), and the backends of the Ingress are in the end (`BackendsResolve`), and at rest (`BackendsAtRest`), ports of the Service |
| `patchers` | both Deployment controllers on one Deployment that users edit, delete and make again, one spec with a Storage hatch that fails until the Compute controller has patched: no patch is lost at rest (`NoPatchLost`) or in the end (`PatchesConverge`), at rest scheduling, claims and mount paths are what the parents ask for now (`DeploymentAsAsked`), neither writes the other's leaves from its old copy (`PatchersApart`), and they do not answer each other without end (`NoPatchStorm`: at most three versions for the start and each disturbance) |
| `budget` | the PDB with bounds that change, a user's budget, a Deployment made again with another selector, another kind of target: no Compute rests on a wrong budget (`NoBudgetForgotten`), and it has the right one in the end (`BudgetFollows`) |
| `claims` | two Storages whose claim names meet, a size that cannot be parsed, one that would shrink: `NoClaimForgotten`, `ClaimsProvided` unless the volume or one before it is blocked, `ClaimsKept` |

`NoLostWakeup` is the central property: whenever nothing is queued, running or
under way for a parent, its child is what `Reconcile` would make of it. It is
an invariant, so it does not lean on fairness or on a retry that happens later.
`Convergence` adds that rest is reached, unless the parent is `Blocked`: the
object is another parent's, or the mutate function or the API server refuses
what is asked for.

Two runs are expected to be violated. Each states what the code itself checks
elsewhere, or what a comment says, and TLC shows the code doing otherwise:

| Run | Says | Does |
|---|---|---|
| `foreign_service` | the branch that writes the Service refuses one that another object controls (`ctrl.SetControllerReference`, `service_controller.go:106`) | the branch that deletes it (`:74-91`) does not look: a Networking object without ports deletes the Service another one controls |
| `default_class` | `storageClassName` is `+optional` (`storage_types.go:49-50`) | where the cluster has a default class, the second reconcile sets it to nil, is refused, and never gets to a volume added later |

### Other divergences

The configurations below are kept beside the runs. TLC finds the property of
each of them violated; they document what the code does today and are not part
of the list of runs in `PROJECT.json`. They share their modules with the runs.

| Configuration (module) | Says | Does |
|---|---|---|
| `WorkloadPlain.cfg` (`MCWorkload`) | autoscaling is `+optional` (`compute_types.go:76-77`) | a Workload whose Compute has no autoscaling is refused forever: the Go client sends `maxReplicas: 0`, the CRD wants at least 1 |
| `WorkloadMove.cfg` (`MCWorkload`) | capabilities live in `spec.targetRef.namespace` (`design/v1alpha1/plan.md:15`) | after the namespace is changed the old capability stays |
| `MonitorHatch.cfg` (`MCMonitors`) | "EscapeHatches allows applying raw patches to observability resources." (`observability_types.go`) | the monitor controllers never apply them |
| `HatchRemove.cfg` (`MCNetworking`) | hatches "patch any field" (`design/README.md:41`) | a removed field survives: the JSON is decoded into the object that still has it |
| `TlsOnly.cfg` (`MCNetworking`) | "Ingress configures external access routes." (`networking_types.go:79`) | an Ingress that is asked for by its TLS secret alone routes to port 80, whatever ports the Service has |
| `ImageEdit.cfg` (`MCTarget`) | the Deployment is patched "to mount the volumes" (`design/v1alpha1/plan.md:122`) | the patch carries the whole container list of an old copy and puts back an image a user has changed since |
| `LateDeployment.cfg` (`MCTarget`) | the PDB is made "for the target `Deployment`" (`design/v1alpha1/plan.md:110`) | made before the Deployment, it keeps a selector that selects none of its pods |
| `ZeroBudget.cfg` (`MCTarget`) | `maxUnavailable` is "the maximum number of pods that can be unavailable" (`compute_types.go:65`) | 0 means no budget |
| `SchedulingDrop.cfg` (`MCTarget`) | scheduling is patched "directly on the target `Deployment`" (`design/v1alpha1/plan.md:111`) | what is removed altogether stays there |
| `TargetHatch.cfg` (`MCTarget`) | hatches are applied "to the target resource" (`compute_types.go:88`) | not by a Compute without scheduling |
| `HatchAppend.cfg` (`MCTarget`) | hatches are "a list of patches that will be applied to the resources" (`design/README.md:18`) | one that appends is applied again after each of its own patches |

## Proofs

The theorems hold for any controllers, objects, specifications and bounds that
meet the assumptions named in the last column, which TLC evaluates in every run
of the module. `ClusterAssumptions`: users write what may be stored, and `None`
is no object, specification or body. `Assumptions` (`Reconciler`): a
controller's child is among the objects it watches; what it renders is storable
once defaulted unless it fails or is refused; defaulting leaves stored
specifications alone. `ClaimsAssumptions`: volumes are a list, their claims are
objects, and a claim that passes the mutate function and validation is storable;
all proofs but those about `Monitors` use `ClusterAssumptions` too.
`MonitorAssumptions`: `None` is no specification and, like the foreign owner, no
uid. `TargetAssumptions`: the Deployments and budgets that parents name are objects; a patched Deployment and
a mutated budget are storable if the API server lets them through; hatches are
lists, and so are volumes (`ListsAssumption`); a Deployment has volumes and
containers, and its first container mounts (`DeploymentAssumption`; a field that
Go leaves out is an empty function or sequence here). `ApartAssumptions`: a Compute's scheduling sets
scheduling fields, and hatches for the Deployment give values only to leaves that
their controller assigns; one that writes others is asked to by its author, and
`PatchersApart` says nothing of it. `KalypsoAssumptions`: `Reconciler`'s operators
have the values that `Kalypso` gives them (`Wiring`); hatches, ports, routes and
hostnames are lists; the Compute spec in a Workload has the fields of one; and no
object has a top-level field `error`, the mark of a failed hatch.

| Theorem (module) | States | From |
|---|---|---|
| `Inductive`, `TypeCorrect` (`ReconcilerProofs`) | `Spec => []IInv`, `Spec => []TypeOK` | `Assumptions` |
| `NoWakeupIsLost` (`ReconcilerProofs`) | `Spec => []NoLostWakeup` | `Assumptions` |
| `ControllerIsKept` (`ReconcilerProofs`) | `Spec => ControllerKept` | `Assumptions` |
| `HistoryIsKept` (`ImplementationProofs`) | `RSpec => [](IInv /\ HistoryInv)` | `Assumptions` |
| `PromiseIsKept` (`ImplementationProofs`) | `RSpec => KeepsPromise`: the loop implements `Promise` | `Assumptions` |
| `NoWakeupIsLostInHandover` (`ManagerProofs`) | `HSpec => []NoLostWakeup` | `Assumptions` |
| `ControllerIsKeptInHandover` (`ManagerProofs`) | `HSpec => ControllerKept` | `Assumptions` |
| `BindingsRestInPairs`, `BackendsRestOnPorts`, `ChainRestsAsAsked` (`ManagerProofs`) | `Spec \/ HSpec => []BindingsAtRest`, and the same of `BackendsAtRest` and `ChainAtRest` | `Assumptions`, `KalypsoAssumptions` |
| `HatchesExtend`, `OtherKindsIgnored` (`PatchProofs`) | what `ApplyEscapeHatches` returns has all fields it was given, unchanged but for those that a hatch of the kind gives a value; hatches of other kinds do nothing | hatches are lists (`IsHatches`) |
| `MonitorsTyped`, `MonitorsRemembered` (`MonitorsProofs`) | `Spec => []TypeOK`, `Spec => []NoMonitorForgotten` | `MonitorAssumptions` |
| `ClaimsTyped`, `ClaimsRemembered` (`ClaimsProofs`) | `Spec => []TypeOK`, `Spec => []NoClaimForgotten` | `ClaimsAssumptions` |
| `ClaimsAreKept` (`ClaimsProofs`) | `Spec => ClaimsKept` | `ClaimsAssumptions` |
| `TargetTypes` (`TargetProofs`) | `Spec => []TypeOK` | `TargetAssumptions` |
| `PatchesRemembered` (`TargetProofs`) | `Spec => []NoPatchLost` | `TargetAssumptions` |
| `DeploymentsAreAsAsked` (`TargetProofs`) | `Spec => []DeploymentAsAsked` | `TargetAssumptions` |
| `BudgetsRemembered` (`TargetProofs`) | `Spec => []NoBudgetForgotten` | `TargetAssumptions` |
| `PatchersStayApart` (`TargetProofs`) | `Spec => PatchersApart` | `TargetAssumptions`, `ApartAssumptions` |

Each rests on an inductive invariant, stated beside the module it is about; TLC
finds each of them invariant on the instances of that module's runs. The
properties speak of the API server, but a controller decides from its cache and
from copies, so the invariants are about those. All of them contain `CacheInv`
(`Cluster`): the cached version is an earlier one or the present one, and the
events under way are those in between, ending with the present one. When
nothing is under way, the cache is the API server.

`IInv` (`Reconciler`) adds to it and `TypeOK` two parts. `WakeInv`: if the cached
child disagrees with the cached parent, the key is queued, or the worker holds
that very parent, or an event that will queue the key is under way; at rest this
is `NoLostWakeup`. `CopyInv`: a worker about to update from the version that is
still the present one found that version fit to take over; `ControllerKept`
follows at the only write that sets an owner reference on an existing object.
The delicate case is an update or a create that succeeds: the worker goes idle,
and its own write, which carries the parent's reference, is the event that will
wake it.

`HistoryInv` (`Implementation`): every present, cached or undelivered version of
a parent is in `past`; a worker holds the version `from[c]`; and that version is
not older than `last` and not newer than the cached one. With `CopyInv`, an
update that is accepted was computed from the child as it is in the store, so it
is `Promise`'s atomic step with the version `from[c]`. That the cache does not go
back, not even in a restart, is what keeps `last` from overtaking it.

`HandoverInv` (`Handover`): `IInv`, and the types and `CopyInv` also of the former
leader's requests, which are `Reconciler`'s workers with `late` in place of `work`
(`Former`). A request that arrives is, to the successor, somebody else's write
to the child: its event wakes the owner, and the reference it carries or finds
there is the one that `WakeInv` needs.

`MonitorInv` (`Monitors`): nothing watches the monitors, so a disagreement with
one is never announced; only the Observability object's events queue a key. The
invariant adds `HeldOK` to `NoMonitorForgotten`: a worker that holds an old copy of
the object has its key queued again or an event on its way. So a worker that
ends leaves the monitor right or will run again. The delicate case is the garbage
collector, which may take a monitor between a reconcile and rest: a settled
monitor carries the uid of the living object, and is not taken.

`ClaimsInv` (`Claims`): `Covered(o, i)` for each volume of each cached Storage. Its
claim fits, or the key is queued, or the worker holds this very Storage and has
not passed the volume yet (`Ahead`), or an event of the claim that will wake the
Storage is under way. Leaving the loop at an error queues the key, which covers
all volumes at once; passing a volume needs its own argument for each way of
passing it. `CopyOK` is `CopyInv` for the claim the loop is at.

`TargetInv` (`TargetInvariant`): `Covered(c, o)` for each cached parent whose cached
Deployment there is something to do about. The Deployment is as it should be,
or the key is queued, or an event of the Deployment is under way (its map
function will queue the key), or the worker attends to this very parent: it has
still to read the Deployment, or sends the patch that the cached Deployment
calls for. The last is what a patch without a resource version needs. When it
succeeds, either it changed something, and its own event wakes the controller
again, whatever version it met; or it changed nothing and no event is under
way, so it met the version it was made of, and a patch turns that one into what
was asked for (`MergeYields`). `CopyOK` says that a patch was made of *some* version
the Deployment may have had, which is enough for `PatchersApart`: the leaves in
which the two sides of `MergeFrom` are the same are not in the patch
(`MergeTouches`), so the age of the copy does not matter there. At rest the
Deployment is what `Modified` makes of it (`InvCarries`), and hatches that do not set
it leave what the controller assigns (`CarriedAssigned`, from `HatchesExtend`):
the scheduling field by field, and for every volume its claim and mount path
(`VolumesAsked`). That is `DeploymentAsAsked`.

`BudgetInv` (`TargetInvariant`): `TargetInv`, and `BudgetCovered(o)` for each cached
Compute. Its cached budget is one that a reconcile would leave as it is
(`BudgetFits`), or the key is queued, or the worker holds this very Compute
(`Held`), or an event under way will queue the key, because the old or the new
version of the budget carries the Compute's reference. The delicate step is again
the call that succeeds while its worker goes idle. A create, or an update that
changes something, writes the Compute's reference, so its event is the one to
come. An update that changes nothing makes no event; then the budget has to
fit already, which is `UpdateOK`: as long as the version an update was computed
from is the cached one, that version rendered by the worker's parent is what is
sent. Deployments wake nobody here, and no property of them enters the invariant:
`BudgetFits` leaves open which Deployment the selector was read from (any that
the target may have been, or none), so the code's stale selector
(`LateDeployment.cfg`) is the only thing at rest that may be out of date. A key
that is dropped by a deleted Compute, or by one whose target was removed, needs
no cover: `NoBudgetForgotten` is about Computes that reconcile.

The theorems about controllers that work together start from `NoLostWakeup`: at
rest, a child is what its controller's `Render` would make of it once more, so it
is a fixed point of the mutate function. `RestAgrees` puts that in terms of
`Kalypso`'s operators. A child that is stored has no field `error`, so its hatches
went through, and by `HatchesExtend` the fields that the mutate function sets are
as it set them unless a hatch of the kind sets them too; the defaulting of HPAs
and Services adds fields and changes none. What is left is to compare the two
children: the binding's roleRef with the Role's name (`BindingsAtRest`), the
backends with the Service's ports (`BackendsAtRest`), the HPA with the Workload,
through a Compute whose spec is a projection (`ChainAtRest`). Since `IInv` is part
of `HandoverInv`, the same holds while requests of a former leader arrive.

`ApplyEscapeHatches`, `JSONPatch`, `IngressRules` and `SetAll` (the volumes and
mounts of a Deployment) go through lists. Their
proofs are inductions, which the library states with an operator parameter that
the installed provers cannot instantiate. The proofs use instead that every
nonempty set of natural numbers has a least element (`LeastNat`, from the well-foundedness of `<`):
once to show that the function of the steps exists (`HatchStepsExist`,
`RuleStepsExist`, `SetStepsExist`), so that the recursive definition can be unfolded, and once to
show that no first step breaks what is claimed. For that reason the folds are
written as functions of the number of elements.

Only model-checked:

* the liveness properties (`Convergence`, `NothingAbandoned`, `EndToEnd`,
  `BackendsResolve`, `BindingsResolve`, `MonitorsConverge`, `PatchesConverge`,
  `BudgetFollows`, `ClaimsProvided`), since the proof system does not handle
  fairness;
* `NoPatchStorm`, which counts versions and holds only where the parents do not
  contradict each other and hatches do not append (`HatchAppend.cfg`), so it is
  not a theorem about all constants.

## Not modelled

* Generated deep copies, flags, TLS, metrics and health endpoints, manifests and
  test utilities: no state of the system is decided there.
* The lease itself: `Handover` takes from leader election that one manager works
  at a time, and not more.
* JSON patch operations `move`, `copy` and `test`, and indices into lists other
  than the end: the controllers treat them like those that are modelled.
* Two Storages with a volume of the same name, or two Computes with different
  scheduling, on one Deployment: each puts its own value back whenever the other
  has patched, without end. The instance has no finite state space, and no
  document says which of the two should win.

## Plan

1. Done: `Cluster`, `Reconciler`, the domain modules, `Kalypso`, `Monitors`,
   `TargetDeployment`, `Claims`, `Handover`, `Promise` and `Implementation` with
   the runs above.
2. Done: the proofs about `Reconciler`, `Implementation` (the refinement of
   `Promise`), `Handover`, `Monitors`, `Claims` and `TargetDeployment`.
3. Done: that the PDB controller at rest has the budget its Compute asks for, the
   safety half of `BudgetFollows` (`NoBudgetForgotten`).
4. Done: the escape hatch engine for every list of hatches (`PatchProofs`), and the
   safety halves of `BindingsResolve`, `BackendsResolve` and `EndToEnd`
   (`ManagerProofs`).
5. Done: the volumes and mounts that `Mounted` makes of a Deployment, for every list
   of volumes, and the Deployment at rest (`DeploymentsAreAsAsked`).
