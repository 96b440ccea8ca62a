----------------------------- MODULE TargetDeployment -----------------------------
(***************************************************************************)
(* The three controllers around a Deployment that none of them owns:       *)
(*   compute-deployment  patches the scheduling of its pods;               *)
(*   storage-deployment  patches their volumes and mounts;                 *)
(*   compute-pdb         reads its selector for the PodDisruptionBudget.   *)
(* The patchers send merge patches without a resource version, computed    *)
(* from a cached copy, and are woken by Deployments through a map function *)
(* over the cached parents.  The third is not woken by Deployments at all. *)
(*                                                                         *)
(* A Deployment's spec is a function from the paths of its JSON leaves to  *)
(* their values.  A list is one leaf, which a merge patch replaces as a    *)
(* whole: "volumes" maps the names of volumes to their sources,            *)
(* "containers" is a sequence of [image, mounts].                          *)
(***************************************************************************)
EXTENDS Cluster, Resources, PatchEngine

CONSTANTS
    Controllers,          \* those of the three that are registered
    SchedulingFields      \* the paths below nodeSelector and affinity, and
                          \* topologySpreadConstraints

ASSUME ControllersAssumption ==
    Controllers \subseteq {"compute-deployment", "storage-deployment", "compute-pdb"}

VARIABLES
    queue,   \* queue[c]: the keys in c's work queue
    work     \* work[c]: what c's worker is doing

vars == <<live, cache, pend, budget, queue, work>>

Patchers == Controllers \ {"compute-pdb"}

For(c) == {o \in Objects : o.kind = IF c = "storage-deployment" THEN "Storage" ELSE "Compute"}

----------------------------------------------------------------------------
(***************************************************************************)
(* What the controllers write.                                             *)
(***************************************************************************)
Deployment(o, s) == Object("Deployment", o.ns, s.targetRef.resource)

\* The target among the versions vs: any other kind, like NotFound, is None.
TargetIn(vs, o, s) ==
    IF s.targetRef.kind = "Deployment" THEN SpecOf(vs[Deployment(o, s)].body) ELSE None

\* spec.scheduling holds the leaves that are set: a nodeSelector that is not
\* empty, a part of affinity that is not nil, or constraints.
HasScheduling(s) == DOMAIN s.scheduling # {}

\* Mutant of Scheduled: the pod spec is assigned as a whole.
ScheduledAlone(s, d) == s.scheduling @@ [d EXCEPT !.volumes = <<>>, !.containers[1].mounts = <<>>]

\* What it has set replaces all that the Deployment has of it.
Scheduled(s, d) ==
    [f \in DOMAIN s.scheduling \cup (DOMAIN d \ SchedulingFields) |->
        IF f \in DOMAIN s.scheduling THEN s.scheduling[f] ELSE d[f]]

\* An entry is a [name, value], set in f or added to it; of entries, one after the
\* other.
SetOne(f, entry) == Over([name \in {entry.name} |-> entry.value], f)

SetAll(f, entries) ==
    LET after[i \in 0..Len(entries)] ==
            IF i = 0 THEN f ELSE SetOne(after[i - 1], entries[i])
    IN  after[Len(entries)]

VolumeSources(o, s) ==
    [i \in 1..Len(s.volumes) |->
        [name |-> s.volumes[i].name, value |-> [claim |-> ClaimName(o, s.volumes[i])]]]

VolumeMounts(s) ==
    [i \in 1..Len(s.volumes) |-> [name |-> s.volumes[i].name, value |-> s.volumes[i].mountPath]]

\* Mutant of Mounted: a mount that is there keeps its path.
MountedOnce(o, s, d) ==
    LET first == [d.containers[1] EXCEPT !.mounts = Over(@, SetAll(@, VolumeMounts(s)))]
    IN  [d EXCEPT !.volumes = SetAll(d.volumes, VolumeSources(o, s)),
                  !.containers = IF d.containers = <<>> THEN <<>>
                                 ELSE [d.containers EXCEPT ![1] = first]]

\* Every volume and its mount in the first container, by name: set or added.
Mounted(o, s, d) ==
    LET first == [d.containers[1] EXCEPT !.mounts = SetAll(@, VolumeMounts(s))]
    IN  [d EXCEPT !.volumes = SetAll(d.volumes, VolumeSources(o, s)),
                  !.containers = IF d.containers = <<>> THEN <<>>
                                 ELSE [d.containers EXCEPT ![1] = first]]

Assigned(c, o, s, d) == IF c = "compute-deployment" THEN Scheduled(s, d) ELSE Mounted(o, s, d)

Modified(c, o, s, d) == ApplyEscapeHatches(Assigned(c, o, s, d), s.escapeHatches, "Deployment")

\* There is a Deployment d to patch and something to patch it with.
Patches(c, s, d) == d # None /\ (c = "compute-deployment" => HasScheduling(s))

\* Mutant of MergeFrom: the whole object is sent.
MergeEverything(original, modified) ==
    [set |-> modified, remove |-> DOMAIN original \ DOMAIN modified]

\* client.MergeFrom: the leaves in which the two differ.
MergeFrom(original, modified) ==
    LET same == {f \in DOMAIN modified \cap DOMAIN original : modified[f] = original[f]}
    IN  [set |-> Kept(modified, same), remove |-> DOMAIN original \ DOMAIN modified]

BudgetOf(o) == Derived(o, "PodDisruptionBudget", "pdb")

\* A bound of spec.podDisruptionBudget as the client decodes it: the manifest's
\* 0 and a bound it does not have are the same value.
Bound(s, f) ==
    IF f \in DOMAIN s.podDisruptionBudget THEN s.podDisruptionBudget[f] ELSE [int |-> 0, str |-> ""]

IsSet(bound) == bound.int > 0 \/ bound.str # ""

HasPDB(s) == IsSet(Bound(s, "minAvailable")) \/ IsSet(Bound(s, "maxUnavailable"))

\* Without a Deployment, or a selector in it, the target's name is the label.
PDBSelector(s, d) ==
    IF d # None /\ "selector" \in DOMAIN d THEN d.selector ELSE s.targetRef.resource

BudgetFields == {"selector", "minAvailable", "maxUnavailable"}

\* Mutant of PDBBounds: the bound that is not used is not set to nil.
PDBBoundsKept(s, b) ==
    IF IsSet(Bound(s, "minAvailable"))
    THEN [minAvailable |-> Bound(s, "minAvailable")] @@ Kept(b, {"selector"})
    ELSE [maxUnavailable |-> Bound(s, "maxUnavailable")] @@ Kept(b, {"selector"})

\* minAvailable wins over maxUnavailable, and the other one becomes nil.
PDBBounds(s, b) ==
    IF IsSet(Bound(s, "minAvailable")) THEN [minAvailable |-> Bound(s, "minAvailable")]
                                       ELSE [maxUnavailable |-> Bound(s, "maxUnavailable")]

\* The mutate function on a budget with spec b (None: a new one).
PDBRender(s, d, b) ==
    LET old == IF b = None THEN <<>> ELSE b
    IN  ApplyEscapeHatches(
            [selector |-> PDBSelector(s, d)] @@ PDBBounds(s, old) @@ Kept(old, BudgetFields),
            s.escapeHatches, "PodDisruptionBudget")

\* The API server's validation: a mount has a volume, a budget one bound.
Invalid(x, s) ==
    IF x.kind = "Deployment"
    THEN \E i \in DOMAIN s.containers : ~(DOMAIN s.containers[i].mounts \subseteq DOMAIN s.volumes)
    ELSE {"minAvailable", "maxUnavailable"} \subseteq DOMAIN s

----------------------------------------------------------------------------
(***************************************************************************)
(* A worker.  "target": the parent has been read, the Deployment not yet;  *)
(* "get": the budget is next, arg is the Deployment's spec as read; the    *)
(* other steps are requests about to be sent, arg the patch or the spec    *)
(* they carry and base the resource version of an update.                  *)
(***************************************************************************)
Idle == [step |-> "idle", key |-> None, parent |-> None, arg |-> None, base |-> 0]

Calls == {"patch", "create", "update", "delete"}

Addressed(c) ==
    IF c = "compute-pdb" THEN BudgetOf(work[c].key) ELSE Deployment(work[c].key, work[c].parent.spec)

ParentRef(c) == Ref(work[c].key, work[c].parent.uid)

AlreadyOwned(c, b) == b # None /\ b.owner # None /\ b.owner.obj # work[c].key

\* The spec of budget b as the mutate function leaves it, before it is sent.
Mutated(c, b) == PDBRender(work[c].parent.spec, work[c].arg, SpecOf(b))

\* A worker that patches has something to patch with, one that makes or removes
\* a budget was asked to.
WorkOK(c) ==
    LET w == work[c]
    IN  \/ w = Idle
        \/ /\ w.key \in For(c) /\ w.parent \in Body(w.key) /\ w.base \in Nat
           /\ ~TargetMissing(w.parent.spec)
           /\ w.step \in IF c \in Patchers THEN {"target", "patch"}
                         ELSE {"target", "get", "create", "update", "delete"}
           /\ c = "compute-deployment" /\ w.step = "patch" => HasScheduling(w.parent.spec)
           /\ w.step \in {"create", "update"} => HasPDB(w.parent.spec)
           /\ w.step = "delete" => ~HasPDB(w.parent.spec)
           /\ w = [step |-> w.step, key |-> w.key, parent |-> w.parent,
                   arg |-> w.arg, base |-> w.base]

(***************************************************************************)
(* Every variable has its type.                                            *)
(***************************************************************************)
TypeOK ==
    /\ ClusterTypeOK
    /\ DOMAIN queue = Controllers
    /\ \A c \in Controllers : queue[c] \subseteq For(c)
    /\ DOMAIN work = Controllers
    /\ \A c \in Controllers : WorkOK(c)

----------------------------------------------------------------------------
(***************************************************************************)
(* Watches.                                                                *)
(***************************************************************************)
\* findComputesForDeployment, findStoragesForDeployment: o is a parent of x.
Targets(o, x) ==
    LET p == cache[o].body
    IN  /\ p # None
        /\ ~TargetMissing(p.spec)
        /\ p.spec.targetRef.kind = "Deployment"
        /\ Deployment(o, p.spec) = x

\* Mutant of Woken: SetupWithManager has no Watches.
WokenByParents(c, x, old, new) ==
    {o \in For(c) : o = x \/ (x.kind = "PodDisruptionBudget" /\ (OwnedBy(old, o) \/ OwnedBy(new, o)))}

\* Mutant of Woken: an event's own object is queued whatever its kind.
WokenAnyKind(c, x, old, new) == {x} \cup WokenByParents(c, x, old, new)

Woken(c, x, old, new) ==
    {o \in For(c) :
        \/ o = x
        \/ /\ c = "compute-pdb" /\ x.kind = "PodDisruptionBudget"
           /\ OwnedBy(old, o) \/ OwnedBy(new, o)
        \/ c \in Patchers /\ x.kind = "Deployment" /\ Targets(o, x)}

\* After a list every parent is queued, and every owner of a budget.
Listed(c, versions) ==
    {o \in For(c) :
        \/ versions[o].body # None
        \/ c = "compute-pdb" /\ \E x \in Objects : OwnedBy(versions[x].body, o)}

Init ==
    /\ ClusterInit
    /\ queue = [c \in Controllers |-> Listed(c, live)]
    /\ work = [c \in Controllers |-> Idle]

----------------------------------------------------------------------------
(***************************************************************************)
(* Reconcile.                                                              *)
(***************************************************************************)
Active(p) == p # None /\ ~TargetMissing(p.spec)

Skipped(c, o) ==
    /\ work[c] = Idle
    /\ o \in queue[c]
    /\ ~Active(cache[o].body)
    /\ queue' = [queue EXCEPT ![c] = @ \ {o}]
    /\ UNCHANGED <<live, cache, pend, budget, work>>

\* A budget that is to be removed needs no Deployment.
Begin(c, o) ==
    LET p == cache[o].body
    IN  /\ work[c] = Idle
        /\ o \in queue[c]
        /\ Active(p)
        /\ queue' = [queue EXCEPT ![c] = @ \ {o}]
        /\ work' = [work EXCEPT ![c] =
                       [step |-> IF c \in Patchers \/ HasPDB(p.spec) THEN "target" ELSE "get",
                        key |-> o, parent |-> p, arg |-> None, base |-> 0]]
        /\ UNCHANGED <<live, cache, pend, budget>>

Done(c) == work' = [work EXCEPT ![c] = Idle] /\ UNCHANGED queue

\* Mutant of Retry: the error is logged and nil returned.
RetryForgotten(c) == work' = [work EXCEPT ![c] = Idle] /\ UNCHANGED queue

Retry(c) ==
    /\ work' = [work EXCEPT ![c] = Idle]
    /\ queue' = [queue EXCEPT ![c] = @ \cup {work[c].key}]

\* The worker reads the Deployment.
ReadingTarget(c) == work[c].step = "target" /\ UNCHANGED <<live, cache, pend, budget>>

CachedTarget(c) == TargetIn(cache, work[c].key, work[c].parent.spec)

NothingToPatch(c) ==
    /\ c \in Patchers
    /\ ReadingTarget(c)
    /\ ~Patches(c, work[c].parent.spec, CachedTarget(c))
    /\ Done(c)

HatchFails(c) ==
    /\ c \in Patchers
    /\ ReadingTarget(c)
    /\ LET d == CachedTarget(c)
       IN  /\ Patches(c, work[c].parent.spec, d)
           /\ Modified(c, work[c].key, work[c].parent.spec, d) = Failed
    /\ Retry(c)

\* A bound m is computed once, a defined one wherever TLC meets it.
PatchMade(c) ==
    /\ c \in Patchers
    /\ ReadingTarget(c)
    /\ LET d == CachedTarget(c)
       IN  /\ Patches(c, work[c].parent.spec, d)
           /\ \E m \in {Modified(c, work[c].key, work[c].parent.spec, d)} :
                 /\ m # Failed
                 /\ work' = [work EXCEPT ![c].step = "patch", ![c].arg = MergeFrom(d, m)]
    /\ UNCHANGED queue

\* compute-pdb keeps what it found, whatever the reason it found nothing.
SelectorRead(c) ==
    /\ c = "compute-pdb"
    /\ ReadingTarget(c)
    /\ work' = [work EXCEPT ![c].step = "get", ![c].arg = CachedTarget(c)]
    /\ UNCHANGED queue

\* compute-pdb reads the budget, b.
ReadingBudget(c, wanted) ==
    /\ work[c].step = "get"
    /\ HasPDB(work[c].parent.spec) = wanted
    /\ UNCHANGED <<live, cache, pend, budget>>

CachedBudget(c) == cache[BudgetOf(work[c].key)]

Send(c, step, arg) ==
    /\ work' = [work EXCEPT ![c].step = step, ![c].arg = arg, ![c].base = CachedBudget(c).rv]
    /\ UNCHANGED queue

NothingToDelete(c) == ReadingBudget(c, FALSE) /\ CachedBudget(c).body = None /\ Done(c)

FoundToDelete(c) == ReadingBudget(c, FALSE) /\ CachedBudget(c).body # None /\ Send(c, "delete", None)

MutateFails(c, b) == AlreadyOwned(c, b) \/ MutationRefused(Mutated(c, b))

MutateError(c) == ReadingBudget(c, TRUE) /\ MutateFails(c, CachedBudget(c).body) /\ Retry(c)

FoundAbsent(c) ==
    /\ ReadingBudget(c, TRUE)
    /\ CachedBudget(c).body = None
    /\ ~MutateFails(c, None)
    /\ Send(c, "create", Mutated(c, None))

Found(c, equal) ==
    /\ ReadingBudget(c, TRUE)
    /\ LET b == CachedBudget(c).body
       IN  /\ b # None
           /\ ~MutateFails(c, b)
           /\ equal = (b.spec = Mutated(c, b) /\ b.owner = ParentRef(c))

FoundEqual(c) == Found(c, TRUE) /\ Done(c)

FoundDifferent(c) == Found(c, FALSE) /\ Send(c, "update", Mutated(c, CachedBudget(c).body))

----------------------------------------------------------------------------
(***************************************************************************)
(* The API server's side of a request.  A patch needs the Deployment to be *)
(* there and the result to be valid; it does not ask which version it was  *)
(* computed from.                                                          *)
(***************************************************************************)
Requested(c) ==
    LET w == work[c]
        v == live[Addressed(c)]
    IN  CASE w.step = "create" -> [spec |-> w.arg, owner |-> ParentRef(c), uid |-> v.rv + 1]
          [] w.step = "update" -> [spec |-> w.arg, owner |-> ParentRef(c), uid |-> v.body.uid]
          [] w.step = "patch" -> [v.body EXCEPT !.spec = JSONMergePatch(@, w.arg)]
          [] w.step = "delete" -> None

Accepted(c) ==
    LET x == Addressed(c)
        v == live[x]
    IN  /\ work[c].step \in Calls
        /\ (work[c].step = "create") = (v.body = None)
        /\ work[c].step = "update" => v.rv = work[c].base
        /\ work[c].step # "delete" => ~Invalid(x, Requested(c).spec)
        /\ work[c].step \in {"update", "patch"} => ~Immutable(x, v.body.spec, Requested(c).spec)

\* A request that leaves the stored object as it is makes no new version.
Apply(c) ==
    /\ Accepted(c)
    /\ IF Requested(c) = live[Addressed(c)].body THEN UNCHANGED <<live, pend>>
                                                 ELSE Write(Addressed(c), Requested(c))

CallSucceeds(c) == Apply(c) /\ Done(c) /\ UNCHANGED <<cache, budget>>

CallRefused(c) ==
    /\ work[c].step \in Calls
    /\ ~Accepted(c)
    /\ Retry(c)
    /\ UNCHANGED <<live, cache, pend, budget>>

RequestLost(c) ==
    /\ work[c].step \in Calls
    /\ Retry(c)
    /\ Disturb
    /\ UNCHANGED <<live, cache, pend>>

AnswerLost(c) == Apply(c) /\ Retry(c) /\ Disturb /\ UNCHANGED cache

----------------------------------------------------------------------------
Deliver(x) ==
    \E e \in pend[x] :
        /\ Receive(x, e)
        /\ queue' = [c \in Controllers |-> queue[c] \cup Woken(c, x, cache[x].body, e.body)]
        /\ UNCHANGED work

GarbageCollect(x) == Collect(x) /\ UNCHANGED <<queue, work>>

User(x) == UserWrite(x) /\ UNCHANGED <<queue, work>>

Restart ==
    /\ Relist
    /\ queue' = [c \in Controllers |-> Listed(c, live)]
    /\ work' = [c \in Controllers |-> Idle]

----------------------------------------------------------------------------
Read(c) ==
    \/ NothingToPatch(c) \/ HatchFails(c) \/ PatchMade(c) \/ SelectorRead(c)
    \/ NothingToDelete(c) \/ FoundToDelete(c) \/ MutateError(c)
    \/ FoundAbsent(c) \/ FoundEqual(c) \/ FoundDifferent(c)

Answer(c) == CallSucceeds(c) \/ CallRefused(c)

Next ==
    \/ \E c \in Controllers :
          \/ \E o \in For(c) : Skipped(c, o) \/ Begin(c, o)
          \/ Read(c) \/ Answer(c) \/ RequestLost(c) \/ AnswerLost(c)
    \/ \E x \in Objects : Deliver(x) \/ GarbageCollect(x) \/ User(x)
    \/ Restart

\* As in Reconciler: queues, workers, watches and garbage collector progress.
Fairness ==
    /\ \A c \in Controllers : WF_vars(Read(c) \/ Answer(c))
    /\ \A c \in Controllers : \A o \in For(c) : SF_vars(Skipped(c, o) \/ Begin(c, o))
    /\ \A x \in Objects : WF_vars(Deliver(x))
    /\ WF_vars(\E x \in Objects : GarbageCollect(x))

Spec == Init /\ [][Next]_vars /\ Fairness

----------------------------------------------------------------------------
(***************************************************************************)
(* Properties.                                                             *)
(***************************************************************************)
AtRest(c, o) ==
    LET p == live[o].body
    IN  /\ o \notin queue[c] /\ work[c].key # o /\ pend[o] = {}
        /\ Active(p) /\ p.spec.targetRef.kind = "Deployment"
              => pend[Deployment(o, p.spec)] = {}

\* Reconcile would leave the Deployment as it is.
Carried(c, o) ==
    LET p == live[o].body
        d == TargetIn(live, o, p.spec)
    IN  Active(p) /\ Patches(c, p.spec, d) => Modified(c, o, p.spec, d) = d

(***************************************************************************)
(* The patchers share a Deployment with each other and with its users, and *)
(* patch it from copies that may be old and without saying how old.  No    *)
(* patch is lost for good: whenever nothing is queued, running or under    *)
(* way for a parent, its Deployment carries all that the parent asks for.  *)
(***************************************************************************)
NoPatchLost ==
    \A c \in Patchers : \A o \in For(c) : AtRest(c, o) => Carried(c, o)

\* d has the claim that storage-pvc makes for vol, and mounts it if it can.
VolumeAsAsked(o, vol, d) ==
    /\ vol.name \in DOMAIN d.volumes
    /\ d.volumes[vol.name] = [claim |-> ClaimName(o, vol)]
    /\ d.containers # <<>> =>
          /\ vol.name \in DOMAIN d.containers[1].mounts
          /\ d.containers[1].mounts[vol.name] = vol.mountPath

\* d has what c's parent asks of it.  Of two volumes with one name, the later one
\* counts.
AsAsked(c, o, s, d) ==
    IF c = "compute-deployment"
    THEN \A f \in DOMAIN s.scheduling : f \in DOMAIN d /\ d[f] = s.scheduling[f]
    ELSE \A i \in 1..Len(s.volumes) :
            (\A j \in i + 1..Len(s.volumes) : s.volumes[j].name # s.volumes[i].name) =>
                VolumeAsAsked(o, s.volumes[i], d)

(***************************************************************************)
(* What NoPatchLost comes to, unless a hatch sets the Deployment too: each *)
(* field of the scheduling is the Compute's, each volume is the claim that *)
(* storage-pvc makes for it and is mounted where the Storage says now.     *)
(***************************************************************************)
DeploymentAsAsked ==
    \A c \in Patchers : \A o \in For(c) :
        LET p == live[o].body
            d == TargetIn(live, o, p.spec)
        IN  /\ AtRest(c, o) /\ Active(p) /\ Patches(c, p.spec, d)
            /\ Hatched(p.spec.escapeHatches, "Deployment") = {}
            => AsAsked(c, o, p.spec, d)

\* Reconcile cannot go on: an escape hatch fails on the Deployment.
HatchFailing(c, o) ==
    LET p == live[o].body
    IN  Modified(c, o, p.spec, TargetIn(live, o, p.spec)) = Failed

(***************************************************************************)
(* Once the disturbances end, every Deployment gets and keeps what its     *)
(* parents ask for, unless an escape hatch fails: a patch that the API     *)
(* server refuses, because it was computed from an old copy, is made again *)
(* from a newer one.                                                       *)
(***************************************************************************)
PatchesConverge ==
    <>[](\A c \in Patchers : \A o \in For(c) : Carried(c, o) \/ HatchFailing(c, o))

(***************************************************************************)
(* Every patch is an event that wakes both patchers, and every patch may   *)
(* be computed from a copy that is older than the other's last one.  They  *)
(* do not answer each other's patches without end: a Deployment has at     *)
(* most three versions for the start and for each disturbance since, the   *)
(* user's own and one by each patcher.                                     *)
(***************************************************************************)
NoPatchStorm ==
    \A x \in Objects : x.kind = "Deployment"
        => live[x].rv <= 3 * (1 + MaxDisturbances - budget)

\* The leaves that c assigns.
Assigns(c) ==
    IF c = "compute-deployment" THEN SchedulingFields ELSE {"volumes", "containers"}

(***************************************************************************)
(* A patcher's old copy of the Deployment does not leak into leaves that   *)
(* are not its own: whatever was written there since it read the copy (the *)
(* other patcher's fields, a user's) stays.                                *)
(***************************************************************************)
PatchersApart ==
    [][\A c \in Patchers :
          LET x == Addressed(c)
              old == live[x].body.spec
              new == live'[x].body.spec
          IN  work[c].step = "patch" /\ work'[c] # work[c] /\ live'[x] # live[x] =>
                Kept(new, Assigns(c)) = Kept(old, Assigns(c))]_vars

\* The Deployments that compute-pdb may have read.
Readable(o, s) ==
    {None} \cup (IF s.targetRef.kind = "Deployment" THEN Specs(Deployment(o, s)) ELSE {})

\* Reconcile with parent p would leave the budget b as it is, had it found one
\* of these Deployments.
BudgetFits(o, p, b) ==
    IF HasPDB(p.spec)
    THEN /\ b # None
         /\ b.owner = Ref(o, p.uid)
         /\ \E d \in Readable(o, p.spec) : b.spec = PDBRender(p.spec, d, b.spec)
    ELSE ~OwnedBy(b, o)

(***************************************************************************)
(* compute-pdb is not woken by Deployments, and what its own writes meet   *)
(* is not what it has read; still no Compute is left with a wrong budget:  *)
(* whenever nothing is queued, running or under way for it, its budget is  *)
(* the one that a reconcile makes, with the present Compute's reference    *)
(* and bound; of an old Deployment it has at most the selector.            *)
(***************************************************************************)
NoBudgetForgotten ==
    "compute-pdb" \in Controllers =>
        \A o \in For("compute-pdb") :
            /\ Active(live[o].body)
            /\ o \notin queue["compute-pdb"] /\ work["compute-pdb"].key # o
            /\ pend[o] = {} /\ pend[BudgetOf(o)] = {}
            => BudgetFits(o, live[o].body, live[BudgetOf(o)].body)

\* compute-pdb cannot succeed: the budget is another's, or the hatch fails.
BudgetBlocked(o) ==
    LET p == live[o].body
        b == live[BudgetOf(o)].body
    IN  \/ b # None /\ b.owner # None /\ b.owner.obj # o
        \/ MutationRefused(PDBRender(p.spec, TargetIn(live, o, p.spec), SpecOf(b)))

(***************************************************************************)
(* Once the disturbances end, a Compute that bounds disruption has for     *)
(* good a budget of its own with exactly one bound, minAvailable if that   *)
(* is set, whatever bounds and owner the budget had before; one that does  *)
(* not has none.                                                           *)
(***************************************************************************)
BudgetFollows ==
    <>[](\A o \in For("compute-pdb") :
            LET p == live[o].body
                b == live[BudgetOf(o)].body
            IN  Active(p) =>
                  IF HasPDB(p.spec)
                  THEN \/ BudgetBlocked(o)
                       \/ /\ b # None
                          /\ b.owner = Ref(o, p.uid)
                          /\ Kept(b.spec, {"selector"}) = PDBBounds(p.spec, <<>>)
                  ELSE ~OwnedBy(b, o))
=============================================================================
