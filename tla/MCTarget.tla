-------------------------------- MODULE MCTarget --------------------------------
(***************************************************************************)
(* Instances of TargetDeployment: a Compute c and a Storage s that target  *)
(* the Deployment app, and c's PodDisruptionBudget.                        *)
(***************************************************************************)
EXTENDS TargetDeployment

C == Object("Compute", "ns1", <<"c">>)

S == Object("Storage", "ns1", <<"s">>)

D == Object("Deployment", "ns1", <<"app">>)

P == BudgetOf(C)

App == KindRef("Deployment", <<"app">>)

MCSchedulingFields == {"nodeSelector/disk", "topologySpreadConstraints"}

OnSSD == "nodeSelector/disk" :> "ssd"

Spread == "topologySpreadConstraints" :> "zone"

ComputeOf(ref, scheduling, pdb, hatches) ==
    [targetRef |-> ref, scheduling |-> scheduling, podDisruptionBudget |-> pdb,
     escapeHatches |-> hatches]

Data == [name |-> <<"data">>, mountPath |-> "/data"]

DataMoved == [Data EXCEPT !.mountPath = "/srv"]

StorageOf(volumes, hatches) ==
    [targetRef |-> App, volumes |-> volumes, escapeHatches |-> hatches]

DeploymentOf(selector, image) ==
    [selector |-> selector, volumes |-> <<>>, containers |-> <<[image |-> image, mounts |-> <<>>]>>]

\* A hatch that fails on a Deployment without the nodeSelector.
NeedsDisk ==
    [kind |-> "Deployment", patchType |-> "JSONPatch",
     patch |-> <<[op |-> "remove", path |-> "nodeSelector/disk"]>>]

MCImmutable(x, b, s) == x.kind = "Deployment" /\ b.selector # s.selector

----------------------------------------------------------------------------
\* The two patchers; users edit the parents and replace the Deployment by one
\* with neither scheduling nor volumes.  A hatch of s may fail on the Deployment
\* unless c has set the nodeSelector.
PatchObjects == {C, S, D}

PatchUserSpecs(x) ==
    CASE x = C -> {ComputeOf(App, OnSSD, <<>>, <<>>), ComputeOf(App, Spread, <<>>, <<>>)}
      [] x = S -> {StorageOf(<<Data>>, <<>>), StorageOf(<<DataMoved>>, <<NeedsDisk>>)}
      [] x = D -> {DeploymentOf(<<"app">>, 1)}

\* Every Deployment the two patchers can make of these.
Volumes == {<<>>, <<"data">> :> [claim |-> ClaimName(S, Data)]}

Mounts == {<<>>} \cup {<<"data">> :> path : path \in {"/data", "/srv"}}

Optional(field, values) == {<<>>} \cup {field :> v : v \in values}

StoredDeployments ==
    {[selector |-> <<"app">>, volumes |-> v, containers |-> <<[image |-> i, mounts |-> m]>>]
        @@ disk @@ spread :
        v \in Volumes, m \in Mounts, i \in 1..2,
        disk \in Optional("nodeSelector/disk", {"ssd"}),
        spread \in Optional("topologySpreadConstraints", {"zone"})}

PatchSpecs(x) == IF x = D THEN StoredDeployments ELSE PatchUserSpecs(x)

----------------------------------------------------------------------------
\* The budget of c, which a user may also write, and a Deployment that is made
\* again with another selector.
BudgetObjects == {C, D, P}

Pods(n) == [int |-> n, str |-> ""]

Half == [int |-> 0, str |-> "50%"]

NeedsMinimum ==
    [kind |-> "PodDisruptionBudget", patchType |-> "JSONPatch",
     patch |-> <<[op |-> "replace", path |-> "minAvailable", value |-> Pods(3)]>>]

BudgetUserSpecs(x) ==
    CASE x = C -> {ComputeOf(App, <<>>, [minAvailable |-> Pods(1), maxUnavailable |-> Half], <<>>),
                   ComputeOf(App, <<>>, [maxUnavailable |-> Half], <<>>),
                   ComputeOf(App, <<>>, [maxUnavailable |-> Half], <<NeedsMinimum>>),
                   ComputeOf(KindRef("StatefulSet", <<"app">>), <<>>, [minAvailable |-> Pods(1)], <<>>),
                   ComputeOf(KindRef("", <<>>), <<>>, [minAvailable |-> Pods(1)], <<>>),
                   ComputeOf(App, <<>>, <<>>, <<>>)}
      [] x = D -> {DeploymentOf(<<"app">>, 1), DeploymentOf(<<"web">>, 1)}
      [] x = P -> {[selector |-> <<"app">>, minAvailable |-> Pods(2)]}

StoredBudgets ==
    {[selector |-> s] @@ b : s \in {<<"app">>, <<"web">>},
        b \in {[minAvailable |-> Pods(n)] : n \in 1..2} \cup {[maxUnavailable |-> Half]}}

BudgetSpecs(x) == IF x = P THEN StoredBudgets ELSE BudgetUserSpecs(x)

----------------------------------------------------------------------------
\* What users write and what may be stored in the runs below, which each hold
\* a document's sentence against the code.
EditObjects == {S, D}

TargetObjects == {C, D}

EditUserSpecs(x) ==
    CASE x = S -> {StorageOf(<<Data>>, <<>>)}
      [] x = D -> {DeploymentOf(<<"app">>, i) : i \in 1..2}

EditSpecs(x) == IF x = D THEN StoredDeployments ELSE EditUserSpecs(x)

(***************************************************************************)
(* The Storage controller patches the target Deployment to mount volumes:  *)
(* the images of its containers are not changed by that patch.             *)
(***************************************************************************)
ImageKept ==
    [][work["storage-deployment"].step = "patch" /\ work' # work /\ live'[D] # live[D]
          => live'[D].body.spec.containers[1].image = live[D].body.spec.containers[1].image]_vars

LateUserSpecs(x) ==
    CASE x = C -> {ComputeOf(App, <<>>, [minAvailable |-> Pods(1)], <<>>)}
      [] x = D -> {DeploymentOf(<<"web">>, 1)}
      [] OTHER -> {}

LateSpecs(x) == IF x = P THEN StoredBudgets ELSE LateUserSpecs(x)

(***************************************************************************)
(* The PodDisruptionBudget is made for the target Deployment: in the end   *)
(* it selects the pods that the Deployment selects.                        *)
(***************************************************************************)
BudgetSelectsTarget ==
    <>[](live[D].body # None /\ OwnedBy(live[P].body, C)
            => live[P].body.spec.selector = live[D].body.spec.selector)

ZeroUserSpecs(x) ==
    CASE x = C -> {ComputeOf(App, <<>>, [maxUnavailable |-> Pods(n)], <<>>) : n \in 0..1}
      [] x = D -> {DeploymentOf(<<"app">>, 1)}
      [] OTHER -> {}

ZeroSpecs(x) ==
    IF x = P THEN {[selector |-> <<"app">>, maxUnavailable |-> Pods(n)] : n \in 0..1}
             ELSE ZeroUserSpecs(x)

(***************************************************************************)
(* maxUnavailable is the maximum number of pods that can be unavailable:   *)
(* in the end a Compute that names one, 0 included, has a budget with it.  *)
(***************************************************************************)
ZeroIsABound ==
    <>[](live[C].body # None =>
            /\ live[P].body # None
            /\ live[P].body.spec.maxUnavailable = live[C].body.spec.podDisruptionBudget.maxUnavailable)

DropUserSpecs(x) ==
    CASE x = C -> {ComputeOf(App, OnSSD, <<>>, <<>>), ComputeOf(App, <<>>, <<>>, <<>>)}
      [] x = D -> {DeploymentOf(<<"app">>, 1)}

DropSpecs(x) == IF x = D THEN StoredDeployments ELSE DropUserSpecs(x)

(***************************************************************************)
(* The Compute's scheduling parameters are those of the target Deployment, *)
(* on which nobody else sets any: at rest the two are the same, also when  *)
(* the Compute has none any more.                                          *)
(***************************************************************************)
SchedulingFollowsSpec ==
    /\ AtRest("compute-deployment", C)
    /\ live[C].body # None /\ live[D].body # None
    => Kept(live[D].body.spec, {"selector", "volumes", "containers"}) = live[C].body.spec.scheduling

Recreate ==
    [kind |-> "Deployment", patchType |-> "JSONMergePatch",
     patch |-> [set |-> [strategy |-> "Recreate"], remove |-> {}]]

HatchUserSpecs(x) ==
    CASE x = C -> {ComputeOf(App, s, <<>>, <<Recreate>>) : s \in {OnSSD, <<>>}}
      [] x = D -> {DeploymentOf(<<"app">>, 1)}

HatchSpecs(x) ==
    IF x = D THEN {d @@ s : d \in StoredDeployments, s \in Optional("strategy", {"Recreate"})}
             ELSE HatchUserSpecs(x)

(***************************************************************************)
(* A Compute's escape hatches are applied to the target resource: at rest  *)
(* the Deployment has the field that a hatch sets.                         *)
(***************************************************************************)
HatchReachesTarget ==
    /\ AtRest("compute-deployment", C)
    /\ live[C].body # None /\ live[D].body # None
    => "strategy" \in DOMAIN live[D].body.spec

TolerateSpot ==
    [kind |-> "Deployment", patchType |-> "JSONPatch",
     patch |-> <<[op |-> "append", path |-> "tolerations", value |-> "spot"]>>]

Tolerating(tolerations) == DeploymentOf(<<"app">>, 1) @@ [tolerations |-> tolerations]

AppendUserSpecs(x) ==
    CASE x = C -> {ComputeOf(App, OnSSD, <<>>, <<TolerateSpot>>)}
      [] x = D -> {Tolerating(<<"gpu">>)}

AppendSpecs(x) ==
    IF x = D THEN {Tolerating(<<"gpu">> \o t) @@ disk :
                      t \in {<<>>, <<"spot">>}, disk \in Optional("nodeSelector/disk", {"ssd"})}
             ELSE AppendUserSpecs(x)

(***************************************************************************)
(* The escape hatch is a list of patches that are applied to the resource: *)
(* one that adds an entry to a list leaves that entry in it once, however  *)
(* often the Deployment's own events wake the controller.                  *)
(***************************************************************************)
HatchAppliedOnce ==
    live[D].body # None =>
        Len(SelectSeq(live[D].body.spec.tolerations, LAMBDA t : t = "spot")) <= 1
=============================================================================
