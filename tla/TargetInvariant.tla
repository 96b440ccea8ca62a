---------------------------- MODULE TargetInvariant ----------------------------
(***************************************************************************)
(* What the constants of TargetDeployment have to meet, and the inductive  *)
(* invariants behind NoPatchLost and PatchersApart and NoBudgetForgotten.  *)
(***************************************************************************)
EXTENDS TargetDeployment

\* A parent that names a Deployment, of which x is the one.
Aims(o, s, x) ==
    ~TargetMissing(s) /\ s.targetRef.kind = "Deployment" /\ x = Deployment(o, s)

\* Objects has the Deployments and budgets that are named.
TargetsAssumption ==
    \A c \in Controllers : \A o \in For(c) : \A s \in Specs(o) : ~TargetMissing(s) =>
        /\ s.targetRef.kind = "Deployment" => Deployment(o, s) \in Objects
        /\ c = "compute-pdb" => BudgetOf(o) \in Objects

\* Escape hatches and volumes are lists.
ListsAssumption ==
    \A c \in Controllers : \A o \in For(c) : \A s \in Specs(o) :
        /\ IsHatches(s.escapeHatches)
        /\ c = "storage-deployment" => Len(s.volumes) \in Nat

\* A Deployment has volumes and containers, each of them mounts.
DeploymentAssumption ==
    \A x \in Objects : x.kind = "Deployment" => \A d \in Specs(x) :
        /\ {"volumes", "containers"} \subseteq DOMAIN d
        /\ d.containers # <<>> =>
              1 \in DOMAIN d.containers /\ "mounts" \in DOMAIN d.containers[1]

\* What a patch makes of any version of a Deployment is stored, if the API
\* server lets it.
PatchAssumption ==
    \A c \in Patchers : \A o \in For(c) : \A s \in Specs(o) : \A x \in Objects : Aims(o, s, x) =>
        \A d \in Specs(x) :
            LET m == Modified(c, o, s, d)
            IN  Patches(c, s, d) /\ m # Failed =>
                  \A e \in Specs(x) :
                      LET n == JSONMergePatch(e, MergeFrom(d, m))
                      IN  Invalid(x, n) \/ Immutable(x, e, n) \/ n \in Specs(x)

\* A budget that passes the mutate function and the API server is stored.
BudgetAssumption ==
    "compute-pdb" \in Controllers =>
        \A o \in For("compute-pdb") : \A s \in Specs(o) : ~TargetMissing(s) /\ HasPDB(s) =>
            \A d \in Readable(o, s) : \A b \in Specs(BudgetOf(o)) \cup {None} :
                LET m == PDBRender(s, d, b)
                IN  MutationRefused(m) \/ Invalid(BudgetOf(o), m) \/ m \in Specs(BudgetOf(o))

\* scheduling has scheduling fields.
SchedulingAssumption ==
    "compute-deployment" \in Controllers =>
        \A o \in For("compute-deployment") : \A s \in Specs(o) :
            DOMAIN s.scheduling \subseteq SchedulingFields

\* A parent's escape hatches for the Deployment set only leaves that its
\* controller assigns.
HatchesAssumption ==
    \A c \in Patchers : \A o \in For(c) : \A s \in Specs(o) :
        Hatched(s.escapeHatches, "Deployment") \subseteq Assigns(c)

ASSUME TargetAssumptions ==
    /\ TargetsAssumption /\ ListsAssumption /\ DeploymentAssumption
    /\ PatchAssumption /\ BudgetAssumption

\* PatchersApart needs these two as well.
ASSUME ApartAssumptions == SchedulingAssumption /\ HatchesAssumption

----------------------------------------------------------------------------
\* A request carries what was made of a version its target has had.
CopyOK(c) ==
    LET w == work[c]
        s == w.parent.spec
        x == Addressed(c)
    IN  /\ w.step = "patch" =>
              /\ Aims(w.key, s, x)
              /\ \E d \in Specs(x) :
                    /\ Patches(c, s, d)
                    /\ Modified(c, w.key, s, d) # Failed
                    /\ w.arg = MergeFrom(d, Modified(c, w.key, s, d))
        /\ w.step = "get" /\ HasPDB(s) => w.arg \in Readable(w.key, s)
        /\ w.step \in {"create", "update"} => Invalid(x, w.arg) \/ w.arg \in Specs(x)

\* The worker holds the cached copy of o and has still to read the Deployment,
\* or sends the patch that the cached Deployment calls for.
Attended(c, o) ==
    LET w == work[c]
        d == TargetIn(cache, o, cache[o].body.spec)
        m == Modified(c, o, cache[o].body.spec, d)
    IN  /\ w.key = o /\ w.parent = cache[o].body
        /\ w.step = "target" \/ (w.step = "patch" /\ m # Failed /\ w.arg = MergeFrom(d, m))

\* A Deployment to patch has somebody awake for it, or is as it should be.
Covered(c, o) ==
    LET s == cache[o].body.spec
        d == TargetIn(cache, o, s)
    IN  \/ Modified(c, o, s, d) = d
        \/ o \in queue[c]
        \/ Attended(c, o)
        \/ pend[Deployment(o, s)] # {}

ToPatch(c, o) ==
    /\ Active(cache[o].body)
    /\ Patches(c, cache[o].body.spec, TargetIn(cache, o, cache[o].body.spec))

WakeInv == \A c \in Patchers : \A o \in For(c) : ToPatch(c, o) => Covered(c, o)

TargetInv == TypeOK /\ CacheInv /\ (\A c \in Controllers : CopyOK(c)) /\ WakeInv

----------------------------------------------------------------------------
\* An update of a budget that is still the cached one was made from that one.
UpdateOK ==
    LET w == work["compute-pdb"]
        v == cache[BudgetOf(w.key)]
    IN  w.step = "update" =>
          /\ w.base <= v.rv
          /\ w.base = v.rv =>
                /\ v.body # None
                /\ \E d \in Readable(w.key, w.parent.spec) :
                      w.arg = PDBRender(w.parent.spec, d, v.body.spec)

\* compute-pdb's worker is on o with the cached copy of it.
Held(o) == work["compute-pdb"].key = o /\ work["compute-pdb"].parent = cache[o].body

\* A budget that does not fit has somebody awake for its Compute.
BudgetCovered(o) ==
    LET p == cache[o].body
        x == BudgetOf(o)
        b == cache[x].body
    IN  \/ BudgetFits(o, p, b)
        \/ o \in queue["compute-pdb"]
        \/ Held(o)
        \/ OwnedBy(b, o) /\ pend[x] # {}
        \/ \E e \in pend[x] : OwnedBy(e.body, o)

BudgetWake ==
    \A o \in For("compute-pdb") : Active(cache[o].body) => BudgetCovered(o)

BudgetInv == TargetInv /\ ("compute-pdb" \in Controllers => UpdateOK /\ BudgetWake)
=============================================================================
