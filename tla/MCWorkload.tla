------------------------------- MODULE MCWorkload -------------------------------
(***************************************************************************)
(* Instances of the Workload controllers: one Workload w that projects     *)
(* capabilities into ns1 (and, in one run, into ns2).                      *)
(***************************************************************************)
EXTENDS Kalypso

W == Object("Workload", "", <<"w">>)

App(ns) == ResourceRef(<<"app">>, ns)

Other == ResourceRef(<<"other">>, "ns1")

\* The capability object of kind r.kind in ns1.
CapabilityIn(r) == Object(r.kind, "ns1", Append(W.name, r.suffix))

ComputeOf(ref, max) ==
    [targetRef |-> ref, escapeHatches |-> <<>>,
     autoscaling |-> [minReplicas |-> 0, maxReplicas |-> max, targetCPU |-> 0, targetMemory |-> 0]]

NetworkingOf(ref, ports, type) ==
    [targetRef |-> ref, escapeHatches |-> <<>>, service |-> [ports |-> ports, type |-> type]]

----------------------------------------------------------------------------
\* Compute and Networking, one of which a user may also write directly.  Among
\* the Workloads are one that leaves service.type to the CRD's default and one
\* that names no namespace, which the controllers ignore.
PairObjects == {W, CapabilityIn(ComputeReconciler), CapabilityIn(NetworkingReconciler)}

PairOf(ns, compute, networking) ==
    [targetRef |-> App(ns), Compute |-> compute, Networking |-> networking]

PairWorkloads ==
    {PairOf("ns1", ComputeOf(Other, 2), NetworkingOf(NoRef, <<>>, "")),
     PairOf("ns1", ComputeOf(NoRef, 0), NetworkingOf(Other, <<80>>, "")),
     PairOf("", ComputeOf(Other, 3), NetworkingOf(Other, <<80>>, ""))}

PairUserSpecs(x) ==
    CASE x = W -> PairWorkloads
      [] x.kind = "Compute" -> {ComputeOf(App("ns1"), 1)}
      [] OTHER -> {}

PairSpecs(x) ==
    CASE x = W -> PairWorkloads
      [] x.kind = "Compute" -> {ComputeOf(App("ns1"), max) : max \in {1, 2}}
      [] x.kind = "Networking" -> {NetworkingOf(App("ns1"), <<80>>, "ClusterIP")}

----------------------------------------------------------------------------
\* The three capabilities left, each by its targetRef alone; users write the
\* Workload only.
TrioReconcilers == {ObservabilityReconciler, SecurityReconciler, StorageReconciler}

TrioObjects == {W} \cup {CapabilityIn(r) : r \in TrioReconcilers}

\* A Workload that asks for every capability or for none.
TrioOf(ref) ==
    [targetRef |-> App("ns1"), Observability |-> [targetRef |-> ref],
     Security |-> [targetRef |-> ref], Storage |-> [targetRef |-> ref]]

TrioUserSpecs(x) == IF x = W THEN {TrioOf(Other), TrioOf(NoRef)} ELSE {}

TrioSpecs(x) == IF x = W THEN TrioUserSpecs(x) ELSE {[targetRef |-> App("ns1")]}

----------------------------------------------------------------------------
\* The target moves from ns1 to ns2.
MoveObjects == {W, Object("Compute", "ns1", <<"w", "compute">>),
                   Object("Compute", "ns2", <<"w", "compute">>)}

MoveUserSpecs(x) ==
    IF x = W THEN {[targetRef |-> App(ns), Compute |-> ComputeOf(Other, 1)] : ns \in {"ns1", "ns2"}}
             ELSE {}

MoveSpecs(x) == IF x = W THEN MoveUserSpecs(x) ELSE {ComputeOf(App(x.ns), 1)}

(***************************************************************************)
(* Capability resources are managed in the namespace that the Workload's   *)
(* targetRef names: once everything is at rest, none that the Workload     *)
(* controls is left in another one.                                        *)
(***************************************************************************)
CapabilitiesFollowTarget ==
    (\A c \in Controllers : \A o \in For(c) : Quiescent(c, o)) =>
        \A x \in Objects :
            OwnedBy(live[x].body, W) /\ live[W].body # None
                => x.ns = live[W].body.spec.targetRef.namespace

----------------------------------------------------------------------------
\* A Workload with a Compute capability whose manifest has no autoscaling.
PlainObjects == {W, CapabilityIn(ComputeReconciler)}

PlainUserSpecs(x) ==
    IF x = W THEN {[targetRef |-> App("ns1"), Compute |-> ComputeOf(App("ns1"), max)] : max \in {0, 1}}
             ELSE {}

PlainSpecs(x) == IF x = W THEN PlainUserSpecs(x) ELSE {ComputeOf(App("ns1"), 1)}

(***************************************************************************)
(* Autoscaling is optional: a Workload that asks for Compute gets it, with *)
(* or without autoscaling.                                                 *)
(***************************************************************************)
AutoscalingOptional ==
    <>[](live[W].body # None => live[CapabilityIn(ComputeReconciler)].body # None)
=============================================================================
