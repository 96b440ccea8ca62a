-------------------------------- MODULE Workload --------------------------------
(***************************************************************************)
(* The five controllers of internal/controller/workload.  They are one     *)
(* algorithm over five capabilities: each projects one field of the        *)
(* cluster-scoped Workload into a capability object "<workload>-<suffix>"  *)
(* in the target's namespace.                                              *)
(***************************************************************************)
EXTENDS Resources

ComputeReconciler == [kind |-> "Compute", suffix |-> "compute"]

NetworkingReconciler == [kind |-> "Networking", suffix |-> "networking"]

ObservabilityReconciler == [kind |-> "Observability", suffix |-> "observability"]

SecurityReconciler == [kind |-> "Security", suffix |-> "security"]

StorageReconciler == [kind |-> "Storage", suffix |-> "storage"]

\* The reconcilers under the names SetupWithManager gives them.
WorkloadReconcilers ==
    [c \in {"workload-compute", "workload-storage", "workload-networking",
            "workload-observability", "workload-security"} |->
        CASE c = "workload-compute" -> ComputeReconciler
          [] c = "workload-storage" -> StorageReconciler
          [] c = "workload-networking" -> NetworkingReconciler
          [] c = "workload-observability" -> ObservabilityReconciler
          [] c = "workload-security" -> SecurityReconciler]

WorkloadSkip(s) == s.targetRef.namespace = ""

WorkloadWanted(r, s) == s[r.kind].targetRef.resource # <<>>

CapabilityObject(r, o, s) ==
    Object(r.kind, s.targetRef.namespace, Append(o.name, r.suffix))

\* Mutant of Projection: the embedded spec keeps its own targetRef.
ProjectionAsIs(r, s) == s[r.kind]

\* The capability's spec is replaced as a whole, its targetRef by the workload's.
Projection(r, s) == [s[r.kind] EXCEPT !.targetRef = s.targetRef]
=============================================================================
