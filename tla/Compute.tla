-------------------------------- MODULE Compute --------------------------------
(***************************************************************************)
(* The Compute capability (api/v1alpha1/compute_types.go) and its HPA      *)
(* controller (internal/controller/compute/hpa_controller.go).             *)
(***************************************************************************)
EXTENDS Resources, PatchEngine, Integers

\* The CRD's minimum on maxReplicas, met by a controller's write: the Go client
\* always sends the field autoscaling, with maxReplicas 0 if it was never set.
\* A user's manifest may leave autoscaling out, and is then read back as 0.
ComputeRefused(s) == s.autoscaling.maxReplicas < 1

HPAReconciler == [for |-> "Compute", owns |-> "HorizontalPodAutoscaler"]

HPAChild(o) == Derived(o, "HorizontalPodAutoscaler", "hpa")

HPAWanted(s) == s.autoscaling.maxReplicas # 0

HPAMetrics(a) ==
    (IF a.targetCPU > 0 THEN <<[resource |-> "cpu", utilization |-> a.targetCPU]>> ELSE <<>>)
    \o
    (IF a.targetMemory > 0 THEN <<[resource |-> "memory", utilization |-> a.targetMemory]>>
                           ELSE <<>>)

HPAFields == {"scaleTargetRef", "maxReplicas", "minReplicas", "metrics"}

\* An unset minReplicas and an empty list of metrics are fields not sent.
HPARender(s, b) ==
    LET a == s.autoscaling
        always == [scaleTargetRef |-> s.targetRef.resource, maxReplicas |-> a.maxReplicas]
        minimum == IF a.minReplicas > 0 THEN [minReplicas |-> a.minReplicas] ELSE <<>>
        metrics == IF HPAMetrics(a) # <<>> THEN [metrics |-> HPAMetrics(a)] ELSE <<>>
    IN  ApplyEscapeHatches(Over(always, minimum @@ metrics @@ Kept(b, HPAFields)),
                           s.escapeHatches, "HorizontalPodAutoscaler")

\* autoscaling/v2 defaulting and validation.
HPAAdmit(s) ==
    Over(s, [minReplicas |-> 1, metrics |-> <<[resource |-> "cpu", utilization |-> 80]>>])

HPARefused(s) == LET h == HPAAdmit(s) IN h.maxReplicas < 1 \/ h.minReplicas > h.maxReplicas
=============================================================================
