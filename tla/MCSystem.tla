-------------------------------- MODULE MCSystem --------------------------------
(***************************************************************************)
(* The chain Workload, Compute, HPA: users write the Workload only.  The   *)
(* Compute spec embedded in the Workload names another target than the     *)
(* Workload does; one has limits that no HPA can have.                     *)
(***************************************************************************)
EXTENDS Kalypso

W == Object("Workload", "", <<"w">>)

C == Object("Compute", "ns1", <<"w", "compute">>)

H == Object("HorizontalPodAutoscaler", "ns1", <<"w", "compute", "hpa">>)

MCObjects == {W, C, H}

ComputeOf(resource, min, max) ==
    [targetRef |-> ResourceRef(resource, "ns1"), escapeHatches |-> <<>>,
     autoscaling |-> [minReplicas |-> min, maxReplicas |-> max,
                      targetCPU |-> 0, targetMemory |-> 50]]

WorkloadOf(compute) == [targetRef |-> ResourceRef(<<"app">>, "ns1"), Compute |-> compute]

MCWorkloadSpecs ==
    {WorkloadOf(ComputeOf(<<"other">>, 0, 2)),
     WorkloadOf(ComputeOf(<<"other">>, 2, 3)),
     WorkloadOf(ComputeOf(<<"other">>, 3, 2))}

MCUserSpecs(x) == IF x = W THEN MCWorkloadSpecs ELSE {}

MCSpecs(x) ==
    CASE x = W -> MCWorkloadSpecs
      [] x = C -> {ComputeOf(r, m[1], m[2]) :
                      r \in {<<"app">>, <<"other">>}, m \in {<<0, 2>>, <<2, 3>>, <<3, 2>>}}
      [] x = H -> {[scaleTargetRef |-> r, minReplicas |-> m[1], maxReplicas |-> m[2],
                    metrics |-> <<[resource |-> "memory", utilization |-> 50]>>] :
                      r \in {<<"app">>, <<"other">>}, m \in {<<1, 2>>, <<2, 3>>}}
=============================================================================
