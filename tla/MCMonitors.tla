------------------------------- MODULE MCMonitors -------------------------------
(***************************************************************************)
(* An Observability object that enables one monitor, the other, or both    *)
(* with another path, or that names no target; monitors that somebody else *)
(* made.                                                                   *)
(***************************************************************************)
EXTENDS Monitors

MonitorOf(enabled, path) == [enabled |-> enabled, path |-> path, interval |-> ""]

ObservabilityOf(target, sm, pm, hatched) ==
    [target |-> target, ServiceMonitor |-> sm, PodMonitor |-> pm, hatched |-> hatched]

MCSpecs ==
    {ObservabilityOf("app", MonitorOf(TRUE, ""), MonitorOf(FALSE, ""), {}),
     ObservabilityOf("app", MonitorOf(TRUE, "/m"), MonitorOf(TRUE, "/m"), {}),
     ObservabilityOf("", MonitorOf(TRUE, ""), MonitorOf(TRUE, ""), {})}

HatchedSpecs ==
    {ObservabilityOf("app", MonitorOf(TRUE, ""), MonitorOf(FALSE, ""), {"ServiceMonitor"})}

MCUserMonitorSpecs == {[selector |-> "app"]}
=============================================================================
