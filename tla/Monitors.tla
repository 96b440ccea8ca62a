-------------------------------- MODULE Monitors --------------------------------
(***************************************************************************)
(* The two controllers of internal/controller/observability, which make a  *)
(* ServiceMonitor and a PodMonitor from one Observability object.  Unlike  *)
(* the controllers of Reconciler they                                      *)
(*   - read the monitor from the API server itself, since the manager's    *)
(*     client does not cache unstructured objects, and that read may fail; *)
(*   - do not watch what they make (SetupWithManager has no Owns);         *)
(*   - apply no escape hatches.                                            *)
(* Controllers and monitors are named by the monitor's kind.               *)
(***************************************************************************)
EXTENDS Naturals

CONSTANTS
    None,               \* no object, no owner
    Foreign,            \* a controller owner other than the Observability object
    Specs,              \* the Observability specs users write
    UserMonitorSpecs,   \* the monitor specs users write
    MaxDisturbances     \* how often users, failures and restarts interfere

Kinds == {"ServiceMonitor", "PodMonitor"}

ASSUME MonitorAssumptions ==
    /\ MaxDisturbances \in Nat
    /\ None \notin Specs /\ None \notin UserMonitorSpecs
    /\ {None, Foreign} \cap Nat = {} /\ None # Foreign

VARIABLES
    obs,      \* the Observability object in the API server: a version
    cached,   \* its version in the manager's cache
    pend,     \* its versions the watch has not delivered yet
    monitor,  \* monitor[k]: the monitor of kind k in the API server
    queue,    \* the controllers with the object's key in their work queue
    work,     \* work[k]: what the worker of controller k is doing
    drift,    \* history: the monitors changed by somebody else, or whose
              \* failed read was passed over, since their controller looked
    budget    \* disturbances still to come

vars == <<obs, cached, pend, monitor, queue, work, drift, budget>>

----------------------------------------------------------------------------
(***************************************************************************)
(* What the mutate functions write.                                        *)
(***************************************************************************)
EndpointsField(k) == IF k = "ServiceMonitor" THEN "endpoints" ELSE "podMetricsEndpoints"

OrElse(value, default) == IF value = "" THEN default ELSE value

\* The spec is replaced as a whole.
MonitorSpec(k, s) ==
    [f \in {"selector", EndpointsField(k)} |->
        IF f = "selector" THEN s.target
        ELSE [path |-> OrElse(s[k].path, "/metrics"),
              interval |-> OrElse(s[k].interval, "30s")]]

\* Mutant of Active: the targetRef is not tested.
ActiveAnyTarget(p) == p # None

\* Reconcile goes on: the object is there and its targetRef names a resource.
Active(p) == p # None /\ p.spec.target # ""

Enabled(k, p) == p.spec[k].enabled

----------------------------------------------------------------------------
Idle == [step |-> "idle", parent |-> None, base |-> 0]

Body == [spec : Specs, uid : Nat]

\* Specs a monitor may have: a controller's, a user's.
MonitorSpecs(k) == {MonitorSpec(k, s) : s \in Specs} \cup UserMonitorSpecs

MonitorBody(k) == [spec : MonitorSpecs(k), owner : Nat \cup {None, Foreign}]

\* A worker under way holds an object with a target, and makes what is enabled.
WorkOK(k) ==
    LET w == work[k]
    IN  \/ w = Idle
        \/ /\ w.step # "idle" /\ w.parent # None /\ w.parent.spec.target # ""
           /\ w.step \in {"create", "update"} => w.parent.spec[k].enabled
           /\ w.step = "delete" => ~w.parent.spec[k].enabled

(***************************************************************************)
(* Every variable has its type.                                            *)
(***************************************************************************)
TypeOK ==
    /\ obs \in [rv : Nat, body : Body \cup {None}]
    /\ cached \in [rv : Nat, body : Body \cup {None}]
    /\ \A e \in pend : e \in [rv : Nat, body : Body \cup {None}]
    /\ DOMAIN monitor = Kinds
    /\ \A k \in Kinds : monitor[k] \in [rv : Nat, body : MonitorBody(k) \cup {None}]
    /\ queue \subseteq Kinds
    /\ work \in [Kinds -> [step : {"idle", "get", "create", "update", "delete"},
                           parent : Body \cup {None}, base : Nat]]
    /\ \A k \in Kinds : WorkOK(k)
    /\ drift \subseteq Kinds
    /\ budget \in 0..MaxDisturbances

\* The manager starts in a cluster in which a user has made the object or not,
\* and in which monitors of the derived names may exist.
Init ==
    /\ obs \in {[rv |-> 0, body |-> None]} \cup
               {[rv |-> 1, body |-> [spec |-> s, uid |-> 1]] : s \in Specs}
    /\ monitor \in [Kinds -> {[rv |-> 0, body |-> None]} \cup
                             {[rv |-> 1, body |-> [spec |-> s, owner |-> r]] :
                                 s \in UserMonitorSpecs, r \in {None, Foreign}}]
    /\ cached = obs
    /\ pend = {}
    /\ queue = (IF obs.body = None THEN {} ELSE Kinds)
    /\ work = [k \in Kinds |-> Idle]
    /\ drift = {}
    /\ budget = MaxDisturbances

WriteObs(b) ==
    LET v == [rv |-> obs.rv + 1, body |-> b]
    IN  obs' = v /\ pend' = pend \cup {v}

WriteMonitor(k, b) ==
    monitor' = [monitor EXCEPT ![k] = [rv |-> @.rv + 1, body |-> b]]

Disturb == budget > 0 /\ budget' = budget - 1

----------------------------------------------------------------------------
(***************************************************************************)
(* Reconcile.                                                              *)
(***************************************************************************)
Skipped(k) ==
    /\ work[k] = Idle
    /\ k \in queue
    /\ ~Active(cached.body)
    /\ queue' = queue \ {k}
    /\ UNCHANGED <<obs, cached, pend, monitor, work, drift, budget>>

Begin(k) ==
    /\ work[k] = Idle
    /\ k \in queue
    /\ Active(cached.body)
    /\ queue' = queue \ {k}
    /\ work' = [work EXCEPT ![k] = [step |-> "get", parent |-> cached.body, base |-> 0]]
    /\ UNCHANGED <<obs, cached, pend, monitor, drift, budget>>

Done(k) == work' = [work EXCEPT ![k] = Idle] /\ UNCHANGED queue

\* Mutant of Retry: the error is logged and nil returned.
RetryForgotten(k) == work' = [work EXCEPT ![k] = Idle] /\ UNCHANGED queue

Retry(k) == work' = [work EXCEPT ![k] = Idle] /\ queue' = queue \cup {k}

Send(k, step) ==
    /\ work' = [work EXCEPT ![k].step = step, ![k].base = monitor[k].rv]
    /\ UNCHANGED queue

\* The worker reads the monitor.
Reading(k, enabled) ==
    /\ work[k].step = "get"
    /\ Enabled(k, work[k].parent) = enabled
    /\ drift' = drift \ {k}
    /\ UNCHANGED <<obs, cached, pend, monitor, budget>>

NothingToDelete(k) == Reading(k, FALSE) /\ monitor[k].body = None /\ Done(k)

FoundToDelete(k) == Reading(k, FALSE) /\ monitor[k].body # None /\ Send(k, "delete")

\* The read fails.  A disabled monitor is then taken to be absent; an enabled
\* one makes CreateOrUpdate return the error.
ReadFails(k) ==
    /\ work[k].step = "get"
    /\ Disturb
    /\ IF Enabled(k, work[k].parent)
       THEN Retry(k) /\ UNCHANGED drift
       ELSE Done(k) /\ drift' = drift \cup {k}
    /\ UNCHANGED <<obs, cached, pend, monitor>>

\* SetControllerReference goes by kind and name, so the reference of an earlier
\* Observability object of the same name is replaced.
AlreadyOwned(k) == monitor[k].body # None /\ monitor[k].body.owner = Foreign

Mutated(k) == [spec |-> MonitorSpec(k, work[k].parent.spec), owner |-> work[k].parent.uid]

MutateError(k) == Reading(k, TRUE) /\ AlreadyOwned(k) /\ Retry(k)

FoundAbsent(k) == Reading(k, TRUE) /\ monitor[k].body = None /\ Send(k, "create")

\* Mutant of FoundEqual: the owner reference is not compared.
FoundEqualSpec(k) ==
    /\ Reading(k, TRUE)
    /\ monitor[k].body # None
    /\ monitor[k].body.spec = MonitorSpec(k, work[k].parent.spec)
    /\ Done(k)

FoundEqual(k) ==
    /\ Reading(k, TRUE)
    /\ monitor[k].body # None
    /\ monitor[k].body = Mutated(k)
    /\ Done(k)

FoundDifferent(k) ==
    /\ Reading(k, TRUE)
    /\ monitor[k].body # None
    /\ ~AlreadyOwned(k)
    /\ monitor[k].body # Mutated(k)
    /\ Send(k, "update")

----------------------------------------------------------------------------
\* The API server carries out the request, or refuses it: a create of what
\* exists, an update of what has changed or gone, a delete of what is gone.
Accepted(k) ==
    \/ work[k].step = "create" /\ monitor[k].body = None
    \/ work[k].step = "update" /\ monitor[k].body # None /\ monitor[k].rv = work[k].base
    \/ work[k].step = "delete" /\ monitor[k].body # None

Calling(k) == work[k].step \in {"create", "update", "delete"}

Apply(k) ==
    /\ Accepted(k)
    /\ WriteMonitor(k, IF work[k].step = "delete" THEN None ELSE Mutated(k))

CallSucceeds(k) == Apply(k) /\ Done(k) /\ UNCHANGED <<obs, cached, pend, drift, budget>>

CallRefused(k) ==
    /\ Calling(k)
    /\ ~Accepted(k)
    /\ Retry(k)
    /\ UNCHANGED <<obs, cached, pend, monitor, drift, budget>>

RequestLost(k) ==
    /\ Calling(k)
    /\ Retry(k)
    /\ Disturb
    /\ UNCHANGED <<obs, cached, pend, monitor, drift>>

AnswerLost(k) == Apply(k) /\ Retry(k) /\ Disturb /\ UNCHANGED <<obs, cached, pend, drift>>

----------------------------------------------------------------------------
(***************************************************************************)
(* The rest of the cluster.                                                *)
(***************************************************************************)
Deliver ==
    \E e \in pend :
        /\ \A f \in pend : e.rv <= f.rv
        /\ pend' = pend \ {e}
        /\ cached' = e
        /\ queue' = Kinds
        /\ UNCHANGED <<obs, monitor, work, drift, budget>>

GarbageCollect(k) ==
    /\ monitor[k].body # None
    /\ monitor[k].body.owner \notin {None, Foreign}
    /\ ~(obs.body # None /\ obs.body.uid = monitor[k].body.owner)
    /\ WriteMonitor(k, None)
    /\ UNCHANGED <<obs, cached, pend, queue, work, drift, budget>>

\* A user creates, edits or deletes the Observability object.
UserObs ==
    /\ \E s \in Specs \cup {None} :
          /\ s # (IF obs.body = None THEN None ELSE obs.body.spec)
          /\ WriteObs(IF s = None THEN None
                      ELSE [spec |-> s, uid |-> IF obs.body = None THEN obs.rv + 1
                                                ELSE obs.body.uid])
    /\ Disturb
    /\ UNCHANGED <<cached, monitor, queue, work, drift>>

\* Somebody creates, edits or deletes a monitor.
UserMonitor(k) ==
    /\ \E b \in [spec : UserMonitorSpecs, owner : {None, Foreign}] \cup {None} :
          b # monitor[k].body /\ WriteMonitor(k, b)
    /\ drift' = drift \cup {k}
    /\ Disturb
    /\ UNCHANGED <<obs, cached, pend, queue, work>>

Restart ==
    /\ Disturb
    /\ cached' = obs
    /\ pend' = {}
    /\ queue' = (IF obs.body = None THEN {} ELSE Kinds)
    /\ work' = [k \in Kinds |-> Idle]
    /\ UNCHANGED <<obs, monitor, drift>>

\* The informer's periodic resync.
Resync ==
    /\ Disturb
    /\ cached.body # None
    /\ queue' = Kinds
    /\ UNCHANGED <<obs, cached, pend, monitor, work, drift>>

----------------------------------------------------------------------------
Read(k) ==
    \/ NothingToDelete(k) \/ FoundToDelete(k) \/ MutateError(k)
    \/ FoundAbsent(k) \/ FoundEqual(k) \/ FoundDifferent(k)

Answer(k) == CallSucceeds(k) \/ CallRefused(k)

Next ==
    \/ \E k \in Kinds :
          \/ Skipped(k) \/ Begin(k) \/ Read(k) \/ ReadFails(k)
          \/ Answer(k) \/ RequestLost(k) \/ AnswerLost(k)
          \/ GarbageCollect(k) \/ UserMonitor(k)
    \/ Deliver \/ UserObs \/ Restart \/ Resync

\* As in Reconciler: workers, watch and garbage collector make progress.
Fairness ==
    /\ \A k \in Kinds :
          /\ WF_vars(Skipped(k) \/ Begin(k))
          /\ WF_vars(Read(k) \/ Answer(k))
          /\ WF_vars(GarbageCollect(k))
    /\ WF_vars(Deliver)

Spec == Init /\ [][Next]_vars /\ Fairness

----------------------------------------------------------------------------
(***************************************************************************)
(* Properties.                                                             *)
(***************************************************************************)
Settled(k) ==
    Active(obs.body) =>
        IF Enabled(k, obs.body)
        THEN monitor[k].body = [spec |-> MonitorSpec(k, obs.body.spec), owner |-> obs.body.uid]
        ELSE monitor[k].body = None

Quiescent(k) == k \notin queue /\ work[k] = Idle /\ pend = {}

(***************************************************************************)
(* The watch on the Observability object alone is enough for everything    *)
(* but drift: a controller at rest, whose monitor nobody has changed since *)
(* it looked, has the monitor its object asks for, or none.  This covers   *)
(* an object deleted and made again under the same name while a worker     *)
(* holds the old copy and the garbage collector is after the old monitor.  *)
(***************************************************************************)
NoMonitorForgotten ==
    \A k \in Kinds : Quiescent(k) /\ k \notin drift => Settled(k)

----------------------------------------------------------------------------
(***************************************************************************)
(* The inductive invariant behind NoMonitorForgotten.                      *)
(***************************************************************************)
\* The cached version of the object is an earlier one or the present one, and
\* the watch has still to deliver exactly what lies between.
CacheOK ==
    /\ cached.rv <= obs.rv
    /\ \A e \in pend : cached.rv < e.rv /\ e.rv <= obs.rv
    /\ \A e, f \in pend : e.rv = f.rv => e = f
    /\ pend # {} => obs \in pend
    /\ pend = {} => cached = obs

\* A worker acts on an old copy of the object only if it will run again.
HeldOK(k) == work[k] # Idle /\ pend = {} /\ k \notin queue => work[k].parent = obs.body

MonitorInv ==
    /\ TypeOK
    /\ CacheOK
    /\ \A k \in Kinds : HeldOK(k)
    /\ NoMonitorForgotten

----------------------------------------------------------------------------
(***************************************************************************)
(* Once the disturbances end, every monitor that nobody has changed since  *)
(* its controller looked is right for good, unless another controller owns *)
(* it.                                                                     *)
(***************************************************************************)
MonitorsConverge ==
    <>[](\A k \in Kinds : k \notin drift /\ ~AlreadyOwned(k) => Settled(k))

\* The Observability object has an escape hatch for monitors of kind k, one that
\* changes the monitor's spec.
Hatched(k) == Active(obs.body) /\ Enabled(k, obs.body) /\ k \in obs.body.spec.hatched

(***************************************************************************)
(* Escape hatches are applied to observability resources: a monitor whose  *)
(* object has a hatch for its kind does not come to rest as the controller *)
(* alone would render it.                                                  *)
(***************************************************************************)
HatchesReachMonitors ==
    \A k \in Kinds :
        Quiescent(k) /\ k \notin drift /\ Hatched(k)
            => monitor[k].body.spec # MonitorSpec(k, obs.body.spec)
=============================================================================
