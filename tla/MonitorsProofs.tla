----------------------------- MODULE MonitorsProofs -----------------------------
(***************************************************************************)
(* Proofs about the observability controllers, for every set of specs and  *)
(* every number of disturbances.                                           *)
(***************************************************************************)
EXTENDS Monitors, TLAPS

ObsVersion == [rv : Nat, body : Body \cup {None}]

WorkRecord == [step : {"idle", "get", "create", "update", "delete"},
               parent : Body \cup {None}, base : Nat]

LEMMA BudgetTyped ==
    ASSUME budget \in 0..MaxDisturbances, Disturb
    PROVE  budget' \in 0..MaxDisturbances
BY MonitorAssumptions DEF Disturb

\* The parts of TypeOK an action may disturb, by variable.
ObsTyped == obs \in ObsVersion /\ cached \in ObsVersion /\ \A e \in pend : e \in ObsVersion

MonitorTyped ==
    /\ DOMAIN monitor = Kinds
    /\ \A k \in Kinds : monitor[k] \in [rv : Nat, body : MonitorBody(k) \cup {None}]

WorkTyped == work \in [Kinds -> WorkRecord] /\ \A k \in Kinds : WorkOK(k)

RestTyped == queue \subseteq Kinds /\ drift \subseteq Kinds /\ budget \in 0..MaxDisturbances

LEMMA TypeParts == TypeOK <=> ObsTyped /\ MonitorTyped /\ WorkTyped /\ RestTyped
BY DEF TypeOK, ObsTyped, MonitorTyped, WorkTyped, RestTyped, ObsVersion, WorkRecord

----------------------------------------------------------------------------
\* A worker under way has a parent, and its mutate function makes a monitor.
LEMMA HeldParent ==
    ASSUME WorkTyped, NEW k \in Kinds, work[k].step # "idle"
    PROVE  /\ work[k] # Idle /\ work[k] \in WorkRecord
           /\ work[k].parent \in Body /\ work[k].parent.spec.target # ""
           /\ work[k].step \in {"create", "update"} => Enabled(k, work[k].parent)
           /\ work[k].step = "delete" => ~Enabled(k, work[k].parent)
           /\ Mutated(k) \in MonitorBody(k)
<1>1. work[k] # Idle /\ work[k] \in WorkRecord /\ WorkOK(k)
    BY DEF WorkTyped, Idle
<1>2. /\ work[k].parent \in Body /\ work[k].parent.spec.target # ""
      /\ work[k].step \in {"create", "update"} => work[k].parent.spec[k].enabled
      /\ work[k].step = "delete" => ~work[k].parent.spec[k].enabled
    BY <1>1 DEF WorkOK, WorkRecord
<1>3. MonitorSpec(k, work[k].parent.spec) \in MonitorSpecs(k) /\ work[k].parent.uid \in Nat
    BY <1>2 DEF MonitorSpecs, Body
<1> QED BY <1>1, <1>2, <1>3 DEF Mutated, MonitorBody, Enabled

\* What happens to the worker of one controller when the other's moves.
LEMMA WorkMoves ==
    ASSUME WorkTyped, NEW k \in Kinds, work' \in [Kinds -> WorkRecord],
           \A j \in Kinds : j # k => work'[j] = work[j], WorkOK(k)'
    PROVE  WorkTyped'
<1>1. ASSUME NEW j \in Kinds, j # k PROVE WorkOK(j)'
    <2>1. WorkOK(j) /\ work'[j] = work[j]
        BY <1>1 DEF WorkTyped
    <2> QED BY <2>1 DEF WorkOK
<1> QED BY <1>1 DEF WorkTyped

LEMMA IdleMoves ==
    ASSUME WorkTyped, NEW k \in Kinds, work' = [work EXCEPT ![k] = Idle]
    PROVE  WorkTyped' /\ work'[k] = Idle /\ \A j \in Kinds : j # k => work'[j] = work[j]
<1>1. Idle \in WorkRecord
    BY DEF Idle, WorkRecord
<1>2. /\ work'[k] = Idle /\ work' \in [Kinds -> WorkRecord]
      /\ \A j \in Kinds : j # k => work'[j] = work[j]
    BY <1>1 DEF WorkTyped
<1>3. WorkOK(k)'
    BY <1>2 DEF WorkOK
<1> QED BY <1>2, <1>3, WorkMoves

\* A request is made for the parent that is held.
LEMMA SendMoves ==
    ASSUME WorkTyped, MonitorTyped, NEW k \in Kinds, work[k].step = "get",
           NEW step \in {"create", "update", "delete"}, Send(k, step),
           step # "delete" => Enabled(k, work[k].parent),
           step = "delete" => ~Enabled(k, work[k].parent)
    PROVE  /\ WorkTyped'
           /\ work'[k] # Idle /\ work'[k].parent = work[k].parent
           /\ \A j \in Kinds : j # k => work'[j] = work[j]
<1> DEFINE w == [step |-> step, parent |-> work[k].parent, base |-> monitor[k].rv]
<1>1. work[k].parent \in Body /\ work[k].parent.spec.target # "" /\ work[k].parent # None
    BY HeldParent DEF WorkTyped, WorkOK, Idle
<1>2. w \in WorkRecord
    BY <1>1 DEF MonitorTyped, WorkRecord
<1>3. /\ work'[k] = [work[k] EXCEPT !.step = step, !.base = monitor[k].rv]
      /\ DOMAIN work' = Kinds /\ work' = [j \in Kinds |-> work'[j]]
      /\ \A j \in Kinds : j # k => work'[j] = work[j]
    BY DEF Send, WorkTyped
<1>4. work'[k] = w
    BY <1>3 DEF WorkTyped, WorkRecord
<1>5. \A j \in Kinds : work'[j] \in WorkRecord
    BY <1>2, <1>3, <1>4 DEF WorkTyped
<1>6. work' \in [Kinds -> WorkRecord]
    BY <1>3, <1>5
<1>7. /\ step # "delete" => work[k].parent.spec[k].enabled
      /\ step = "delete" => ~work[k].parent.spec[k].enabled
    BY DEF Enabled
<1>8. /\ work'[k].step = step /\ work'[k].parent = work[k].parent
    BY <1>4
<1>9. WorkOK(k)'
    BY <1>1, <1>7, <1>8 DEF WorkOK
<1>10. work'[k] # Idle
    BY <1>8 DEF Idle
<1> QED BY <1>3, <1>6, <1>8, <1>9, <1>10, WorkMoves

LEMMA MonitorWritten ==
    ASSUME MonitorTyped, NEW k \in Kinds, NEW b \in MonitorBody(k) \cup {None}, WriteMonitor(k, b)
    PROVE  /\ MonitorTyped' /\ monitor'[k].body = b
           /\ \A j \in Kinds : j # k => monitor'[j] = monitor[j]
<1> DEFINE v == [rv |-> monitor[k].rv + 1, body |-> b]
<1>1. v \in [rv : Nat, body : MonitorBody(k) \cup {None}]
    BY DEF MonitorTyped
<1>2. monitor' = [monitor EXCEPT ![k] = v]
    BY DEF WriteMonitor
<1> QED BY <1>1, <1>2 DEF MonitorTyped

----------------------------------------------------------------------------
\* What HeldOK and NoMonitorForgotten say of one controller.
Attended(k) == HeldOK(k) /\ (Quiescent(k) /\ k \notin drift => Settled(k))

LEMMA InvParts ==
    MonitorInv <=> TypeOK /\ CacheOK /\ \A k \in Kinds : Attended(k)
BY DEF MonitorInv, Attended, NoMonitorForgotten

\* A step that leaves a controller alone leaves it attended.
LEMMA Elsewhere ==
    ASSUME NEW k \in Kinds, Attended(k), obs' = obs, pend' = pend, work'[k] = work[k],
           monitor'[k] = monitor[k], k \in queue => k \in queue', k \in drift => k \in drift',
           k \notin drift => k \notin drift'
    PROVE  Attended(k)'
BY DEF Attended, HeldOK, Quiescent, Settled, Active, Enabled

\* A controller that will run again is attended.
LEMMA Queued ==
    ASSUME NEW k \in Kinds, k \in queue'
    PROVE  Attended(k)'
BY DEF Attended, HeldOK, Quiescent

\* A worker that has just settled its monitor for the copy it holds.
LEMMA SettledForCopy ==
    ASSUME TypeOK, NEW k \in Kinds, HeldOK(k), work[k].step # "idle",
           obs' = obs, pend' = pend, queue' = queue, work'[k] = Idle,
           Enabled(k, work[k].parent) => monitor'[k].body = Mutated(k),
           ~Enabled(k, work[k].parent) => monitor'[k].body = None
    PROVE  Attended(k)'
<1>1. HeldOK(k)'
    BY DEF HeldOK
<1>2. CASE pend = {} /\ k \notin queue
    <2>1. work[k].parent = obs.body
        BY <1>2 DEF HeldOK, Idle
    <2>2. Settled(k)'
        BY <2>1 DEF Settled, Active, Enabled, Mutated
    <2> QED BY <1>1, <2>2 DEF Attended
<1>3. CASE ~(pend = {} /\ k \notin queue)
    BY <1>1, <1>3 DEF Attended, Quiescent
<1> QED BY <1>2, <1>3

\* CacheOK speaks of the object alone.
LEMMA CacheStays ==
    ASSUME CacheOK, UNCHANGED <<obs, cached, pend>>
    PROVE  CacheOK'
BY DEF CacheOK

----------------------------------------------------------------------------
(***************************************************************************)
(* The steps of a controller k.                                            *)
(***************************************************************************)
LEMMA Kept ==
    ASSUME MonitorInv, NEW k \in Kinds, UNCHANGED <<obs, cached, pend>>,
           MonitorTyped', WorkTyped', RestTyped',
           \A j \in Kinds : j # k =>
               /\ work'[j] = work[j] /\ monitor'[j] = monitor[j]
               /\ j \in queue => j \in queue'
               /\ j \in drift <=> j \in drift',
           Attended(k)'
    PROVE  MonitorInv'
<1>1. ObsTyped'
    BY TypeParts, InvParts DEF ObsTyped
<1>2. TypeOK'
    BY <1>1, TypeParts DEF TypeOK, ObsTyped, MonitorTyped, WorkTyped, RestTyped, ObsVersion, WorkRecord
<1>3. CacheOK'
    BY CacheStays, InvParts
<1>4. ASSUME NEW j \in Kinds, j # k PROVE Attended(j)'
    BY <1>4, Elsewhere, InvParts
<1>5. \A j \in Kinds : Attended(j)'
    BY <1>4
<1> QED BY <1>2, <1>3, <1>5 DEF MonitorInv, Attended, NoMonitorForgotten

LEMMA TakeUp ==
    ASSUME MonitorInv, NEW k \in Kinds, Skipped(k) \/ Begin(k)
    PROVE  MonitorInv'
<1>1. TypeOK /\ CacheOK /\ ObsTyped /\ MonitorTyped /\ WorkTyped /\ RestTyped /\ Attended(k)
    BY InvParts, TypeParts
<1>2. queue' = queue \ {k} /\ UNCHANGED <<obs, cached, pend, monitor, drift, budget>>
    BY DEF Skipped, Begin
<1>3. MonitorTyped' /\ RestTyped'
    BY <1>1, <1>2 DEF MonitorTyped, RestTyped
<1>4. CASE Skipped(k)
    <2>1. work' = work /\ work[k] = Idle /\ ~Active(cached.body)
        BY <1>4 DEF Skipped
    <2>2. WorkTyped'
        BY <1>1, <2>1 DEF WorkTyped, WorkOK
    <2>3. Attended(k)'
        <3>1. pend = {} => ~Active(obs.body)
            BY <1>1, <2>1 DEF CacheOK
        <3> QED BY <1>2, <2>1, <3>1 DEF Attended, HeldOK, Quiescent, Settled
    <2> QED BY <1>2, <1>3, <2>1, <2>2, <2>3, Kept
<1>5. CASE Begin(k)
    <2> DEFINE w == [step |-> "get", parent |-> cached.body, base |-> 0]
    <2>1. /\ work' = [work EXCEPT ![k] = w]
          /\ cached.body \in Body /\ cached.body # None /\ cached.body.spec.target # ""
        BY <1>1, <1>5 DEF Begin, Active, ObsTyped, ObsVersion
    <2>2. w \in WorkRecord
        BY <2>1 DEF WorkRecord
    <2>3. /\ work' \in [Kinds -> WorkRecord] /\ work'[k] = w
          /\ \A j \in Kinds : j # k => work'[j] = work[j]
        BY <1>1, <2>1, <2>2 DEF WorkTyped
    <2>4. WorkOK(k)'
        BY <2>1, <2>3 DEF WorkOK
    <2>5. WorkTyped'
        BY <1>1, <2>3, <2>4, WorkMoves
    <2>6. w # Idle /\ w.parent = cached.body
        BY DEF Idle
    <2>7. Attended(k)'
        <3>1. pend = {} => cached = obs
            BY <1>1 DEF CacheOK
        <3> QED BY <1>2, <2>3, <2>6, <3>1 DEF Attended, HeldOK, Quiescent
    <2> QED BY <1>2, <1>3, <2>3, <2>5, <2>7, Kept
<1> QED BY <1>4, <1>5

\* Done and Retry put the worker to rest.
LEMMA Rests ==
    ASSUME TypeOK, NEW k \in Kinds, Done(k) \/ Retry(k)
    PROVE  /\ WorkTyped' /\ work'[k] = Idle
           /\ \A j \in Kinds : j # k => work'[j] = work[j]
           /\ queue \subseteq queue' /\ queue' \subseteq Kinds
           /\ Done(k) => queue' = queue
           /\ Retry(k) => k \in queue'
<1>1. WorkTyped /\ queue \subseteq Kinds
    BY TypeParts DEF RestTyped
<1>2. work' = [work EXCEPT ![k] = Idle]
    BY DEF Done, Retry
<1> QED BY <1>1, <1>2, IdleMoves DEF Done, Retry

LEMMA Reads ==
    ASSUME MonitorInv, NEW k \in Kinds, Read(k)
    PROVE  MonitorInv'
<1>1. TypeOK /\ MonitorTyped /\ WorkTyped /\ RestTyped /\ HeldOK(k)
    BY InvParts, TypeParts DEF Attended
<1>2. /\ work[k].step = "get"
      /\ drift' = drift \ {k}
      /\ UNCHANGED <<obs, cached, pend, monitor, budget>>
    BY DEF Read, NothingToDelete, FoundToDelete, MutateError, FoundAbsent, FoundEqual,
           FoundDifferent, Reading
<1>3. MonitorTyped'
    BY <1>1, <1>2 DEF MonitorTyped
<1>4. ASSUME WorkTyped', queue' \subseteq Kinds, Attended(k)', queue \subseteq queue',
             \A j \in Kinds : j # k => work'[j] = work[j]
      PROVE  MonitorInv'
    <2>1. RestTyped'
        BY <1>1, <1>2, <1>4 DEF RestTyped
    <2> QED BY <1>2, <1>3, <1>4, <2>1, Kept
<1>5. CASE MutateError(k)
    BY <1>1, <1>4, <1>5, Rests, Queued DEF MutateError
<1>6. CASE NothingToDelete(k) \/ FoundEqual(k)
    <2>1. /\ Done(k)
          /\ Enabled(k, work[k].parent) => monitor[k].body = Mutated(k)
          /\ ~Enabled(k, work[k].parent) => monitor[k].body = None
        BY <1>6 DEF NothingToDelete, FoundEqual, Reading
    <2>2. Attended(k)'
        BY <1>1, <1>2, <2>1, Rests, SettledForCopy
    <2> QED BY <1>1, <1>4, <2>1, <2>2, Rests
<1>7. CASE FoundToDelete(k) \/ FoundAbsent(k) \/ FoundDifferent(k)
    <2>1. PICK step \in {"create", "update", "delete"} :
              /\ Send(k, step)
              /\ step # "delete" => Enabled(k, work[k].parent)
              /\ step = "delete" => ~Enabled(k, work[k].parent)
        BY <1>7 DEF FoundToDelete, FoundAbsent, FoundDifferent, Reading
    <2>2. /\ WorkTyped' /\ work'[k] # Idle /\ work'[k].parent = work[k].parent
          /\ \A j \in Kinds : j # k => work'[j] = work[j]
          /\ queue' = queue
        BY <1>1, <1>2, <2>1, SendMoves DEF Send
    <2>3. work[k] # Idle
        BY <1>2 DEF Idle
    <2>4. Attended(k)'
        BY <1>1, <1>2, <2>2, <2>3 DEF Attended, HeldOK, Quiescent
    <2> QED BY <1>1, <1>4, <2>2, <2>4 DEF RestTyped
<1> QED BY <1>5, <1>6, <1>7 DEF Read

LEMMA ReadLost ==
    ASSUME MonitorInv, NEW k \in Kinds, ReadFails(k)
    PROVE  MonitorInv'
<1>1. TypeOK /\ MonitorTyped /\ RestTyped
    BY InvParts, TypeParts
<1>2. /\ Disturb /\ UNCHANGED <<obs, cached, pend, monitor>>
      /\ \/ Retry(k) /\ drift' = drift
         \/ Done(k) /\ drift' = drift \cup {k}
    BY DEF ReadFails
<1>3. /\ WorkTyped' /\ work'[k] = Idle
      /\ \A j \in Kinds : j # k => work'[j] = work[j]
      /\ queue \subseteq queue' /\ queue' \subseteq Kinds
      /\ Retry(k) => k \in queue'
    BY <1>1, <1>2, Rests
<1>4. MonitorTyped' /\ RestTyped'
    BY <1>1, <1>2, <1>3, BudgetTyped DEF MonitorTyped, RestTyped
<1>5. Attended(k)'
    BY <1>2, <1>3, Queued DEF Attended, HeldOK
<1> QED BY <1>2, <1>3, <1>4, <1>5, Kept

\* An accepted request leaves the monitor as the worker's copy asks.
LEMMA Applies ==
    ASSUME TypeOK, NEW k \in Kinds, Apply(k)
    PROVE  /\ work[k].step # "idle" /\ MonitorTyped'
           /\ Enabled(k, work[k].parent) => monitor'[k].body = Mutated(k)
           /\ ~Enabled(k, work[k].parent) => monitor'[k].body = None
           /\ \A j \in Kinds : j # k => monitor'[j] = monitor[j]
<1> DEFINE b == IF work[k].step = "delete" THEN None ELSE Mutated(k)
<1>1. work[k].step \in {"create", "update", "delete"} /\ WriteMonitor(k, b)
    BY DEF Apply, Accepted
<1>2. WorkTyped /\ MonitorTyped
    BY TypeParts
<1>3. /\ Mutated(k) \in MonitorBody(k)
      /\ work[k].step \in {"create", "update"} => Enabled(k, work[k].parent)
      /\ work[k].step = "delete" => ~Enabled(k, work[k].parent)
    BY <1>1, <1>2, HeldParent
<1>4. b \in MonitorBody(k) \cup {None}
    BY <1>3
<1>5. /\ MonitorTyped' /\ monitor'[k].body = b
      /\ \A j \in Kinds : j # k => monitor'[j] = monitor[j]
    BY <1>1, <1>2, <1>4, MonitorWritten
<1> QED BY <1>1, <1>3, <1>5

LEMMA Calls ==
    ASSUME MonitorInv, NEW k \in Kinds, Answer(k) \/ RequestLost(k) \/ AnswerLost(k)
    PROVE  MonitorInv'
<1>1. TypeOK /\ MonitorTyped /\ RestTyped /\ HeldOK(k)
    BY InvParts, TypeParts DEF Attended
<1>2. /\ Done(k) \/ Retry(k)
      /\ UNCHANGED <<obs, cached, pend, drift>>
      /\ Disturb \/ UNCHANGED budget
      /\ Apply(k) \/ UNCHANGED monitor
      /\ Retry(k) \/ (Apply(k) /\ Done(k))
    BY DEF Answer, CallSucceeds, CallRefused, RequestLost, AnswerLost
<1>3. /\ WorkTyped' /\ work'[k] = Idle
      /\ \A j \in Kinds : j # k => work'[j] = work[j]
      /\ queue \subseteq queue' /\ queue' \subseteq Kinds
      /\ Done(k) => queue' = queue
      /\ Retry(k) => k \in queue'
    BY <1>1, <1>2, Rests
<1>4. MonitorTyped' /\ \A j \in Kinds : j # k => monitor'[j] = monitor[j]
    BY <1>1, <1>2, Applies DEF MonitorTyped
<1>5. RestTyped'
    BY <1>1, <1>2, <1>3, BudgetTyped DEF RestTyped
<1>6. Attended(k)'
    <2>1. CASE Retry(k)
        BY <1>3, <2>1, Queued
    <2>2. CASE Apply(k) /\ Done(k)
        BY <1>1, <1>2, <1>3, <2>2, Applies, SettledForCopy
    <2> QED BY <1>2, <2>1, <2>2
<1> QED BY <1>2, <1>3, <1>4, <1>5, <1>6, Kept

----------------------------------------------------------------------------
(***************************************************************************)
(* The steps of the rest of the cluster.                                   *)
(***************************************************************************)
\* The garbage collector does not touch a monitor its object asks for, and a
\* user's change is drift.
LEMMA MonitorChanges ==
    ASSUME MonitorInv, NEW k \in Kinds, GarbageCollect(k) \/ UserMonitor(k)
    PROVE  MonitorInv'
<1>1. TypeOK /\ ObsTyped /\ MonitorTyped /\ WorkTyped /\ RestTyped /\ Attended(k)
    BY InvParts, TypeParts
<1>2. UNCHANGED <<obs, cached, pend, queue, work>>
    BY DEF GarbageCollect, UserMonitor
<1>3. PICK b \in MonitorBody(k) \cup {None} : WriteMonitor(k, b)
    <2>1. CASE GarbageCollect(k)
        BY <2>1 DEF GarbageCollect
    <2>2. CASE UserMonitor(k)
        BY <2>2 DEF UserMonitor, MonitorBody, MonitorSpecs
    <2> QED BY <2>1, <2>2
<1>4. MonitorTyped' /\ \A j \in Kinds : j # k => monitor'[j] = monitor[j]
    BY <1>1, <1>3, MonitorWritten
<1>5. WorkTyped'
    BY <1>1, <1>2 DEF WorkTyped, WorkOK
<1>6. CASE UserMonitor(k)
    <2>1. drift' = drift \cup {k} /\ Disturb
        BY <1>6 DEF UserMonitor
    <2>2. RestTyped'
        BY <1>1, <1>2, <2>1, BudgetTyped DEF RestTyped
    <2>3. Attended(k)'
        BY <1>1, <1>2, <2>1 DEF Attended, HeldOK
    <2> QED BY <1>2, <1>4, <1>5, <2>1, <2>2, <2>3, Kept
<1>7. CASE GarbageCollect(k)
    <2>1. /\ monitor[k].body # None
          /\ ~(obs.body # None /\ obs.body.uid = monitor[k].body.owner)
          /\ WriteMonitor(k, None)
          /\ UNCHANGED <<drift, budget>>
        BY <1>7 DEF GarbageCollect
    <2>2. RestTyped'
        BY <1>1, <1>2, <2>1 DEF RestTyped
    <2>3. Settled(k) => ~Active(obs.body)
        <3>1. SUFFICES ASSUME Settled(k), Active(obs.body), obs.body # None PROVE FALSE
            BY DEF Active
        <3>2. \/ monitor[k].body = [spec |-> MonitorSpec(k, obs.body.spec), owner |-> obs.body.uid]
              \/ monitor[k].body = None
            BY <3>1 DEF Settled
        <3>3. monitor[k].body = [spec |-> MonitorSpec(k, obs.body.spec), owner |-> obs.body.uid]
                => monitor[k].body.owner = obs.body.uid
            OBVIOUS
        <3> QED BY <2>1, <3>1, <3>2, <3>3
    <2>4. ~Active(obs.body) => Settled(k)'
        BY <1>2 DEF Settled
    <2>5. Attended(k)'
        BY <1>1, <1>2, <2>1, <2>3, <2>4 DEF Attended, HeldOK, Quiescent
    <2> QED BY <1>2, <1>4, <1>5, <2>1, <2>2, <2>5, Kept
<1> QED BY <1>6, <1>7

\* Steps after which every controller is attended whatever it was before.
LEMMA Anew ==
    ASSUME TypeOK, ObsTyped', WorkTyped', queue' \subseteq Kinds, CacheOK',
           UNCHANGED <<monitor, drift>>, budget' \in 0..MaxDisturbances,
           \A k \in Kinds : Attended(k)'
    PROVE  MonitorInv'
<1>1. MonitorTyped' /\ RestTyped'
    BY TypeParts DEF MonitorTyped, RestTyped
<1>2. TypeOK'
    BY <1>1 DEF TypeOK, ObsTyped, MonitorTyped, WorkTyped, RestTyped, ObsVersion, WorkRecord
<1> QED BY <1>2 DEF MonitorInv, Attended, NoMonitorForgotten

LEMMA Delivery ==
    ASSUME MonitorInv, Deliver
    PROVE  MonitorInv'
<1>1. TypeOK /\ CacheOK /\ ObsTyped /\ WorkTyped /\ RestTyped
    BY InvParts, TypeParts
<1>2. PICK e \in pend :
          /\ \A f \in pend : e.rv <= f.rv
          /\ pend' = pend \ {e}
          /\ cached' = e
          /\ queue' = Kinds
          /\ UNCHANGED <<obs, monitor, work, drift, budget>>
    BY DEF Deliver
<1>3. ObsTyped' /\ WorkTyped' /\ budget' \in 0..MaxDisturbances
    BY <1>1, <1>2 DEF ObsTyped, WorkTyped, WorkOK, RestTyped
<1>4. \A k \in Kinds : Attended(k)'
    BY <1>2, Queued
<1>5. CacheOK'
    <2>1. \A f \in pend \cup {obs, cached} : f.rv \in Nat
        BY <1>1 DEF ObsTyped, ObsVersion
    <2>2. e.rv <= obs.rv
        BY <1>1 DEF CacheOK
    <2>3. ASSUME NEW f \in pend, f # e PROVE e.rv < f.rv /\ f.rv <= obs.rv
        <3>1. e.rv <= f.rv /\ e.rv # f.rv /\ f.rv <= obs.rv
            BY <1>1, <1>2, <2>3 DEF CacheOK
        <3> QED BY <2>1, <3>1
    <2>4. pend' # {} => obs \in pend'
        <3>1. SUFFICES ASSUME NEW f \in pend, f # e PROVE obs \in pend'
            BY <1>2
        <3>2. e # obs
            BY <2>1, <2>3, <3>1
        <3> QED BY <1>1, <1>2, <3>2 DEF CacheOK
    <2>5. pend' = {} => e = obs
        BY <1>1, <1>2 DEF CacheOK
    <2>6. \A f, g \in pend' : f.rv = g.rv => f = g
        BY <1>1, <1>2 DEF CacheOK
    <2> QED BY <1>2, <2>2, <2>3, <2>4, <2>5, <2>6 DEF CacheOK
<1> QED BY <1>1, <1>2, <1>3, <1>4, <1>5, Anew

LEMMA ObsChanges ==
    ASSUME MonitorInv, UserObs
    PROVE  MonitorInv'
<1>1. TypeOK /\ CacheOK /\ ObsTyped /\ WorkTyped /\ RestTyped
    BY InvParts, TypeParts
<1>2. /\ obs.rv \in Nat /\ cached.rv \in Nat /\ \A e \in pend : e.rv \in Nat
      /\ obs.body \in Body \cup {None}
    BY <1>1 DEF ObsTyped, ObsVersion
<1>3. PICK b \in Body \cup {None} : WriteObs(b)
    <2>1. PICK s \in Specs \cup {None} :
              WriteObs(IF s = None THEN None
                       ELSE [spec |-> s, uid |-> IF obs.body = None THEN obs.rv + 1
                                                 ELSE obs.body.uid])
        BY DEF UserObs
    <2>2. (IF obs.body = None THEN obs.rv + 1 ELSE obs.body.uid) \in Nat
        BY <1>2 DEF Body
    <2>3. s # None => [spec |-> s, uid |-> IF obs.body = None THEN obs.rv + 1
                                           ELSE obs.body.uid] \in Body
        BY <2>1, <2>2 DEF Body
    <2> QED BY <2>1, <2>3
<1>4. Disturb /\ UNCHANGED <<cached, monitor, queue, work, drift>>
    BY DEF UserObs
<1>5. /\ obs' = [rv |-> obs.rv + 1, body |-> b]
      /\ pend' = pend \cup {obs'}
    BY <1>3 DEF WriteObs
<1>6. ObsTyped'
    BY <1>1, <1>2, <1>4, <1>5 DEF ObsTyped, ObsVersion
<1>7. WorkTyped' /\ queue' \subseteq Kinds /\ budget' \in 0..MaxDisturbances
    BY <1>1, <1>4, BudgetTyped DEF WorkTyped, WorkOK, RestTyped
<1>8. \A k \in Kinds : Attended(k)'
    BY <1>5 DEF Attended, HeldOK, Quiescent
<1>9. CacheOK'
    BY <1>1, <1>2, <1>4, <1>5 DEF CacheOK
<1> QED BY <1>1, <1>4, <1>6, <1>7, <1>8, <1>9, Anew

\* With no object there is nothing to settle, and with one every key is queued.
LEMMA FromListing ==
    ASSUME queue' = (IF obs.body = None THEN {} ELSE Kinds), work' = [k \in Kinds |-> Idle],
           obs' = obs
    PROVE  /\ WorkTyped' /\ queue' \subseteq Kinds
           /\ \A k \in Kinds : Attended(k)'
<1>1. Idle \in WorkRecord
    BY DEF Idle, WorkRecord
<1>2. WorkTyped'
    BY <1>1 DEF WorkTyped, WorkOK
<1>3. ASSUME NEW k \in Kinds PROVE Attended(k)'
    <2>1. CASE obs.body = None
        BY <2>1 DEF Attended, HeldOK, Settled, Active
    <2>2. CASE obs.body # None
        BY <2>2, Queued
    <2> QED BY <2>1, <2>2
<1> QED BY <1>2, <1>3

LEMMA Restarts ==
    ASSUME MonitorInv, Restart
    PROVE  MonitorInv'
<1>1. TypeOK /\ ObsTyped /\ RestTyped
    BY InvParts, TypeParts
<1>2. /\ Disturb /\ cached' = obs /\ pend' = {}
      /\ queue' = (IF obs.body = None THEN {} ELSE Kinds)
      /\ work' = [k \in Kinds |-> Idle]
      /\ UNCHANGED <<obs, monitor, drift>>
    BY DEF Restart
<1>3. ObsTyped' /\ budget' \in 0..MaxDisturbances
    BY <1>1, <1>2, BudgetTyped DEF ObsTyped, RestTyped
<1>4. CacheOK'
    BY <1>1, <1>2 DEF CacheOK, ObsTyped, ObsVersion
<1> QED BY <1>1, <1>2, <1>3, <1>4, FromListing, Anew

LEMMA Resyncs ==
    ASSUME MonitorInv, Resync
    PROVE  MonitorInv'
<1>1. TypeOK /\ CacheOK /\ ObsTyped /\ WorkTyped /\ RestTyped
    BY InvParts, TypeParts
<1>2. /\ Disturb /\ queue' = Kinds
      /\ UNCHANGED <<obs, cached, pend, monitor, work, drift>>
    BY DEF Resync
<1>3. ObsTyped' /\ WorkTyped' /\ budget' \in 0..MaxDisturbances
    BY <1>1, <1>2, BudgetTyped DEF ObsTyped, WorkTyped, WorkOK, RestTyped
<1>4. \A k \in Kinds : Attended(k)'
    BY <1>2, Queued
<1> QED BY <1>1, <1>2, <1>3, <1>4, CacheStays, Anew

----------------------------------------------------------------------------
LEMMA MonitorsStart == Init => MonitorInv
<1> SUFFICES ASSUME Init PROVE MonitorInv
    OBVIOUS
<1>1. /\ cached = obs /\ pend = {} /\ drift = {}
      /\ queue = (IF obs.body = None THEN {} ELSE Kinds)
      /\ work = [k \in Kinds |-> Idle]
      /\ budget \in 0..MaxDisturbances
    BY MonitorAssumptions DEF Init
<1>2. ObsTyped
    BY <1>1 DEF Init, ObsTyped, ObsVersion, Body
<1>3. MonitorTyped
    <2>1. ASSUME NEW k \in Kinds
          PROVE  monitor[k] \in [rv : Nat, body : MonitorBody(k) \cup {None}]
        BY DEF Init, MonitorBody, MonitorSpecs
    <2> QED BY <2>1 DEF Init, MonitorTyped
<1>4. Idle \in WorkRecord
    BY DEF Idle, WorkRecord
<1>5. WorkTyped
    BY <1>1, <1>4 DEF WorkTyped, WorkOK
<1>6. TypeOK
    BY <1>1, <1>2, <1>3, <1>5, TypeParts DEF RestTyped
<1>7. CacheOK
    BY <1>1, <1>2 DEF CacheOK, ObsTyped, ObsVersion
<1>8. ASSUME NEW k \in Kinds PROVE Attended(k)
    BY <1>1 DEF Attended, HeldOK, Quiescent, Settled, Active
<1> QED BY <1>6, <1>7, <1>8, InvParts

LEMMA MonitorsStep == MonitorInv /\ [Next]_vars => MonitorInv'
<1> SUFFICES ASSUME MonitorInv, [Next]_vars PROVE MonitorInv'
    OBVIOUS
<1>1. ASSUME NEW k \in Kinds,
             \/ Skipped(k) \/ Begin(k) \/ Read(k) \/ ReadFails(k)
             \/ Answer(k) \/ RequestLost(k) \/ AnswerLost(k)
             \/ GarbageCollect(k) \/ UserMonitor(k)
      PROVE  MonitorInv'
    BY <1>1, TakeUp, Reads, ReadLost, Calls, MonitorChanges
<1>2. CASE Deliver \/ UserObs \/ Restart \/ Resync
    BY <1>2, Delivery, ObsChanges, Restarts, Resyncs
<1>3. CASE UNCHANGED vars
    BY <1>3 DEF vars, MonitorInv, TypeOK, WorkOK, CacheOK, HeldOK, NoMonitorForgotten,
                Quiescent, Settled, Active, Enabled
<1> QED BY <1>1, <1>2, <1>3 DEF Next

(***************************************************************************)
(* The observability controllers keep every variable in its type.          *)
(***************************************************************************)
THEOREM MonitorsTyped == Spec => []TypeOK
<1>1. MonitorInv => TypeOK
    BY DEF MonitorInv
<1> QED BY <1>1, MonitorsStart, MonitorsStep, PTL DEF Spec

(***************************************************************************)
(* A controller at rest, whose monitor nobody has changed since it looked, *)
(* has the monitor its Observability object asks for: the watch on that    *)
(* object alone is enough for everything but drift, whatever the specs and *)
(* however many edits, failures and restarts there are.                    *)
(***************************************************************************)
THEOREM MonitorsRemembered == Spec => []NoMonitorForgotten
<1>1. MonitorInv => NoMonitorForgotten
    BY DEF MonitorInv
<1> QED BY <1>1, MonitorsStart, MonitorsStep, PTL DEF Spec
=============================================================================
