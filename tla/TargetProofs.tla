----------------------------- MODULE TargetProofs -----------------------------
(***************************************************************************)
(* Proofs about the controllers around a Deployment, for every set of      *)
(* parents, Deployments, scheduling fields, volumes and escape hatches     *)
(* that meets the assumptions of TargetInvariant.                          *)
(***************************************************************************)
EXTENDS TargetInvariant, ClusterProofs, PatchProofs

(***************************************************************************)
(* Merge patches.                                                          *)
(***************************************************************************)
\* On the version it was made of, a patch yields what it was made for.
LEMMA MergeYields ==
    ASSUME NEW d, NEW m, m = [f \in DOMAIN m |-> m[f]]
    PROVE  JSONMergePatch(d, MergeFrom(d, m)) = m
<1> DEFINE same == {f \in DOMAIN m \cap DOMAIN d : m[f] = d[f]}
           set == [f \in DOMAIN m \ same |-> m[f]]
           remove == DOMAIN d \ DOMAIN m
           n == JSONMergePatch(d, MergeFrom(d, m))
<1>1. MergeFrom(d, m) = [set |-> set, remove |-> remove]
    BY DEF MergeFrom, Kept
<1>2. n = [f \in (DOMAIN d \cup DOMAIN set) \ remove |->
              IF f \in DOMAIN set THEN set[f] ELSE d[f]]
    BY <1>1 DEF JSONMergePatch
<1>3. (DOMAIN d \cup DOMAIN set) \ remove = DOMAIN m
    OBVIOUS
<1>4. ASSUME NEW f \in DOMAIN m PROVE (IF f \in DOMAIN set THEN set[f] ELSE d[f]) = m[f]
    BY <1>4
<1> HIDE DEF set, remove, n
<1>5. n = [f \in DOMAIN m |-> m[f]]
    BY <1>2, <1>3, <1>4
<1> QED BY <1>5 DEF n

\* On any version, it leaves alone the leaves in which the two it was made of
\* are the same.
LEMMA MergeTouches ==
    ASSUME NEW d, NEW m, NEW e, NEW A, Kept(m, A) = Kept(d, A)
    PROVE  Kept(JSONMergePatch(e, MergeFrom(d, m)), A) = Kept(e, A)
<1> DEFINE same == {f \in DOMAIN m \cap DOMAIN d : m[f] = d[f]}
           set == [f \in DOMAIN m \ same |-> m[f]]
           remove == DOMAIN d \ DOMAIN m
           n == JSONMergePatch(e, MergeFrom(d, m))
<1>1. MergeFrom(d, m) = [set |-> set, remove |-> remove]
    BY DEF MergeFrom, Kept
<1>2. n = [f \in (DOMAIN e \cup DOMAIN set) \ remove |->
              IF f \in DOMAIN set THEN set[f] ELSE e[f]]
    BY <1>1 DEF JSONMergePatch
<1>3. DOMAIN m \ A = DOMAIN d \ A
    BY DEF Kept
<1>4. ASSUME NEW f \in DOMAIN m \ A PROVE m[f] = d[f]
    BY <1>3 DEF Kept
<1>5. DOMAIN set \subseteq A /\ remove \subseteq A
    BY <1>3, <1>4
<1>6. DOMAIN n \ A = DOMAIN e \ A
    BY <1>2, <1>5
<1>7. ASSUME NEW f \in DOMAIN n \ A PROVE n[f] = e[f]
    <2>1. f \notin DOMAIN set /\ f \in DOMAIN e /\ f \in DOMAIN n
        BY <1>5, <1>6
    <2> QED BY <1>2, <2>1
<1> HIDE DEF n
<1>8. [f \in DOMAIN n \ A |-> n[f]] = [f \in DOMAIN e \ A |-> e[f]]
    BY <1>6, <1>7
<1> QED BY <1>8 DEF Kept, n

\* What a patcher makes of a Deployment, before its hatches.
LEMMA AssignedApart ==
    ASSUME NEW c \in Patchers, NEW o \in For(c), o \in Objects, NEW s \in Specs(o), NEW d
    PROVE  Kept(Assigned(c, o, s, d), Assigns(c)) = Kept(d, Assigns(c))
<1>1. CASE c = "compute-deployment"
    <2> DEFINE m == Scheduled(s, d)
    <2>1. DOMAIN s.scheduling \subseteq SchedulingFields
        BY <1>1, ApartAssumptions DEF SchedulingAssumption, Patchers
    <2>2. DOMAIN m \ SchedulingFields = DOMAIN d \ SchedulingFields
        BY <2>1 DEF Scheduled
    <2>3. ASSUME NEW f \in DOMAIN d \ SchedulingFields PROVE m[f] = d[f]
        BY <2>1 DEF Scheduled
    <2> HIDE DEF m
    <2>4. Kept(m, SchedulingFields) = Kept(d, SchedulingFields)
        BY <2>2, <2>3 DEF Kept
    <2> QED BY <1>1, <2>4 DEF Assigned, Assigns, m
<1>2. CASE c # "compute-deployment"
    <2> DEFINE m == Mounted(o, s, d)
    <2>1. DOMAIN m = DOMAIN d
        BY DEF Mounted
    <2>2. ASSUME NEW f \in DOMAIN d \ {"volumes", "containers"} PROVE m[f] = d[f]
        BY DEF Mounted
    <2> HIDE DEF m
    <2>3. Kept(m, {"volumes", "containers"}) = Kept(d, {"volumes", "containers"})
        BY <2>1, <2>2 DEF Kept
    <2> QED BY <1>2, <2>3 DEF Assigned, Assigns, m
<1> QED BY <1>1, <1>2
----------------------------------------------------------------------------
(***************************************************************************)
(* Lists of volumes.                                                       *)
(***************************************************************************)
\* g holds what f becomes with the first n entries.
SetSteps(g, f, entries, n) ==
    g = [i \in 0..n |-> IF i = 0 THEN f ELSE SetOne(g[i - 1], entries[i])]

LEMMA SetStepsExist ==
    ASSUME NEW f, NEW entries
    PROVE  \A n \in Nat : \E g : SetSteps(g, f, entries, n)
<1> DEFINE T == {n \in Nat : ~\E g : SetSteps(g, f, entries, n)}
<1>1. SUFFICES ASSUME T # {} PROVE FALSE
    OBVIOUS
<1>2. PICK n \in T : \A m \in T : n <= m
    <2> HIDE DEF T
    <2>1. T \in SUBSET Nat
        BY DEF T
    <2> QED BY <1>1, <2>1, LeastNat
<1>3. CASE n = 0
    <2>1. SetSteps([i \in 0..0 |-> f], f, entries, 0)
        BY DEF SetSteps
    <2> QED BY <1>3, <2>1
<1>4. CASE n # 0
    <2>1. n - 1 \in Nat /\ n - 1 \notin T
        BY <1>2, <1>4
    <2>2. PICK g : SetSteps(g, f, entries, n - 1)
        BY <2>1
    <2> DEFINE h == [i \in 0..n |-> IF i = n THEN SetOne(g[n - 1], entries[n]) ELSE g[i]]
    <2>3. \A i \in 0..n : h[i] = IF i = 0 THEN f ELSE SetOne(h[i - 1], entries[i])
        BY <1>4, <2>1, <2>2 DEF SetSteps
    <2>4. SetSteps(h, f, entries, n)
        BY <2>3 DEF SetSteps
    <2> QED BY <2>4
<1> QED BY <1>3, <1>4

\* SetAll is the last of its steps.
LEMMA SetAllSteps ==
    ASSUME NEW f, NEW entries, Len(entries) \in Nat
    PROVE  \E g : /\ SetSteps(g, f, entries, Len(entries))
                  /\ SetAll(f, entries) = g[Len(entries)]
<1> DEFINE h == CHOOSE g : g = [i \in 0..Len(entries) |->
                                   IF i = 0 THEN f ELSE SetOne(g[i - 1], entries[i])]
<1>1. SetSteps(h, f, entries, Len(entries))
    BY SetStepsExist DEF SetSteps
<1>2. SetAll(f, entries) = h[Len(entries)]
    BY DEF SetAll
<1> QED BY <1>1, <1>2

\* The last entry of a name is what the name has in the end.
LEMMA SetAllYields ==
    ASSUME NEW f, NEW entries, Len(entries) \in Nat, NEW i \in 1..Len(entries),
           \A j \in i + 1..Len(entries) : entries[j].name # entries[i].name
    PROVE  /\ entries[i].name \in DOMAIN SetAll(f, entries)
           /\ SetAll(f, entries)[entries[i].name] = entries[i].value
<1>1. PICK g : /\ SetSteps(g, f, entries, Len(entries))
               /\ SetAll(f, entries) = g[Len(entries)]
    BY SetAllSteps
<1> DEFINE Has(n) == /\ entries[i].name \in DOMAIN g[n]
                     /\ g[n][entries[i].name] = entries[i].value
           T == {n \in i..Len(entries) : ~Has(n)}
<1>2. \A n \in 1..Len(entries) : g[n] = SetOne(g[n - 1], entries[n])
    BY <1>1 DEF SetSteps
<1>3. SUFFICES ASSUME T # {} PROVE FALSE
    BY <1>1
<1>4. PICK n \in T : \A m \in T : n <= m
    <2> HIDE DEF T
    <2>1. T \in SUBSET Nat
        BY DEF T
    <2> QED BY <1>3, <2>1, LeastNat
<1>5. n \in 1..Len(entries)
    BY <1>4
<1>6. CASE n = i
    <2>1. g[i] = SetOne(g[i - 1], entries[i])
        BY <1>2
    <2>2. Has(i)
        BY <2>1 DEF SetOne, Over
    <2> QED BY <1>4, <1>6, <2>2
<1>7. CASE n # i
    <2>1. n \in i + 1..Len(entries) /\ n - 1 \in i..Len(entries) /\ ~(n <= n - 1)
        BY <1>4, <1>7
    <2>2. Has(n - 1)
        <3>1. n - 1 \notin T
            BY <1>4, <2>1
        <3> QED BY <2>1, <3>1
    <2>3. entries[n].name # entries[i].name
        BY <2>1
    <2>4. g[n] = SetOne(g[n - 1], entries[n])
        BY <1>2, <1>5
    <2>5. Has(n)
        BY <2>2, <2>3, <2>4 DEF SetOne, Over
    <2> QED BY <1>4, <2>5
<1> QED BY <1>6, <1>7

----------------------------------------------------------------------------
(***************************************************************************)
(* Queues and workers.                                                     *)
(***************************************************************************)
\* What the invariant says of one controller's own variables.
Typed(c) == queue[c] \subseteq For(c) /\ WorkOK(c) /\ CopyOK(c)

AllTyped ==
    /\ DOMAIN queue = Controllers /\ DOMAIN work = Controllers
    /\ \A c \in Controllers : Typed(c)

LEMMA InvParts ==
    TargetInv <=> ClusterTypeOK /\ CacheInv /\ AllTyped /\ WakeInv
BY DEF TargetInv, TypeOK, AllTyped, Typed

LEMMA ForTyped ==
    ASSUME NEW c, NEW o \in For(c)
    PROVE  o \in Objects /\ o.kind \in {"Compute", "Storage"}
BY DEF For

LEMMA WorkerTyped ==
    ASSUME NEW c \in Controllers, WorkOK(c), work[c].step # "idle"
    PROVE  LET w == work[c]
           IN  /\ w.key \in For(c) /\ w.key \in Objects
               /\ w.parent \in Body(w.key) /\ w.parent.spec \in Specs(w.key)
               /\ w.parent.uid \in Nat
               /\ ~TargetMissing(w.parent.spec)
               /\ w.base \in Nat
               /\ w.step \in IF c \in Patchers THEN {"target", "patch"}
                             ELSE {"target", "get", "create", "update", "delete"}
               /\ c = "compute-deployment" /\ w.step = "patch" => HasScheduling(w.parent.spec)
               /\ w.step \in {"create", "update"} => HasPDB(w.parent.spec)
               /\ w.step = "delete" => ~HasPDB(w.parent.spec)
               /\ w = [step |-> w.step, key |-> w.key, parent |-> w.parent,
                       arg |-> w.arg, base |-> w.base]
BY ForTyped DEF WorkOK, Idle, Body

LEMMA IdleTyped ==
    ASSUME NEW c, work'[c] = Idle, queue'[c] \subseteq For(c)
    PROVE  Typed(c)'
BY DEF Typed, WorkOK, CopyOK, Idle

LEMMA SameTyped ==
    ASSUME NEW c, Typed(c), work'[c] = work[c], queue'[c] \subseteq For(c)
    PROVE  Typed(c)'
<1>1. WorkOK(c)'
    BY DEF Typed, WorkOK
<1>2. Addressed(c)' = Addressed(c)
    BY DEF Addressed
<1>3. CopyOK(c)'
    BY <1>2 DEF Typed, CopyOK
<1> QED BY <1>1, <1>3 DEF Typed

\* The two ways a reconcile ends.
LEMMA DoneEffect ==
    ASSUME AllTyped, NEW c \in Controllers, Done(c)
    PROVE  /\ DOMAIN queue' = Controllers /\ DOMAIN work' = Controllers
           /\ \A k \in Controllers : k # c => work'[k] = work[k]
           /\ \A k \in Controllers : queue'[k] = queue[k]
           /\ Typed(c)'
<1>1. work' = [work EXCEPT ![c] = Idle] /\ queue' = queue
    BY DEF Done
<1>2. work'[c] = Idle /\ queue'[c] \subseteq For(c)
    BY <1>1 DEF AllTyped, Typed
<1> QED BY <1>1, <1>2, IdleTyped DEF AllTyped

LEMMA RetryEffect ==
    ASSUME AllTyped, NEW c \in Controllers, work[c].step # "idle", Retry(c)
    PROVE  /\ DOMAIN queue' = Controllers /\ DOMAIN work' = Controllers
           /\ \A k \in Controllers : k # c => work'[k] = work[k] /\ queue'[k] = queue[k]
           /\ queue'[c] = queue[c] \cup {work[c].key}
           /\ Typed(c)'
<1>1. /\ work' = [work EXCEPT ![c] = Idle]
      /\ queue' = [queue EXCEPT ![c] = @ \cup {work[c].key}]
    BY DEF Retry
<1>2. work[c].key \in For(c)
    BY WorkerTyped DEF AllTyped, Typed
<1>3. work'[c] = Idle /\ queue'[c] \subseteq For(c)
    BY <1>1, <1>2 DEF AllTyped, Typed
<1> QED BY <1>1, <1>3, IdleTyped DEF AllTyped

----------------------------------------------------------------------------
(***************************************************************************)
(* WakeInv, parent by parent.                                              *)
(***************************************************************************)
LEMMA ParentTyped ==
    ASSUME ClusterTypeOK, NEW c \in Controllers, NEW o \in For(c), Active(cache[o].body)
    PROVE  LET p == cache[o].body
           IN  /\ p \in Body(o) /\ p.spec \in Specs(o) /\ p # None /\ ~TargetMissing(p.spec)
               /\ c = "compute-pdb" => BudgetOf(o) \in Objects
               /\ p.spec.targetRef.kind = "Deployment" =>
                     /\ Deployment(o, p.spec) \in Objects
                     /\ Deployment(o, p.spec).kind = "Deployment"
                     /\ Aims(o, p.spec, Deployment(o, p.spec))
<1>1. o \in Objects
    BY ForTyped
<1>2. cache[o].body \in Body(o) /\ cache[o].body # None /\ ~TargetMissing(cache[o].body.spec)
    BY <1>1, VersionsTyped DEF Active, Version
<1>3. cache[o].body.spec \in Specs(o)
    BY <1>2 DEF Body
<1>4. Deployment(o, cache[o].body.spec).kind = "Deployment"
    BY DEF Deployment, Object
<1> QED BY <1>2, <1>3, <1>4, TargetAssumptions DEF TargetsAssumption, Aims

\* A Deployment that a worker finds in the versions vs.
LEMMA TargetTyped ==
    ASSUME NEW vs, TypedVersions(vs), NEW c \in Controllers, NEW o \in For(c), NEW s \in Specs(o),
           ~TargetMissing(s), TargetIn(vs, o, s) # None
    PROVE  LET x == Deployment(o, s)
           IN  /\ s.targetRef.kind = "Deployment"
               /\ x \in Objects /\ Aims(o, s, x)
               /\ TargetIn(vs, o, s) = vs[x].body.spec
               /\ vs[x].body # None /\ TargetIn(vs, o, s) \in Specs(x)
<1>1. s.targetRef.kind = "Deployment"
    BY DEF TargetIn
<1>2. Deployment(o, s) \in Objects /\ Aims(o, s, Deployment(o, s))
    BY <1>1, TargetAssumptions DEF TargetsAssumption, Aims
<1>3. TargetIn(vs, o, s) = SpecOf(vs[Deployment(o, s)].body)
    BY <1>1 DEF TargetIn
<1> QED BY <1>1, <1>2, <1>3 DEF SpecOf, TypedVersions, Version, Body

\* While the cache stays and events only come, it is enough that no key leaves
\* the queue and no worker leaves its parent before the Deployment is covered.
LEMMA WakeKept ==
    ASSUME ClusterTypeOK, WakeInv, cache' = cache,
           \A y \in Objects : pend[y] \subseteq pend'[y],
           \A c \in Patchers : \A o \in For(c) :
              ToPatch(c, o) /\ (o \in queue[c] \/ Attended(c, o)) => Covered(c, o)'
    PROVE  WakeInv'
<1>1. SUFFICES ASSUME NEW c \in Patchers, NEW o \in For(c), ToPatch(c, o)'
               PROVE  Covered(c, o)'
    BY DEF WakeInv
<1>2. ToPatch(c, o)
    BY <1>1 DEF ToPatch, TargetIn
<1>3. Covered(c, o)
    BY <1>2 DEF WakeInv
<1>4. CASE o \in queue[c] \/ Attended(c, o)
    BY <1>2, <1>4
<1>5. CASE Modified(c, o, cache[o].body.spec, TargetIn(cache, o, cache[o].body.spec))
             = TargetIn(cache, o, cache[o].body.spec)
    BY <1>5 DEF Covered, TargetIn
<1>6. CASE pend[Deployment(o, cache[o].body.spec)] # {}
    <2>1. c \in Controllers /\ Active(cache[o].body)
          /\ Patches(c, cache[o].body.spec, TargetIn(cache, o, cache[o].body.spec))
        BY <1>2 DEF Patchers, ToPatch
    <2>2. TargetIn(cache, o, cache[o].body.spec) # None
        BY <2>1 DEF Patches
    <2>3. cache[o].body.spec.targetRef.kind = "Deployment"
        BY <2>2 DEF TargetIn
    <2>4. Deployment(o, cache[o].body.spec) \in Objects
        BY <2>1, <2>3, ParentTyped
    <2> QED BY <1>6, <2>4 DEF Covered
<1> QED BY <1>3, <1>4, <1>5, <1>6 DEF Covered

\* One controller's step: the others keep what they have.
LEMMA OwnStep ==
    ASSUME TargetInv, NEW c \in Controllers,
           ClusterTypeOK', CacheInv', cache' = cache,
           \A y \in Objects : pend[y] \subseteq pend'[y],
           DOMAIN queue' = Controllers, DOMAIN work' = Controllers,
           \A k \in Controllers : k # c => work'[k] = work[k] /\ queue'[k] = queue[k],
           Typed(c)',
           c \in Patchers => \A o \in For(c) :
              ToPatch(c, o) /\ (o \in queue[c] \/ Attended(c, o)) => Covered(c, o)'
    PROVE  TargetInv'
<1>1. ClusterTypeOK /\ AllTyped /\ WakeInv
    BY InvParts
<1>2. AllTyped'
    <2>1. ASSUME NEW k \in Controllers, k # c PROVE Typed(k)'
        <3>1. Typed(k) /\ work'[k] = work[k] /\ queue'[k] \subseteq For(k)
            BY <1>1, <2>1 DEF AllTyped, Typed
        <3> QED BY <3>1, SameTyped
    <2> QED BY <2>1 DEF AllTyped
<1>3. ASSUME NEW k \in Patchers, NEW o \in For(k), ToPatch(k, o),
             o \in queue[k] \/ Attended(k, o)
      PROVE  Covered(k, o)'
    <2>1. CASE k = c
        BY <1>3, <2>1
    <2>2. CASE k # c
        <3>1. work'[k] = work[k] /\ queue'[k] = queue[k]
            BY <2>2 DEF Patchers
        <3>2. Attended(k, o) => Attended(k, o)'
            BY <3>1 DEF Attended, TargetIn
        <3> QED BY <1>3, <3>1, <3>2 DEF Covered
    <2> QED BY <2>1, <2>2
<1>4. WakeInv'
    BY <1>1, <1>3, WakeKept
<1> QED BY <1>2, <1>4 DEF TargetInv, TypeOK, AllTyped, Typed

\* Steps that leave the cluster as it is.
LEMMA QuietCluster ==
    ASSUME ClusterTypeOK, CacheInv, UNCHANGED <<live, cache, pend>>, budget' \in 0..MaxDisturbances
    PROVE  /\ ClusterTypeOK' /\ CacheInv' /\ cache' = cache
           /\ \A y \in Objects : pend[y] \subseteq pend'[y]
BY DEF ClusterTypeOK, TypedVersions, CacheInv, CacheOK
----------------------------------------------------------------------------
(***************************************************************************)
(* A reconcile begins.                                                     *)
(***************************************************************************)
LEMMA SkippedStep ==
    ASSUME TargetInv, NEW c \in Controllers, NEW o \in For(c), Skipped(c, o)
    PROVE  TargetInv'
<1>1. ClusterTypeOK /\ CacheInv /\ AllTyped /\ budget \in 0..MaxDisturbances
    BY InvParts DEF ClusterTypeOK
<1>2. /\ queue' = [queue EXCEPT ![c] = @ \ {o}] /\ work' = work
      /\ UNCHANGED <<live, cache, pend, budget>> /\ ~Active(cache[o].body)
    BY DEF Skipped
<1>3. /\ DOMAIN queue' = Controllers /\ DOMAIN work' = Controllers
      /\ \A k \in Controllers : k # c => work'[k] = work[k] /\ queue'[k] = queue[k]
      /\ queue'[c] = queue[c] \ {o}
    BY <1>1, <1>2 DEF AllTyped
<1>4. Typed(c)'
    BY <1>1, <1>2, <1>3, SameTyped DEF AllTyped, Typed
<1>5. ASSUME NEW k \in For(c), ToPatch(c, k), k \in queue[c] \/ Attended(c, k)
      PROVE  Covered(c, k)'
    <2>1. k # o
        BY <1>2, <1>5 DEF ToPatch
    <2>2. Attended(c, k) => Attended(c, k)'
        BY <1>2 DEF Attended, TargetIn
    <2> QED BY <1>3, <1>5, <2>1, <2>2 DEF Covered
<1> QED BY <1>1, <1>2, <1>3, <1>4, <1>5, QuietCluster, OwnStep

LEMMA BeginStep ==
    ASSUME TargetInv, NEW c \in Controllers, NEW o \in For(c), Begin(c, o)
    PROVE  TargetInv'
<1> DEFINE p == cache[o].body
           w == [step |-> IF c \in Patchers \/ HasPDB(p.spec) THEN "target" ELSE "get",
                 key |-> o, parent |-> p, arg |-> None, base |-> 0]
<1>1. ClusterTypeOK /\ CacheInv /\ AllTyped /\ budget \in 0..MaxDisturbances
    BY InvParts DEF ClusterTypeOK
<1>2. /\ queue' = [queue EXCEPT ![c] = @ \ {o}] /\ work' = [work EXCEPT ![c] = w]
      /\ UNCHANGED <<live, cache, pend, budget>> /\ Active(p) /\ work[c] = Idle
    BY DEF Begin
<1>3. /\ DOMAIN queue' = Controllers /\ DOMAIN work' = Controllers
      /\ \A k \in Controllers : k # c => work'[k] = work[k] /\ queue'[k] = queue[k]
      /\ queue'[c] = queue[c] \ {o} /\ work'[c] = w
    BY <1>1, <1>2 DEF AllTyped
<1>4. p \in Body(o) /\ ~TargetMissing(p.spec)
    BY <1>1, <1>2, ParentTyped
<1>5. Typed(c)'
    <2>1. queue'[c] \subseteq For(c)
        BY <1>1, <1>3 DEF AllTyped, Typed
    <2>2. WorkOK(c)'
        BY <1>3, <1>4 DEF WorkOK, Patchers
    <2>3. c \notin Patchers => c = "compute-pdb"
        BY DEF Patchers
    <2>4. CopyOK(c)'
        BY <1>3, <2>3 DEF CopyOK
    <2> QED BY <2>1, <2>2, <2>4 DEF Typed
<1>6. ASSUME c \in Patchers, NEW k \in For(c), ToPatch(c, k), k \in queue[c] \/ Attended(c, k)
      PROVE  Covered(c, k)'
    <2>1. k \in queue[c]
        BY <1>2, <1>6 DEF Attended, Idle
    <2>2. CASE k # o
        BY <1>3, <2>1, <2>2 DEF Covered
    <2>3. CASE k = o
        BY <1>2, <1>3, <1>6, <2>3 DEF Covered, Attended
    <2> QED BY <2>2, <2>3
<1> QED BY <1>1, <1>2, <1>3, <1>5, <1>6, QuietCluster, OwnStep

----------------------------------------------------------------------------
(***************************************************************************)
(* A reconcile ends.                                                       *)
(***************************************************************************)
\* With an error: the key is queued, whatever else the step does to the store.
LEMMA RetryStep ==
    ASSUME TargetInv, NEW c \in Controllers, work[c].step # "idle", Retry(c),
           ClusterTypeOK', CacheInv', cache' = cache,
           \A y \in Objects : pend[y] \subseteq pend'[y]
    PROVE  TargetInv'
<1>1. AllTyped
    BY InvParts
<1>2. /\ DOMAIN queue' = Controllers /\ DOMAIN work' = Controllers
      /\ \A k \in Controllers : k # c => work'[k] = work[k] /\ queue'[k] = queue[k]
      /\ queue'[c] = queue[c] \cup {work[c].key}
      /\ Typed(c)'
    BY <1>1, RetryEffect
<1>3. \A o : o \in queue[c] \/ Attended(c, o) => Covered(c, o)'
    BY <1>2 DEF Covered, Attended
<1> QED BY <1>2, <1>3, OwnStep

\* Without one: the parent must not need the worker any more.
LEMMA DoneStep ==
    ASSUME TargetInv, NEW c \in Controllers, Done(c),
           ClusterTypeOK', CacheInv', cache' = cache,
           \A y \in Objects : pend[y] \subseteq pend'[y],
           c \in Patchers => \A o \in For(c) : ToPatch(c, o) /\ Attended(c, o) => Covered(c, o)'
    PROVE  TargetInv'
<1>1. AllTyped
    BY InvParts
<1>2. /\ DOMAIN queue' = Controllers /\ DOMAIN work' = Controllers
      /\ \A k \in Controllers : k # c => work'[k] = work[k]
      /\ \A k \in Controllers : queue'[k] = queue[k]
      /\ Typed(c)'
    BY <1>1, DoneEffect
<1>3. \A o : o \in queue[c] => Covered(c, o)'
    BY <1>2 DEF Covered
<1> QED BY <1>2, <1>3, OwnStep

\* A worker goes on to another step, with the same parent.
LEMMA MoveOn ==
    ASSUME AllTyped, NEW c \in Controllers, work[c].step # "idle", NEW step, NEW arg,
           queue' = queue,
           work' = [work EXCEPT ![c].step = step, ![c].arg = arg]
    PROVE  /\ DOMAIN queue' = Controllers /\ DOMAIN work' = Controllers
           /\ \A k \in Controllers : k # c => work'[k] = work[k]
           /\ work'[c] = [step |-> step, key |-> work[c].key, parent |-> work[c].parent,
                          arg |-> arg, base |-> work[c].base]
<1>1. work[c] = [step |-> work[c].step, key |-> work[c].key, parent |-> work[c].parent,
                 arg |-> work[c].arg, base |-> work[c].base]
    BY WorkerTyped DEF AllTyped, Typed
<1>2. DOMAIN work = Controllers /\ DOMAIN queue = Controllers
    BY DEF AllTyped
<1>3. work'[c] = [work[c] EXCEPT !.step = step, !.arg = arg]
    BY <1>2
<1> QED BY <1>1, <1>2, <1>3

----------------------------------------------------------------------------
(***************************************************************************)
(* A patcher reads the Deployment.                                         *)
(***************************************************************************)
LEMMA NothingToPatchStep ==
    ASSUME TargetInv, NEW c \in Controllers, NothingToPatch(c)
    PROVE  TargetInv'
<1>1. ClusterTypeOK /\ CacheInv /\ budget \in 0..MaxDisturbances
    BY InvParts DEF ClusterTypeOK
<1>2. /\ work[c].step = "target" /\ UNCHANGED <<live, cache, pend, budget>> /\ Done(c)
      /\ ~Patches(c, work[c].parent.spec, CachedTarget(c))
    BY DEF NothingToPatch, ReadingTarget
<1>3. \A o : ~(ToPatch(c, o) /\ Attended(c, o))
    BY <1>2 DEF ToPatch, Attended, CachedTarget
<1> QED BY <1>1, <1>2, <1>3, QuietCluster, DoneStep

LEMMA PatchMadeStep ==
    ASSUME TargetInv, NEW c \in Controllers, PatchMade(c)
    PROVE  TargetInv'
<1> DEFINE s == work[c].parent.spec
           o == work[c].key
           d == CachedTarget(c)
           m == Modified(c, o, s, d)
           w == [step |-> "patch", key |-> o, parent |-> work[c].parent,
                 arg |-> MergeFrom(d, m), base |-> work[c].base]
<1>1. ClusterTypeOK /\ CacheInv /\ AllTyped /\ budget \in 0..MaxDisturbances
    BY InvParts DEF ClusterTypeOK
<1>2. /\ c \in Patchers /\ work[c].step = "target" /\ UNCHANGED <<live, cache, pend, budget>>
      /\ Patches(c, s, d) /\ m # Failed /\ queue' = queue
      /\ work' = [work EXCEPT ![c].step = "patch", ![c].arg = MergeFrom(d, m)]
    BY DEF PatchMade, ReadingTarget
<1>3. /\ DOMAIN queue' = Controllers /\ DOMAIN work' = Controllers
      /\ \A k \in Controllers : k # c => work'[k] = work[k]
      /\ work'[c] = w
    BY <1>1, <1>2, MoveOn
<1>4. /\ o \in For(c) /\ o \in Objects /\ work[c].parent \in Body(o) /\ s \in Specs(o)
      /\ ~TargetMissing(s) /\ work[c].base \in Nat
    BY <1>1, <1>2, WorkerTyped DEF AllTyped, Typed
<1>5. Typed(c)'
    <2>1. queue'[c] \subseteq For(c)
        BY <1>1, <1>2 DEF AllTyped, Typed
    <2>2. WorkOK(c)'
        BY <1>2, <1>3, <1>4 DEF WorkOK, Patches
    <2>3. Aims(o, s, Deployment(o, s)) /\ d \in Specs(Deployment(o, s))
        BY <1>1, <1>2, <1>4, TargetTyped DEF ClusterTypeOK, Patches, CachedTarget
    <2>4. Addressed(c)' = Deployment(o, s)
        BY <1>2, <1>3 DEF Addressed, Patchers
    <2>5. CopyOK(c)'
        BY <1>2, <1>3, <2>3, <2>4 DEF CopyOK
    <2> QED BY <2>1, <2>2, <2>5 DEF Typed
<1>6. ASSUME NEW k, Attended(c, k) PROVE Attended(c, k)'
    <2>1. o = k /\ work[c].parent = cache[k].body
        BY <1>6 DEF Attended
    <2>2. d = TargetIn(cache, k, cache[k].body.spec)
        BY <2>1 DEF CachedTarget
    <2>3. TargetIn(cache, k, cache[k].body.spec)' = TargetIn(cache, k, cache[k].body.spec)
        BY <1>2 DEF TargetIn
    <2>4. cache'[k] = cache[k]
        BY <1>2
    <2> QED BY <1>2, <1>3, <2>1, <2>2, <2>3, <2>4 DEF Attended
<1>7. \A k \in For(c) : k \in queue[c] \/ Attended(c, k) => Covered(c, k)'
    BY <1>2, <1>6 DEF Covered
<1> QED BY <1>1, <1>2, <1>3, <1>5, <1>7, QuietCluster, OwnStep

----------------------------------------------------------------------------
(***************************************************************************)
(* compute-pdb reads the Deployment and the budget.                        *)
(***************************************************************************)
LEMMA SelectorReadStep ==
    ASSUME TargetInv, NEW c \in Controllers, SelectorRead(c)
    PROVE  TargetInv'
<1> DEFINE s == work[c].parent.spec
           o == work[c].key
           d == CachedTarget(c)
<1>1. ClusterTypeOK /\ CacheInv /\ AllTyped /\ budget \in 0..MaxDisturbances
    BY InvParts DEF ClusterTypeOK
<1>2. /\ queue' = queue /\ work[c].step = "target" /\ UNCHANGED <<live, cache, pend, budget>>
      /\ work' = [work EXCEPT ![c].step = "get", ![c].arg = d]
    BY DEF SelectorRead, ReadingTarget
<1>3. /\ DOMAIN queue' = Controllers /\ DOMAIN work' = Controllers
      /\ \A k \in Controllers : k # c => work'[k] = work[k]
      /\ work'[c] = [step |-> "get", key |-> o, parent |-> work[c].parent,
                     arg |-> d, base |-> work[c].base]
    BY <1>1, <1>2, MoveOn
<1>4. /\ o \in For(c) /\ work[c].parent \in Body(o) /\ s \in Specs(o)
      /\ ~TargetMissing(s) /\ work[c].base \in Nat
    BY <1>1, <1>2, WorkerTyped DEF AllTyped, Typed
<1>5. d \in Readable(o, s)
    BY <1>1, <1>4, TargetTyped DEF ClusterTypeOK, CachedTarget, Readable
<1>6. c \notin Patchers
    BY DEF SelectorRead, Patchers
<1>7. Typed(c)'
    <2>1. queue'[c] \subseteq For(c)
        BY <1>1, <1>2 DEF AllTyped, Typed
    <2>2. WorkOK(c)'
        BY <1>3, <1>4, <1>6 DEF WorkOK
    <2>3. CopyOK(c)'
        BY <1>3, <1>5 DEF CopyOK
    <2> QED BY <2>1, <2>2, <2>3 DEF Typed
<1> QED BY <1>1, <1>2, <1>3, <1>6, <1>7, QuietCluster, OwnStep

\* A request about the budget is prepared.
LEMMA SendStep ==
    ASSUME TargetInv, NEW c \in Controllers, work[c].step = "get",
           UNCHANGED <<live, cache, pend, budget>>,
           NEW step \in {"create", "update", "delete"}, NEW arg, Send(c, step, arg),
           step \in {"create", "update"} =>
              /\ HasPDB(work[c].parent.spec)
              /\ \E b \in Version(BudgetOf(work[c].key)) :
                    arg = Mutated(c, b.body) /\ ~MutationRefused(arg),
           step = "delete" => ~HasPDB(work[c].parent.spec)
    PROVE  TargetInv'
<1> DEFINE s == work[c].parent.spec
           o == work[c].key
           x == BudgetOf(o)
           v == cache[x].rv
<1>1. ClusterTypeOK /\ CacheInv /\ AllTyped /\ budget \in 0..MaxDisturbances
    BY InvParts DEF ClusterTypeOK
<1>2. /\ queue' = queue /\ work[c].step # "idle"
      /\ work' = [work EXCEPT ![c].step = step, ![c].arg = arg, ![c].base = v]
    BY DEF Send, CachedBudget
<1>3. /\ DOMAIN queue' = Controllers /\ DOMAIN work' = Controllers
      /\ \A k \in Controllers : k # c => work'[k] = work[k]
      /\ work'[c] = [step |-> step, key |-> o, parent |-> work[c].parent,
                     arg |-> arg, base |-> v]
    <2>1. work[c] = [step |-> work[c].step, key |-> o, parent |-> work[c].parent,
                     arg |-> work[c].arg, base |-> work[c].base]
        BY <1>1, <1>2, WorkerTyped DEF AllTyped, Typed
    <2>2. DOMAIN work = Controllers /\ DOMAIN queue = Controllers
        BY <1>1 DEF AllTyped
    <2>3. work'[c] = [work[c] EXCEPT !.step = step, !.arg = arg, !.base = v]
        BY <1>2, <2>2
    <2> QED BY <1>2, <2>1, <2>2, <2>3
<1>4. /\ o \in For(c) /\ work[c].parent \in Body(o) /\ s \in Specs(o)
      /\ ~TargetMissing(s) /\ c \notin Patchers
    BY <1>1, WorkerTyped DEF AllTyped, Typed
<1>5. c = "compute-pdb"
    BY <1>4 DEF Patchers
<1>6. x \in Objects
    BY <1>4, <1>5, TargetAssumptions DEF TargetsAssumption
<1>7. v \in Nat
    BY <1>1, <1>6, VersionsTyped
<1>8. step \in {"create", "update"} => Invalid(x, arg) \/ arg \in Specs(x)
    <2>1. SUFFICES ASSUME step \in {"create", "update"}
                   PROVE  Invalid(x, arg) \/ arg \in Specs(x)
        OBVIOUS
    <2>2. PICK b \in Version(x) : arg = Mutated(c, b.body) /\ ~MutationRefused(arg)
        BY <2>1
    <2>3. SpecOf(b.body) \in Specs(x) \cup {None}
        BY <2>2 DEF SpecOf, Version, Body
    <2>4. work[c].arg \in Readable(o, s)
        BY <1>1, <2>1 DEF AllTyped, Typed, CopyOK
    <2>5. arg = PDBRender(s, work[c].arg, SpecOf(b.body))
        BY <2>2 DEF Mutated
    <2>6. /\ "compute-pdb" \in Controllers /\ o \in For("compute-pdb")
          /\ s \in Specs(o) /\ ~TargetMissing(s) /\ HasPDB(s)
        BY <1>4, <1>5, <2>1
    <2> QED BY <2>2, <2>3, <2>4, <2>5, <2>6, TargetAssumptions DEF BudgetAssumption
<1>9. Typed(c)'
    <2>1. queue'[c] \subseteq For(c)
        BY <1>1, <1>2 DEF AllTyped, Typed
    <2>2. WorkOK(c)'
        BY <1>3, <1>4, <1>7 DEF WorkOK
    <2>3. step \in {"create", "update"} => Invalid(Addressed(c)', arg) \/ arg \in Specs(Addressed(c)')
        BY <1>3, <1>5, <1>8 DEF Addressed
    <2>4. CopyOK(c)'
        BY <1>3, <2>3 DEF CopyOK
    <2> QED BY <2>1, <2>2, <2>4 DEF Typed
<1> QED BY <1>1, <1>2, <1>3, <1>4, <1>9, QuietCluster, OwnStep

LEMMA BudgetStep ==
    ASSUME TargetInv, NEW c \in Controllers,
           NothingToDelete(c) \/ FoundToDelete(c) \/ MutateError(c)
             \/ FoundAbsent(c) \/ FoundEqual(c) \/ FoundDifferent(c)
    PROVE  TargetInv'
<1>1. ClusterTypeOK /\ CacheInv /\ AllTyped /\ budget \in 0..MaxDisturbances
    BY InvParts DEF ClusterTypeOK
<1>2. work[c].step = "get" /\ UNCHANGED <<live, cache, pend, budget>>
    BY DEF NothingToDelete, FoundToDelete, MutateError, FoundAbsent, FoundEqual, FoundDifferent,
       Found, ReadingBudget
<1>3. /\ ClusterTypeOK' /\ CacheInv' /\ cache' = cache
      /\ \A y \in Objects : pend[y] \subseteq pend'[y]
    BY <1>1, <1>2, QuietCluster
<1>4. /\ c \notin Patchers /\ work[c].key \in For(c) /\ work[c].parent.spec \in Specs(work[c].key)
      /\ ~TargetMissing(work[c].parent.spec)
    BY <1>1, <1>2, WorkerTyped DEF AllTyped, Typed
<1>5. CASE NothingToDelete(c) \/ FoundEqual(c)
    <2>1. Done(c)
        BY <1>5 DEF NothingToDelete, FoundEqual
    <2> QED BY <1>3, <1>4, <2>1, DoneStep
<1>6. CASE MutateError(c)
    <2>1. Retry(c)
        BY <1>6 DEF MutateError
    <2> QED BY <1>2, <1>3, <2>1, RetryStep
<1>7. CASE FoundToDelete(c)
    <2>1. Send(c, "delete", None) /\ ~HasPDB(work[c].parent.spec)
        BY <1>7 DEF FoundToDelete, ReadingBudget
    <2> QED BY <1>2, <2>1, SendStep
<1>8. cache[BudgetOf(work[c].key)] \in Version(BudgetOf(work[c].key))
    <2>1. BudgetOf(work[c].key) \in Objects
        BY <1>4, TargetAssumptions DEF TargetsAssumption, Patchers
    <2> QED BY <1>1, <2>1, VersionsTyped
<1>9. CASE FoundAbsent(c)
    <2>1. /\ HasPDB(work[c].parent.spec) /\ Send(c, "create", Mutated(c, None))
          /\ ~MutationRefused(Mutated(c, None)) /\ cache[BudgetOf(work[c].key)].body = None
        BY <1>9 DEF FoundAbsent, ReadingBudget, MutateFails, CachedBudget
    <2> QED BY <1>2, <1>8, <2>1, SendStep
<1>10. CASE FoundDifferent(c)
    <2> DEFINE b == cache[BudgetOf(work[c].key)].body
    <2>1. /\ HasPDB(work[c].parent.spec) /\ Send(c, "update", Mutated(c, b))
          /\ ~MutationRefused(Mutated(c, b))
        BY <1>10 DEF FoundDifferent, Found, ReadingBudget, MutateFails, CachedBudget
    <2> QED BY <1>2, <1>8, <2>1, SendStep
<1> QED BY <1>5, <1>6, <1>7, <1>9, <1>10

LEMMA ReadStep ==
    ASSUME TargetInv, NEW c \in Controllers, Read(c)
    PROVE  TargetInv'
<1>1. CASE HatchFails(c)
    <2>1. /\ work[c].step = "target" /\ Retry(c) /\ UNCHANGED <<live, cache, pend, budget>>
        BY <1>1 DEF HatchFails, ReadingTarget
    <2>2. ClusterTypeOK /\ CacheInv /\ budget \in 0..MaxDisturbances
        BY InvParts DEF ClusterTypeOK
    <2> QED BY <2>1, <2>2, QuietCluster, RetryStep
<1> QED BY <1>1, NothingToPatchStep, PatchMadeStep, SelectorReadStep, BudgetStep DEF Read
----------------------------------------------------------------------------
(***************************************************************************)
(* The API server's answer.                                                *)
(***************************************************************************)
LEMMA AddressedTyped ==
    ASSUME AllTyped, NEW c \in Controllers, work[c].step \in Calls
    PROVE  /\ Addressed(c) \in Objects
           /\ ParentRef(c) \in [obj : Objects, uid : Nat]
           /\ c \in Patchers <=> work[c].step = "patch"
           /\ c \in Patchers => Aims(work[c].key, work[c].parent.spec, Addressed(c))
<1>1. /\ WorkOK(c) /\ CopyOK(c) /\ work[c].step # "idle"
    BY DEF AllTyped, Typed, Calls
<1>2. /\ work[c].key \in For(c) /\ work[c].key \in Objects
      /\ work[c].parent.spec \in Specs(work[c].key) /\ work[c].parent.uid \in Nat
      /\ ~TargetMissing(work[c].parent.spec)
      /\ work[c].step \in IF c \in Patchers THEN {"target", "patch"}
                          ELSE {"target", "get", "create", "update", "delete"}
    BY <1>1, WorkerTyped
<1>3. c \in Patchers <=> work[c].step = "patch"
    BY <1>2 DEF Calls
<1>4. ParentRef(c) \in [obj : Objects, uid : Nat]
    BY <1>2 DEF ParentRef, Ref
<1>5. CASE c \in Patchers
    <2>1. Aims(work[c].key, work[c].parent.spec, Addressed(c))
        BY <1>1, <1>3, <1>5 DEF CopyOK
    <2>2. Addressed(c) \in Objects
        BY <1>2, <2>1, TargetAssumptions DEF TargetsAssumption, Aims
    <2> QED BY <1>3, <1>4, <2>1, <2>2
<1>6. CASE c \notin Patchers
    <2>1. c = "compute-pdb"
        BY <1>6 DEF Patchers
    <2>2. Addressed(c) \in Objects
        BY <1>2, <2>1, TargetAssumptions DEF TargetsAssumption, Addressed
    <2> QED BY <1>3, <1>4, <1>6, <2>2
<1> QED BY <1>5, <1>6

\* What is stored has its type: for a patch, though it was made of another
\* version of the Deployment.
LEMMA RequestedTyped ==
    ASSUME TargetInv, NEW c \in Controllers, Accepted(c)
    PROVE  Requested(c) \in Body(Addressed(c)) \cup {None}
<1> DEFINE x == Addressed(c)
           v == live[x]
           s == work[c].parent.spec
           o == work[c].key
<1>1. /\ ClusterTypeOK /\ AllTyped /\ work[c].step \in Calls /\ CopyOK(c)
      /\ WorkOK(c) /\ work[c].step # "idle"
    BY InvParts DEF Accepted, AllTyped, Typed, Calls
<1>2. x \in Objects /\ ParentRef(c) \in [obj : Objects, uid : Nat]
    BY <1>1, AddressedTyped
<1>3. v \in Version(x) /\ v.rv \in Nat
    BY <1>1, <1>2, VersionsTyped
<1>4. CASE work[c].step = "create"
    <2>1. Requested(c) = [spec |-> work[c].arg, owner |-> ParentRef(c), uid |-> v.rv + 1]
        BY <1>4 DEF Requested
    <2>2. ~Invalid(x, work[c].arg)
        BY <1>4, <2>1 DEF Accepted
    <2>3. work[c].arg \in Specs(x)
        BY <1>1, <1>4, <2>2 DEF CopyOK
    <2> QED BY <1>2, <1>3, <2>1, <2>3 DEF Body
<1>5. CASE work[c].step = "update"
    <2>1. Requested(c) = [spec |-> work[c].arg, owner |-> ParentRef(c), uid |-> v.body.uid]
        BY <1>5 DEF Requested
    <2>2. ~Invalid(x, work[c].arg) /\ v.body # None
        BY <1>5, <2>1 DEF Accepted
    <2>3. work[c].arg \in Specs(x)
        BY <1>1, <1>5, <2>2 DEF CopyOK
    <2>4. v.body.uid \in Nat
        BY <1>3, <2>2 DEF Version, Body
    <2> QED BY <1>2, <2>1, <2>3, <2>4 DEF Body
<1>6. CASE work[c].step = "patch"
    <2> DEFINE n == JSONMergePatch(v.body.spec, work[c].arg)
    <2>1. v.body # None
        BY <1>6 DEF Accepted
    <2>2. v.body \in Body(x) /\ v.body.spec \in Specs(x)
        BY <1>3, <2>1 DEF Version, Body
    <2>3. Requested(c) = [v.body EXCEPT !.spec = n]
        BY <1>6 DEF Requested
    <2>4. Requested(c).spec = n
        BY <2>2, <2>3 DEF Body
    <2>5. ~Invalid(x, n) /\ ~Immutable(x, v.body.spec, n)
        BY <1>6, <2>4 DEF Accepted
    <2>6. PICK d \in Specs(x) :
              /\ Patches(c, s, d)
              /\ Modified(c, o, s, d) # Failed
              /\ work[c].arg = MergeFrom(d, Modified(c, o, s, d))
        BY <1>1, <1>6 DEF CopyOK
    <2>7. c \in Patchers /\ o \in For(c) /\ s \in Specs(o) /\ Aims(o, s, x)
        BY <1>1, <1>6, AddressedTyped, WorkerTyped
    <2>8. n \in Specs(x)
        BY <1>2, <2>2, <2>5, <2>6, <2>7, TargetAssumptions DEF PatchAssumption
    <2> QED BY <2>2, <2>3, <2>8 DEF Body
<1>7. CASE work[c].step = "delete"
    BY <1>7 DEF Requested
<1> QED BY <1>1, <1>4, <1>5, <1>6, <1>7 DEF Calls

LEMMA ApplyKeeps ==
    ASSUME TargetInv, NEW c \in Controllers, Apply(c), cache' = cache,
           budget' \in 0..MaxDisturbances
    PROVE  /\ ClusterTypeOK' /\ CacheInv'
           /\ \A y \in Objects : pend[y] \subseteq pend'[y]
           /\ \/ UNCHANGED <<live, pend>> /\ Requested(c) = live[Addressed(c)].body
              \/ pend'[Addressed(c)] # {}
<1>1. ClusterTypeOK /\ CacheInv /\ AllTyped /\ TypedVersions(live) /\ PendTyped
    BY InvParts, ClusterTypeParts
<1>2. Addressed(c) \in Objects /\ Requested(c) \in Body(Addressed(c)) \cup {None}
    BY <1>1, AddressedTyped, RequestedTyped DEF Apply, Accepted
<1>3. CASE Requested(c) = live[Addressed(c)].body
    <2>1. UNCHANGED <<live, pend>>
        BY <1>3 DEF Apply
    <2> QED BY <1>1, <1>3, <2>1, QuietCluster
<1>4. CASE Requested(c) # live[Addressed(c)].body
    <2>1. Write(Addressed(c), Requested(c))
        BY <1>4 DEF Apply
    <2> QED BY <1>1, <1>2, <2>1, WriteKeeps, WriteEffect
<1> QED BY <1>3, <1>4

\* Hatches leave the fields that a controller assigns, but for those they set.
LEMMA ModifiedExtends ==
    ASSUME NEW c \in Patchers, NEW o \in For(c), NEW s \in Specs(o), NEW d,
           Modified(c, o, s, d) # Failed
    PROVE  Extends(Modified(c, o, s, d), Assigned(c, o, s, d),
                   Hatched(s.escapeHatches, "Deployment"))
<1>1. IsObject(Scheduled(s, d))
    BY DEF IsObject, Scheduled
<1>2. IsObject(Mounted(o, s, d))
    BY DEF IsObject, Mounted
<1>3. IsObject(Assigned(c, o, s, d))
    BY <1>1, <1>2 DEF Assigned
<1>4. IsHatches(s.escapeHatches)
    BY TargetAssumptions DEF ListsAssumption, Patchers
<1> QED BY <1>3, <1>4, HatchesExtend DEF Modified

\* A Deployment as modified is an object.
LEMMA ModifiedObject ==
    ASSUME NEW c \in Patchers, NEW o \in For(c), NEW s \in Specs(o), NEW d,
           Modified(c, o, s, d) # Failed
    PROVE  Modified(c, o, s, d) = [f \in DOMAIN Modified(c, o, s, d) |-> Modified(c, o, s, d)[f]]
BY ModifiedExtends DEF Extends, Within, IsObject

\* A patch that went through leaves nothing to do, or an event that says more.
LEMMA PatchCovers ==
    ASSUME TargetInv, NEW c \in Patchers, NEW o \in For(c), Apply(c), cache' = cache,
           budget' \in 0..MaxDisturbances, ToPatch(c, o), Attended(c, o)
    PROVE  Covered(c, o)'
<1> DEFINE s == cache[o].body.spec
           x == Deployment(o, s)
           d == TargetIn(cache, o, s)
           m == Modified(c, o, s, d)
<1>1. c \in Controllers /\ ClusterTypeOK /\ CacheInv /\ AllTyped
    BY InvParts DEF Patchers
<1>2. Active(cache[o].body) /\ Patches(c, s, d)
    BY DEF ToPatch
<1>3. s \in Specs(o) /\ ~TargetMissing(s)
    BY <1>1, <1>2, ParentTyped
<1>4. /\ x \in Objects /\ Aims(o, s, x)
      /\ d = cache[x].body.spec /\ d \in Specs(x)
    BY <1>1, <1>2, <1>3, TargetTyped DEF ClusterTypeOK, Patches
<1>5. work[c].step = "patch"
    BY <1>1, AddressedTyped DEF Apply, Accepted
<1>6. work[c].key = o /\ work[c].parent = cache[o].body /\ m # Failed /\ work[c].arg = MergeFrom(d, m)
    BY <1>5 DEF Attended
<1>7. Addressed(c) = x
    BY <1>6 DEF Addressed, Patchers
<1>8. CASE pend'[x] # {}
    BY <1>8 DEF Covered
<1>9. CASE pend'[x] = {}
    <2>1. UNCHANGED <<live, pend>> /\ Requested(c) = live[x].body
        BY <1>1, <1>7, <1>9, ApplyKeeps
    <2>2. cache[x] = live[x]
        BY <1>1, <1>4, <1>9, <2>1 DEF CacheInv, CacheOK
    <2>3. live[x].body # None
        BY <1>5, <1>7 DEF Apply, Accepted
    <2>4. live[x].body \in Body(x)
        BY <1>1, <1>4, <2>3, VersionsTyped DEF Version
    <2>5. [live[x].body EXCEPT !.spec = JSONMergePatch(d, MergeFrom(d, m))] = live[x].body
        BY <1>4, <1>5, <1>6, <1>7, <2>1, <2>2 DEF Requested
    <2>6. JSONMergePatch(d, MergeFrom(d, m)) = d
        BY <1>4, <2>2, <2>4, <2>5 DEF Body
    <2>7. m = [f \in DOMAIN m |-> m[f]]
        <3> HIDE DEF s, x, d
        <3> QED BY <1>2, <1>3, <1>4, <1>6, ModifiedObject
    <2>8. m = d
        BY <2>6, <2>7, MergeYields
    <2>9. TargetIn(cache, o, s)' = d
        BY DEF TargetIn
    <2> QED BY <2>8, <2>9 DEF Covered
<1> QED BY <1>8, <1>9

LEMMA AnswerStep ==
    ASSUME TargetInv, NEW c \in Controllers, Answer(c) \/ RequestLost(c) \/ AnswerLost(c)
    PROVE  TargetInv'
<1>1. ClusterTypeOK /\ CacheInv /\ AllTyped /\ budget \in 0..MaxDisturbances
    BY InvParts DEF ClusterTypeOK
<1>2. /\ work[c].step \in Calls /\ work[c].step # "idle"
      /\ cache' = cache /\ budget' \in 0..MaxDisturbances
    BY <1>1, BudgetTyped DEF Answer, CallSucceeds, CallRefused, RequestLost, AnswerLost, Apply,
       Accepted, Calls
<1>3. CASE CallRefused(c) \/ RequestLost(c)
    <2>1. Retry(c) /\ UNCHANGED <<live, cache, pend>>
        BY <1>3 DEF CallRefused, RequestLost
    <2> QED BY <1>1, <1>2, <2>1, QuietCluster, RetryStep
<1>4. CASE AnswerLost(c)
    <2>1. Retry(c) /\ Apply(c)
        BY <1>4 DEF AnswerLost
    <2> QED BY <1>2, <2>1, ApplyKeeps, RetryStep
<1>5. CASE CallSucceeds(c)
    <2>1. Done(c) /\ Apply(c)
        BY <1>5 DEF CallSucceeds
    <2> QED BY <1>2, <2>1, ApplyKeeps, PatchCovers, DoneStep
<1> QED BY <1>3, <1>4, <1>5 DEF Answer
----------------------------------------------------------------------------
(***************************************************************************)
(* Users, the garbage collector, the watch and restarts.                   *)
(***************************************************************************)
LEMMA SameAllTyped ==
    ASSUME AllTyped, DOMAIN queue' = Controllers, work' = work,
           \A c \in Controllers : queue'[c] \subseteq For(c)
    PROVE  AllTyped'
BY SameTyped DEF AllTyped

LEMMA OutsideStep ==
    ASSUME TargetInv, NEW x \in Objects, GarbageCollect(x) \/ User(x)
    PROVE  TargetInv'
<1>1. /\ ClusterTypeOK /\ CacheInv /\ AllTyped /\ WakeInv
      /\ TypedVersions(live) /\ PendTyped /\ queue' = queue /\ work' = work
    BY InvParts, ClusterTypeParts DEF GarbageCollect, User
<1>2. /\ cache' = cache /\ budget' \in 0..MaxDisturbances
      /\ \E b \in Body(x) \cup {None} : Write(x, b)
    BY <1>1, CollectWrites, UserWrites DEF GarbageCollect, User
<1>3. ClusterTypeOK' /\ CacheInv' /\ \A y \in Objects : pend[y] \subseteq pend'[y]
    BY <1>1, <1>2, WriteKeeps, WriteEffect
<1>4. AllTyped'
    BY <1>1, SameAllTyped DEF AllTyped, Typed
<1>5. \A c \in Patchers : \A o \in For(c) : o \in queue[c] \/ Attended(c, o) => Covered(c, o)'
    BY <1>1, <1>2 DEF Covered, Attended, TargetIn
<1>6. WakeInv'
    BY <1>1, <1>2, <1>3, <1>5, WakeKept
<1> QED BY <1>3, <1>4, <1>6 DEF TargetInv, TypeOK, AllTyped, Typed

LEMMA DeliverStep ==
    ASSUME TargetInv, NEW x \in Objects, Deliver(x)
    PROVE  TargetInv'
<1>1. ClusterTypeOK /\ CacheInv /\ AllTyped /\ WakeInv
    BY InvParts
<1>2. PICK e \in pend[x] :
          /\ Receive(x, e) /\ work' = work
          /\ queue' = [c \in Controllers |-> queue[c] \cup Woken(c, x, cache[x].body, e.body)]
    BY DEF Deliver
<1>3. /\ ClusterTypeOK' /\ CacheInv'
      /\ \A y \in Objects : y # x => pend'[y] = pend[y] /\ cache'[y] = cache[y]
    BY <1>1, <1>2, ReceiveEffect
<1>4. AllTyped'
    <2>1. \A c \in Controllers : queue'[c] \subseteq For(c)
        BY <1>1, <1>2 DEF AllTyped, Typed, Woken
    <2> QED BY <1>1, <1>2, <2>1, SameAllTyped
<1>5. WakeInv'
    <2>1. SUFFICES ASSUME NEW c \in Patchers, NEW o \in For(c), ToPatch(c, o)', o \notin queue'[c]
                   PROVE  Covered(c, o)'
        BY DEF WakeInv, Covered
    <2> DEFINE s == cache[o].body.spec
               y == Deployment(o, s)
    <2>2. c \in Controllers /\ o \in Objects
        BY ForTyped DEF Patchers
    <2>3. o \notin queue[c] /\ o \notin Woken(c, x, cache[x].body, e.body)
        BY <1>2, <2>1, <2>2
    <2>4. o # x
        BY <2>3 DEF Woken
    <2>5. cache'[o] = cache[o]
        BY <1>3, <2>2, <2>4
    <2>6. /\ Active(cache[o].body) /\ s.targetRef.kind = "Deployment"
        BY <2>1, <2>5 DEF ToPatch, Patches, TargetIn
    <2>7. y \in Objects /\ y.kind = "Deployment"
        BY <1>1, <2>2, <2>6, ParentTyped
    <2>8. y # x
        BY <2>3, <2>6, <2>7 DEF Woken, Targets, Active
    <2>9. cache'[y] = cache[y] /\ pend'[y] = pend[y]
        BY <1>3, <2>7, <2>8
    <2>10. TargetIn(cache, o, s)' = TargetIn(cache, o, s)
        BY <2>5, <2>9 DEF TargetIn
    <2>11. ToPatch(c, o)
        BY <2>1, <2>5, <2>10 DEF ToPatch
    <2>12. Covered(c, o)
        BY <1>1, <2>11 DEF WakeInv
    <2>13. Attended(c, o) => Attended(c, o)'
        BY <1>2, <2>5, <2>10 DEF Attended
    <2> QED BY <2>3, <2>5, <2>9, <2>10, <2>12, <2>13 DEF Covered
<1> QED BY <1>3, <1>4, <1>5 DEF TargetInv, TypeOK, AllTyped, Typed

\* Every parent that a list finds is queued.
LEMMA ListedCovers ==
    ASSUME NEW c, NEW o \in For(c), Active(live[o].body)
    PROVE  o \in Listed(c, live)
BY DEF Listed, Active

LEMMA RestartStep ==
    ASSUME TargetInv, Restart
    PROVE  TargetInv'
<1>1. ClusterTypeOK' /\ CacheInv' /\ cache' = live
    BY InvParts, RelistEffect DEF Restart
<1>2. /\ queue' = [c \in Controllers |-> Listed(c, live)]
      /\ work' = [c \in Controllers |-> Idle]
    BY DEF Restart
<1>3. AllTyped'
    <2>1. \A c \in Controllers : work'[c] = Idle /\ queue'[c] \subseteq For(c)
        BY <1>2 DEF Listed
    <2> QED BY <1>2, <2>1, IdleTyped DEF AllTyped
<1>4. WakeInv'
    BY <1>1, <1>2, ListedCovers DEF WakeInv, ToPatch, Covered, Patchers
<1> QED BY <1>1, <1>3, <1>4 DEF TargetInv, TypeOK, AllTyped, Typed

----------------------------------------------------------------------------
LEMMA TargetStart == Init => TargetInv
<1> SUFFICES ASSUME Init PROVE TargetInv
    OBVIOUS
<1>1. /\ ClusterTypeOK /\ CacheInv /\ cache = live
      /\ queue = [c \in Controllers |-> Listed(c, live)]
      /\ work = [c \in Controllers |-> Idle]
    BY ClusterStart DEF Init, ClusterInit
<1>2. ASSUME NEW c \in Controllers PROVE Typed(c)
    <2>1. work[c] = Idle /\ queue[c] \subseteq For(c)
        BY <1>1 DEF Listed
    <2> QED BY <2>1 DEF Typed, WorkOK, CopyOK, Idle
<1>3. WakeInv
    BY <1>1, ListedCovers DEF WakeInv, ToPatch, Covered, Patchers
<1> QED BY <1>1, <1>2, <1>3, InvParts DEF AllTyped

LEMMA TargetStep == TargetInv /\ [Next]_vars => TargetInv'
<1> SUFFICES ASSUME TargetInv, [Next]_vars PROVE TargetInv'
    OBVIOUS
<1>1. ASSUME NEW c \in Controllers, NEW o \in For(c), Skipped(c, o) \/ Begin(c, o)
      PROVE  TargetInv'
    BY <1>1, SkippedStep, BeginStep
<1>2. ASSUME NEW c \in Controllers, Read(c) \/ Answer(c) \/ RequestLost(c) \/ AnswerLost(c)
      PROVE  TargetInv'
    BY <1>2, ReadStep, AnswerStep
<1>3. ASSUME NEW x \in Objects, Deliver(x) \/ GarbageCollect(x) \/ User(x)
      PROVE  TargetInv'
    BY <1>3, DeliverStep, OutsideStep
<1>4. CASE Restart
    BY <1>4, RestartStep
<1>5. CASE UNCHANGED vars
    <2>1. ClusterTypeOK /\ CacheInv /\ AllTyped /\ WakeInv /\ budget \in 0..MaxDisturbances
        BY InvParts DEF ClusterTypeOK
    <2>2. UNCHANGED <<live, cache, pend, budget>> /\ queue' = queue /\ work' = work
        BY <1>5 DEF vars
    <2>3. AllTyped'
        BY <2>1, <2>2, SameAllTyped DEF AllTyped, Typed
    <2>4. /\ ClusterTypeOK' /\ CacheInv' /\ cache' = cache
          /\ \A y \in Objects : pend[y] \subseteq pend'[y]
        BY <2>1, <2>2, QuietCluster
    <2>5. \A c \in Patchers : \A o \in For(c) : o \in queue[c] \/ Attended(c, o) => Covered(c, o)'
        BY <2>2 DEF Covered, Attended, TargetIn
    <2>6. WakeInv'
        BY <2>1, <2>4, <2>5, WakeKept
    <2> QED BY <2>3, <2>4, <2>6 DEF TargetInv, TypeOK, AllTyped, Typed
<1> QED BY <1>1, <1>2, <1>3, <1>4, <1>5 DEF Next

(***************************************************************************)
(* The three controllers keep every variable in its type: what a patch     *)
(* makes of a Deployment it was not computed from included.                *)
(***************************************************************************)
THEOREM TargetTypes == Spec => []TypeOK
<1>1. TargetInv => TypeOK
    BY DEF TargetInv
<1> QED BY <1>1, TargetStart, TargetStep, PTL DEF Spec

\* Nothing that is at rest has anything left to do.
LEMMA InvCarries == TargetInv => NoPatchLost
<1> SUFFICES ASSUME TargetInv, NEW c \in Patchers, NEW o \in For(c), AtRest(c, o),
                    Active(live[o].body),
                    Patches(c, live[o].body.spec, TargetIn(live, o, live[o].body.spec))
             PROVE  Modified(c, o, live[o].body.spec, TargetIn(live, o, live[o].body.spec))
                      = TargetIn(live, o, live[o].body.spec)
    BY DEF NoPatchLost, Carried
<1> DEFINE s == live[o].body.spec
           x == Deployment(o, s)
<1>1. ClusterTypeOK /\ CacheInv /\ c \in Controllers /\ o \in Objects
    BY InvParts, ForTyped DEF Patchers
<1>2. s.targetRef.kind = "Deployment"
    BY DEF Patches, TargetIn
<1>3. o \notin queue[c] /\ work[c].key # o /\ pend[o] = {} /\ pend[x] = {}
    BY <1>2 DEF AtRest
<1>4. cache[o] = live[o]
    BY <1>1, <1>3 DEF CacheInv, CacheOK
<1>5. x \in Objects
    BY <1>1, <1>2, <1>4, ParentTyped
<1>6. cache[x] = live[x]
    BY <1>1, <1>3, <1>5 DEF CacheInv, CacheOK
<1>7. TargetIn(cache, o, s) = TargetIn(live, o, s)
    BY <1>6 DEF TargetIn
<1>8. ToPatch(c, o)
    BY <1>4, <1>7 DEF ToPatch
<1>9. Covered(c, o)
    BY <1>8 DEF TargetInv, WakeInv
<1> QED BY <1>3, <1>4, <1>7, <1>9 DEF Covered, Attended

(***************************************************************************)
(* No patch is lost: a patcher at rest leaves nothing undone on the        *)
(* Deployment, however old the copies were that the patches came from.     *)
(***************************************************************************)
THEOREM PatchesRemembered == Spec => []NoPatchLost
BY InvCarries, TargetStart, TargetStep, PTL DEF Spec

\* A Deployment that a reconcile would leave as it is has what it assigns.
LEMMA CarriedAssigned ==
    ASSUME NEW c \in Patchers, NEW o \in For(c), NEW s \in Specs(o), NEW x \in Objects,
           x.kind = "Deployment", NEW d \in Specs(x), Modified(c, o, s, d) = d,
           Hatched(s.escapeHatches, "Deployment") = {}
    PROVE  \A f \in DOMAIN Assigned(c, o, s, d) :
               f \in DOMAIN d /\ d[f] = Assigned(c, o, s, d)[f]
<1> DEFINE a == Assigned(c, o, s, d)
<1>1. d # Failed
    <2>1. "volumes" \in DOMAIN d
        BY TargetAssumptions DEF DeploymentAssumption
    <2>2. DOMAIN Failed = {"error"}
        BY DEF Failed
    <2> QED BY <2>1, <2>2
<1>2. Extends(d, a, {})
    BY <1>1, ModifiedExtends
<1> QED BY <1>2 DEF Extends, Within

LEMMA SchedulingAsked ==
    ASSUME NEW o, NEW s, NEW d,
           \A f \in DOMAIN Scheduled(s, d) : f \in DOMAIN d /\ d[f] = Scheduled(s, d)[f]
    PROVE  \A f \in DOMAIN s.scheduling : f \in DOMAIN d /\ d[f] = s.scheduling[f]
BY DEF Scheduled

LEMMA VolumesAsked ==
    ASSUME NEW o, NEW s, Len(s.volumes) \in Nat, NEW d,
           {"volumes", "containers"} \subseteq DOMAIN d,
           d.containers # <<>> =>
               1 \in DOMAIN d.containers /\ "mounts" \in DOMAIN d.containers[1],
           \A f \in DOMAIN Mounted(o, s, d) : f \in DOMAIN d /\ d[f] = Mounted(o, s, d)[f],
           NEW i \in 1..Len(s.volumes),
           \A j \in i + 1..Len(s.volumes) : s.volumes[j].name # s.volumes[i].name
    PROVE  VolumeAsAsked(o, s.volumes[i], d)
<1> DEFINE vol == s.volumes[i]
           sources == VolumeSources(o, s)
           mounts == VolumeMounts(s)
<1>1. /\ Len(sources) = Len(s.volumes)
      /\ \A j \in 1..Len(s.volumes) :
            /\ sources[j].name = s.volumes[j].name
            /\ sources[j].value = [claim |-> ClaimName(o, s.volumes[j])]
    BY DEF VolumeSources
<1>2. /\ Len(mounts) = Len(s.volumes)
      /\ \A j \in 1..Len(s.volumes) :
            /\ mounts[j].name = s.volumes[j].name
            /\ mounts[j].value = s.volumes[j].mountPath
    BY DEF VolumeMounts
<1> HIDE DEF sources, mounts
<1>3. /\ vol.name \in DOMAIN SetAll(d.volumes, sources)
      /\ SetAll(d.volumes, sources)[vol.name] = [claim |-> ClaimName(o, vol)]
    <2>1. i \in 1..Len(sources) /\ Len(sources) \in Nat
        BY <1>1
    <2>2. \A j \in i + 1..Len(sources) : sources[j].name # sources[i].name
        <3> TAKE j \in i + 1..Len(sources)
        <3>1. j \in i + 1..Len(s.volumes) /\ j \in 1..Len(s.volumes)
            BY <1>1
        <3>2. s.volumes[j].name # s.volumes[i].name
            BY <3>1
        <3> QED BY <1>1, <3>1, <3>2
    <2>3. /\ sources[i].name \in DOMAIN SetAll(d.volumes, sources)
          /\ SetAll(d.volumes, sources)[sources[i].name] = sources[i].value
        BY <2>1, <2>2, SetAllYields
    <2> QED BY <1>1, <2>3
<1>4. ASSUME NEW old
      PROVE  /\ vol.name \in DOMAIN SetAll(old, mounts)
             /\ SetAll(old, mounts)[vol.name] = vol.mountPath
    <2>1. i \in 1..Len(mounts) /\ Len(mounts) \in Nat
        BY <1>2
    <2>2. \A j \in i + 1..Len(mounts) : mounts[j].name # mounts[i].name
        <3> TAKE j \in i + 1..Len(mounts)
        <3>1. j \in i + 1..Len(s.volumes) /\ j \in 1..Len(s.volumes)
            BY <1>2
        <3>2. s.volumes[j].name # s.volumes[i].name
            BY <3>1
        <3> QED BY <1>2, <3>1, <3>2
    <2>3. /\ mounts[i].name \in DOMAIN SetAll(old, mounts)
          /\ SetAll(old, mounts)[mounts[i].name] = mounts[i].value
        BY <2>1, <2>2, SetAllYields
    <2> QED BY <1>2, <2>3
<1>5. d.volumes = SetAll(d.volumes, sources)
    BY DEF Mounted, sources
<1>6. ASSUME d.containers # <<>>
      PROVE  d.containers[1].mounts = SetAll(d.containers[1].mounts, mounts)
    <2> DEFINE first == [d.containers[1] EXCEPT !.mounts = SetAll(@, mounts)]
    <2>1. "containers" \in DOMAIN Mounted(o, s, d)
        BY DEF Mounted
    <2>2. Mounted(o, s, d).containers = [d.containers EXCEPT ![1] = first]
        BY <1>6 DEF Mounted, mounts
    <2>3. d.containers = [d.containers EXCEPT ![1] = first]
        BY <2>1, <2>2
    <2>4. d.containers[1] = first
        <3> HIDE DEF first
        <3> QED BY <1>6, <2>3
    <2>5. first.mounts = SetAll(d.containers[1].mounts, mounts)
        BY <1>6
    <2> QED BY <2>4, <2>5
<1> QED BY <1>3, <1>4, <1>5, <1>6 DEF VolumeAsAsked

LEMMA RestsAsAsked == TargetInv => DeploymentAsAsked
<1> SUFFICES ASSUME TargetInv, NEW c \in Patchers, NEW o \in For(c), AtRest(c, o),
                    Active(live[o].body),
                    Patches(c, live[o].body.spec, TargetIn(live, o, live[o].body.spec)),
                    Hatched(live[o].body.spec.escapeHatches, "Deployment") = {}
             PROVE  AsAsked(c, o, live[o].body.spec, TargetIn(live, o, live[o].body.spec))
    BY DEF DeploymentAsAsked
<1> DEFINE s == live[o].body.spec
           x == Deployment(o, s)
           d == TargetIn(live, o, s)
           a == Assigned(c, o, s, d)
<1>1. ClusterTypeOK /\ TypedVersions(live) /\ c \in Controllers /\ o \in Objects
    BY InvParts, ForTyped, ClusterTypeParts DEF Patchers
<1>2. s \in Specs(o) /\ ~TargetMissing(s)
    BY <1>1, VersionsTyped DEF Active, Version, Body
<1>3. x \in Objects /\ x.kind = "Deployment" /\ d \in Specs(x)
    <2>1. d # None
        BY DEF Patches
    <2>2. x \in Objects /\ d \in Specs(x)
        BY <1>1, <1>2, <2>1, TargetTyped
    <2> QED BY <2>2 DEF Deployment, Object
<1>4. Modified(c, o, s, d) = d
    BY InvCarries DEF NoPatchLost, Carried
<1> HIDE DEF s, x, d
<1>5. \A f \in DOMAIN a : f \in DOMAIN d /\ d[f] = a[f]
    BY <1>2, <1>3, <1>4, CarriedAssigned DEF s
<1>6. CASE c = "compute-deployment"
    <2>1. a = Scheduled(s, d)
        BY <1>6 DEF Assigned
    <2>2. \A f \in DOMAIN s.scheduling : f \in DOMAIN d /\ d[f] = s.scheduling[f]
        <3> HIDE DEF a
        <3> QED BY <1>5, <2>1, SchedulingAsked
    <2> QED BY <1>6, <2>2 DEF AsAsked, s, d
<1>7. CASE c # "compute-deployment"
    <2>1. a = Mounted(o, s, d)
        BY <1>7 DEF Assigned
    <2>2. c = "storage-deployment"
        BY <1>1, <1>7, ControllersAssumption DEF Patchers
    <2>3. Len(s.volumes) \in Nat
        BY <1>1, <1>2, <2>2, TargetAssumptions DEF ListsAssumption
    <2>4. /\ {"volumes", "containers"} \subseteq DOMAIN d
          /\ d.containers # <<>> =>
                1 \in DOMAIN d.containers /\ "mounts" \in DOMAIN d.containers[1]
        BY <1>3, TargetAssumptions DEF DeploymentAssumption
    <2>5. \A f \in DOMAIN Mounted(o, s, d) : f \in DOMAIN d /\ d[f] = Mounted(o, s, d)[f]
        BY <1>5, <2>1
    <2>6. ASSUME NEW i \in 1..Len(s.volumes),
                 \A j \in i + 1..Len(s.volumes) : s.volumes[j].name # s.volumes[i].name
          PROVE  VolumeAsAsked(o, s.volumes[i], d)
        <3> HIDE DEF a
        <3> QED BY <2>3, <2>4, <2>5, <2>6, VolumesAsked
    <2> QED BY <1>7, <2>6 DEF AsAsked, s, d
<1> QED BY <1>6, <1>7

(***************************************************************************)
(* A Deployment at rest has what its Compute and its Storage ask for, as   *)
(* long as no hatch sets it too: compute-deployment's scheduling, field by *)
(* field, and storage-deployment's volumes with their claims and mounts.   *)
(***************************************************************************)
THEOREM DeploymentsAreAsAsked == Spec => []DeploymentAsAsked
BY RestsAsAsked, TargetStart, TargetStep, PTL DEF Spec

\* A patch is made of leaves that its controller assigns.
LEMMA ModifiedApart ==
    ASSUME NEW c \in Patchers, NEW o \in For(c), NEW s \in Specs(o), NEW x \in Objects,
           Aims(o, s, x), NEW d \in Specs(x), Patches(c, s, d), Modified(c, o, s, d) # Failed
    PROVE  Kept(Modified(c, o, s, d), Assigns(c)) = Kept(d, Assigns(c))
<1> DEFINE m == Modified(c, o, s, d)
           a == Assigned(c, o, s, d)
<1>1. Hatched(s.escapeHatches, "Deployment") \subseteq Assigns(c)
    BY ApartAssumptions DEF HatchesAssumption
<1>2. Extends(m, a, Hatched(s.escapeHatches, "Deployment"))
    BY ModifiedExtends
<1> HIDE DEF m, a
<1>3. /\ DOMAIN m \ Assigns(c) = DOMAIN a \ Assigns(c)
      /\ \A f \in DOMAIN m \ Assigns(c) : m[f] = a[f]
    BY <1>1, <1>2 DEF Extends, Within
<1>4. Kept(m, Assigns(c)) = Kept(a, Assigns(c))
    BY <1>3 DEF Kept
<1> QED BY <1>4, ForTyped, AssignedApart DEF m, a

\* A request that is carried out is the only one of the step.
LEMMA OneWrites ==
    ASSUME AllTyped, [Next]_vars, NEW c \in Controllers, work'[c] # work[c], live' # live
    PROVE  Apply(c)
<1>1. ASSUME NEW k \in Controllers, Apply(k), Done(k) \/ Retry(k)
      PROVE  Apply(c)
    <2>1. work' = [work EXCEPT ![k] = Idle]
        BY <1>1 DEF Done, Retry
    <2>2. k = c
        BY <2>1 DEF AllTyped
    <2> QED BY <1>1, <2>2
<1>2. ~\E x \in Objects : GarbageCollect(x) \/ User(x)
    BY DEF GarbageCollect, User
<1>3. \E k \in Controllers : Apply(k) /\ (Done(k) \/ Retry(k))
    BY <1>2 DEF Next, vars, Skipped, Begin, Read, NothingToPatch, HatchFails, PatchMade,
       SelectorRead, ReadingTarget, NothingToDelete, FoundToDelete, MutateError, FoundAbsent,
       FoundEqual, FoundDifferent, Found, ReadingBudget, Answer, CallSucceeds, CallRefused,
       RequestLost, AnswerLost, Deliver, Receive, Restart, Relist
<1> QED BY <1>1, <1>3

(***************************************************************************)
(* A patcher's old copy never leaks into leaves that it does not assign,   *)
(* whoever wrote them since the copy was read.                             *)
(***************************************************************************)
THEOREM PatchersStayApart == Spec => PatchersApart
<1> DEFINE Apart(c) ==
        LET x == Addressed(c)
            old == live[x].body.spec
            new == live'[x].body.spec
        IN  work[c].step = "patch" /\ work'[c] # work[c] /\ live'[x] # live[x] =>
              Kept(new, Assigns(c)) = Kept(old, Assigns(c))
<1>1. ASSUME TargetInv, [Next]_vars, NEW c \in Patchers
      PROVE  Apart(c)
    <2> DEFINE x == Addressed(c)
               s == work[c].parent.spec
               o == work[c].key
               e == live[x].body.spec
               n == JSONMergePatch(e, work[c].arg)
    <2> SUFFICES ASSUME work[c].step = "patch", work'[c] # work[c], live'[x] # live[x]
                 PROVE  Kept(live'[x].body.spec, Assigns(c)) = Kept(e, Assigns(c))
        OBVIOUS
    <2>1. c \in Controllers /\ ClusterTypeOK /\ AllTyped
        BY <1>1, InvParts DEF Patchers
    <2>2. Apply(c)
        BY <1>1, <2>1, OneWrites
    <2>3. WorkOK(c) /\ CopyOK(c) /\ work[c].step # "idle" /\ work[c].step \in Calls
        BY <2>1 DEF AllTyped, Typed, Calls
    <2>4. x \in Objects /\ o \in For(c) /\ s \in Specs(o) /\ Aims(o, s, x)
        BY <2>1, <2>3, AddressedTyped, WorkerTyped
    <2>5. PICK d \in Specs(x) :
              /\ Patches(c, s, d)
              /\ Modified(c, o, s, d) # Failed
              /\ work[c].arg = MergeFrom(d, Modified(c, o, s, d))
        BY <2>3 DEF CopyOK
    <2>6. Kept(n, Assigns(c)) = Kept(e, Assigns(c))
        BY <2>4, <2>5, ModifiedApart, MergeTouches
    <2>7. live[x].body \in Body(x) /\ DOMAIN live = Objects
        BY <2>1, <2>2, <2>4, VersionsTyped DEF Apply, Accepted, Version, ClusterTypeOK, TypedVersions
    <2>8. Requested(c) = [live[x].body EXCEPT !.spec = n]
        BY DEF Requested
    <2>9. live'[x].body = Requested(c)
        BY <2>2, <2>4, <2>7 DEF Apply, Write
    <2>10. live'[x].body.spec = n
        BY <2>7, <2>8, <2>9 DEF Body
    <2> QED BY <2>6, <2>10
<1>2. TargetInv /\ [Next]_vars => \A c \in Patchers : Apart(c)
    BY <1>1
<1>3. PatchersApart <=> [][\A c \in Patchers : Apart(c)]_vars
    BY DEF PatchersApart
<1> QED BY <1>2, <1>3, TargetStart, TargetStep, PTL DEF Spec

----------------------------------------------------------------------------
(***************************************************************************)
(* compute-pdb forgets no budget.                                          *)
(***************************************************************************)
LEMMA BudgetParts ==
    ASSUME BudgetInv
    PROVE  /\ TargetInv /\ ClusterTypeOK /\ CacheInv /\ AllTyped /\ budget \in 0..MaxDisturbances
           /\ "compute-pdb" \in Controllers => UpdateOK /\ BudgetWake
BY InvParts DEF BudgetInv, ClusterTypeOK

\* The budget of a Compute is an object of its kind.
LEMMA BudgetNamed ==
    ASSUME ClusterTypeOK, "compute-pdb" \in Controllers, NEW o \in For("compute-pdb"),
           Active(cache[o].body)
    PROVE  /\ o \in Objects /\ BudgetOf(o) \in Objects
           /\ BudgetOf(o).kind = "PodDisruptionBudget"
<1>1. BudgetOf(o).kind = "PodDisruptionBudget"
    BY DEF BudgetOf, Derived, Object
<1> QED BY <1>1, ParentTyped, ForTyped

\* A budget that fits a Compute which bounds disruption is that Compute's.
LEMMA FitsOwned ==
    ASSUME NEW o \in Objects, NEW p, NEW b, BudgetFits(o, p, b), HasPDB(p.spec), p.uid \in Nat
    PROVE  OwnedBy(b, o)
<1>1. b # None /\ b.owner = Ref(o, p.uid)
    BY DEF BudgetFits
<1>2. Ref(o, p.uid) \in [obj : Objects, uid : Nat]
    BY DEF Ref
<1>3. Ref(o, p.uid) # None
    BY <1>2, ClusterAssumptions DEF NoneAssumption
<1> QED BY <1>1, <1>3 DEF OwnedBy, Ref

----------------------------------------------------------------------------
(***************************************************************************)
(* What keeps BudgetInv.                                                   *)
(***************************************************************************)
\* While the cache stays and events only come, it is enough that no key leaves
\* the queue and the worker leaves no Compute before the budget is covered.
LEMMA BudgetWakeKept ==
    ASSUME BudgetInv, "compute-pdb" \in Controllers, cache' = cache,
           \A y \in Objects : pend[y] \subseteq pend'[y],
           \A o \in For("compute-pdb") :
              Active(cache[o].body) /\ (o \in queue["compute-pdb"] \/ Held(o))
                => BudgetCovered(o)'
    PROVE  BudgetWake'
<1>1. SUFFICES ASSUME NEW o \in For("compute-pdb"), Active(cache[o].body)
               PROVE  BudgetCovered(o)'
    BY DEF BudgetWake
<1>2. ClusterTypeOK /\ BudgetCovered(o)
    BY <1>1, BudgetParts DEF BudgetWake
<1>3. pend[BudgetOf(o)] \subseteq pend'[BudgetOf(o)]
    BY <1>1, <1>2, BudgetNamed
<1>4. CASE o \in queue["compute-pdb"] \/ Held(o)
    BY <1>1, <1>4
<1>5. CASE ~(o \in queue["compute-pdb"] \/ Held(o))
    BY <1>2, <1>3, <1>5 DEF BudgetCovered
<1> QED BY <1>4, <1>5

\* Steps in which compute-pdb takes no part.
LEMMA ElsewhereStep ==
    ASSUME BudgetInv, "compute-pdb" \in Controllers, cache' = cache,
           \A y \in Objects : pend[y] \subseteq pend'[y],
           work'["compute-pdb"] = work["compute-pdb"],
           queue'["compute-pdb"] = queue["compute-pdb"]
    PROVE  (UpdateOK /\ BudgetWake)'
<1>1. UpdateOK'
    BY BudgetParts DEF UpdateOK
<1>2. \A o : o \in queue["compute-pdb"] \/ Held(o) => BudgetCovered(o)'
    BY DEF BudgetCovered, Held
<1> QED BY <1>1, <1>2, BudgetWakeKept

\* compute-pdb goes on with the Compute it is on.
LEMMA GoOnStep ==
    ASSUME BudgetInv, "compute-pdb" \in Controllers, cache' = cache,
           \A y \in Objects : pend[y] \subseteq pend'[y], queue' = queue,
           work'["compute-pdb"].key = work["compute-pdb"].key,
           work'["compute-pdb"].parent = work["compute-pdb"].parent,
           UpdateOK'
    PROVE  (UpdateOK /\ BudgetWake)'
<1>1. \A o : o \in queue["compute-pdb"] \/ Held(o) => BudgetCovered(o)'
    BY DEF BudgetCovered, Held
<1> QED BY <1>1, BudgetWakeKept

\* It ends with an error: the key is queued.
LEMMA ErrorStep ==
    ASSUME BudgetInv, "compute-pdb" \in Controllers, cache' = cache,
           \A y \in Objects : pend[y] \subseteq pend'[y],
           work["compute-pdb"].step # "idle", Retry("compute-pdb")
    PROVE  (UpdateOK /\ BudgetWake)'
<1>1. AllTyped
    BY BudgetParts
<1>2. /\ work'["compute-pdb"] = Idle
      /\ queue'["compute-pdb"] = queue["compute-pdb"] \cup {work["compute-pdb"].key}
    BY <1>1 DEF Retry, AllTyped
<1>3. UpdateOK'
    BY <1>2 DEF UpdateOK, Idle
<1>4. \A o : o \in queue["compute-pdb"] \/ Held(o) => BudgetCovered(o)'
    BY <1>2 DEF BudgetCovered, Held
<1> QED BY <1>3, <1>4, BudgetWakeKept

\* It ends well: its Compute must not need it any more.
LEMMA EndStep ==
    ASSUME BudgetInv, "compute-pdb" \in Controllers, cache' = cache,
           \A y \in Objects : pend[y] \subseteq pend'[y], Done("compute-pdb"),
           \A o \in For("compute-pdb") : Active(cache[o].body) /\ Held(o) => BudgetCovered(o)'
    PROVE  (UpdateOK /\ BudgetWake)'
<1>1. AllTyped
    BY BudgetParts
<1>2. work'["compute-pdb"] = Idle /\ queue' = queue
    BY <1>1 DEF Done, AllTyped
<1>3. UpdateOK'
    BY <1>2 DEF UpdateOK, Idle
<1>4. \A o : o \in queue["compute-pdb"] => BudgetCovered(o)'
    BY <1>2 DEF BudgetCovered
<1> QED BY <1>3, <1>4, BudgetWakeKept

----------------------------------------------------------------------------
(***************************************************************************)
(* The steps of compute-pdb.                                               *)
(***************************************************************************)
LEMMA BudgetTaken ==
    ASSUME BudgetInv, "compute-pdb" \in Controllers, NEW o \in For("compute-pdb"),
           Skipped("compute-pdb", o) \/ Begin("compute-pdb", o)
    PROVE  (UpdateOK /\ BudgetWake)'
<1>1. ClusterTypeOK /\ CacheInv /\ AllTyped /\ budget \in 0..MaxDisturbances /\ UpdateOK
    BY BudgetParts
<1>2. UNCHANGED <<live, cache, pend, budget>>
    BY DEF Skipped, Begin
<1>3. cache' = cache /\ \A y \in Objects : pend[y] \subseteq pend'[y]
    BY <1>1, <1>2, QuietCluster
<1>4. work["compute-pdb"] = Idle /\ queue'["compute-pdb"] = queue["compute-pdb"] \ {o}
    BY <1>1 DEF Skipped, Begin, AllTyped
<1>5. \/ ~Active(cache[o].body) /\ work' = work
      \/ /\ work'["compute-pdb"].key = o /\ work'["compute-pdb"].parent = cache[o].body
         /\ work'["compute-pdb"].step # "update"
    BY <1>1 DEF Skipped, Begin, AllTyped
<1>6. UpdateOK'
    BY <1>1, <1>3, <1>5 DEF UpdateOK
<1>7. ASSUME NEW k \in For("compute-pdb"), Active(cache[k].body),
             k \in queue["compute-pdb"] \/ Held(k)
      PROVE  BudgetCovered(k)'
    <2>1. k \in queue["compute-pdb"]
        BY <1>4, <1>7, ForTyped, ClusterAssumptions DEF Held, Idle, NoneAssumption
    <2>2. CASE k # o
        BY <1>4, <2>1, <2>2 DEF BudgetCovered
    <2>3. CASE k = o
        BY <1>3, <1>5, <1>7, <2>3 DEF BudgetCovered, Held
    <2> QED BY <2>2, <2>3
<1> QED BY <1>3, <1>6, <1>7, BudgetWakeKept

\* The Deployment is read, or a request is prepared.
LEMMA BudgetGoesOn ==
    ASSUME BudgetInv, "compute-pdb" \in Controllers, work["compute-pdb"].step # "idle",
           UNCHANGED <<live, cache, pend, budget>>, queue' = queue,
           NEW step, NEW arg, NEW base,
           work'["compute-pdb"] =
              [step |-> step, key |-> work["compute-pdb"].key,
               parent |-> work["compute-pdb"].parent, arg |-> arg, base |-> base],
           LET v == cache[BudgetOf(work["compute-pdb"].key)]
               s == work["compute-pdb"].parent.spec
           IN  step = "update" =>
                 /\ base = v.rv /\ v.body # None
                 /\ \E d \in Readable(work["compute-pdb"].key, s) :
                       arg = PDBRender(s, d, v.body.spec)
    PROVE  (UpdateOK /\ BudgetWake)'
<1> DEFINE w == work["compute-pdb"]
           v == cache[BudgetOf(w.key)]
<1>1. ClusterTypeOK /\ CacheInv /\ AllTyped /\ budget \in 0..MaxDisturbances
    BY BudgetParts
<1>2. cache' = cache /\ \A y \in Objects : pend[y] \subseteq pend'[y]
    BY <1>1, QuietCluster
<1>3. work'["compute-pdb"] = [step |-> step, key |-> w.key, parent |-> w.parent,
                              arg |-> arg, base |-> base]
    OBVIOUS
<1>4. UpdateOK'
    <2>1. SUFFICES ASSUME step = "update"
                   PROVE  /\ base <= v.rv
                          /\ base = v.rv =>
                               /\ v.body # None
                               /\ \E d \in Readable(w.key, w.parent.spec) :
                                     arg = PDBRender(w.parent.spec, d, v.body.spec)
        BY <1>2, <1>3 DEF UpdateOK
    <2>2. BudgetOf(w.key) \in Objects
        <3>1. w.key \in For("compute-pdb") /\ w.parent.spec \in Specs(w.key)
              /\ ~TargetMissing(w.parent.spec)
            BY <1>1, WorkerTyped DEF AllTyped, Typed
        <3> QED BY <3>1, TargetAssumptions DEF TargetsAssumption
    <2>3. v.rv \in Nat
        BY <1>1, <2>2, VersionsTyped
    <2> QED BY <2>1, <2>3
<1> QED BY <1>2, <1>3, <1>4, GoOnStep

LEMMA BudgetReads ==
    ASSUME BudgetInv, "compute-pdb" \in Controllers, Read("compute-pdb")
    PROVE  (UpdateOK /\ BudgetWake)'
<1> DEFINE w == work["compute-pdb"]
           v == cache[BudgetOf(w.key)]
<1>1. ClusterTypeOK /\ CacheInv /\ AllTyped /\ budget \in 0..MaxDisturbances
    BY BudgetParts
<1>2. UNCHANGED <<live, cache, pend, budget>> /\ w.step \in {"target", "get"}
    BY DEF Read, NothingToPatch, HatchFails, PatchMade, SelectorRead, ReadingTarget, NothingToDelete,
       FoundToDelete, MutateError, FoundAbsent, FoundEqual, FoundDifferent, Found, ReadingBudget
<1>3. cache' = cache /\ \A y \in Objects : pend[y] \subseteq pend'[y]
    BY <1>1, <1>2, QuietCluster
<1>4. w = [step |-> w.step, key |-> w.key, parent |-> w.parent, arg |-> w.arg, base |-> w.base]
      /\ DOMAIN work = Controllers
    BY <1>1, <1>2, WorkerTyped DEF AllTyped, Typed
<1>5. w.step = "get" /\ HasPDB(w.parent.spec) => w.arg \in Readable(w.key, w.parent.spec)
    BY <1>1 DEF AllTyped, Typed, CopyOK
<1>6. CASE SelectorRead("compute-pdb")
    <2> DEFINE d == CachedTarget("compute-pdb")
    <2>1. queue' = queue /\ work' = [work EXCEPT !["compute-pdb"].step = "get",
                                                 !["compute-pdb"].arg = d]
        BY <1>6 DEF SelectorRead
    <2>2. work'["compute-pdb"] = [w EXCEPT !.step = "get", !.arg = d]
        BY <1>4, <2>1
    <2>3. work'["compute-pdb"] = [step |-> "get", key |-> w.key, parent |-> w.parent,
                                  arg |-> d, base |-> w.base]
        BY <1>4, <2>2
    <2> QED BY <1>2, <2>1, <2>3, BudgetGoesOn
<1>7. ASSUME NEW step, NEW arg, Send("compute-pdb", step, arg),
             step = "update" =>
                /\ v.body # None
                /\ \E d \in Readable(w.key, w.parent.spec) :
                      arg = PDBRender(w.parent.spec, d, v.body.spec)
      PROVE  (UpdateOK /\ BudgetWake)'
    <2>1. queue' = queue /\ work' = [work EXCEPT !["compute-pdb"].step = step,
                                                 !["compute-pdb"].arg = arg,
                                                 !["compute-pdb"].base = v.rv]
        BY <1>7 DEF Send, CachedBudget
    <2>2. work'["compute-pdb"] = [w EXCEPT !.step = step, !.arg = arg, !.base = v.rv]
        BY <1>4, <2>1
    <2>3. work'["compute-pdb"] = [step |-> step, key |-> w.key, parent |-> w.parent,
                                  arg |-> arg, base |-> v.rv]
        BY <1>4, <2>2
    <2> QED BY <1>2, <1>7, <2>1, <2>3, BudgetGoesOn
<1>8. CASE FoundToDelete("compute-pdb") \/ FoundAbsent("compute-pdb")
    <2>1. \/ Send("compute-pdb", "delete", None)
          \/ Send("compute-pdb", "create", Mutated("compute-pdb", None))
        BY <1>8 DEF FoundToDelete, FoundAbsent
    <2> QED BY <1>7, <2>1
<1>9. CASE FoundDifferent("compute-pdb")
    <2>1. /\ Send("compute-pdb", "update", Mutated("compute-pdb", v.body)) /\ v.body # None
          /\ w.step = "get" /\ HasPDB(w.parent.spec)
        BY <1>9 DEF FoundDifferent, Found, ReadingBudget, CachedBudget
    <2>2. Mutated("compute-pdb", v.body) = PDBRender(w.parent.spec, w.arg, v.body.spec)
        BY <2>1 DEF Mutated, SpecOf
    <2> QED BY <1>5, <1>7, <2>1, <2>2
<1>10. CASE MutateError("compute-pdb")
    BY <1>2, <1>3, <1>10, ErrorStep DEF MutateError
<1>11. ASSUME NothingToDelete("compute-pdb") \/ FoundEqual("compute-pdb"),
              NEW o \in For("compute-pdb"), Active(cache[o].body), Held(o)
       PROVE  BudgetCovered(o)'
    <2>1. w.key = o /\ w.parent = cache[o].body /\ cache' = cache
        BY <1>3, <1>11 DEF Held
    <2>2. CASE NothingToDelete("compute-pdb")
        <3>1. ~HasPDB(cache[o].body.spec) /\ v.body = None
            BY <2>1, <2>2 DEF NothingToDelete, ReadingBudget, CachedBudget
        <3> QED BY <2>1, <3>1 DEF BudgetCovered, BudgetFits, OwnedBy
    <2>3. CASE FoundEqual("compute-pdb")
        <3>1. /\ w.step = "get" /\ HasPDB(w.parent.spec) /\ v.body # None
              /\ v.body.spec = Mutated("compute-pdb", v.body)
              /\ v.body.owner = Ref(w.key, w.parent.uid)
            BY <2>3 DEF FoundEqual, Found, ReadingBudget, CachedBudget, ParentRef
        <3>2. v.body.spec = PDBRender(w.parent.spec, w.arg, v.body.spec)
            BY <3>1 DEF Mutated, SpecOf
        <3>3. BudgetFits(o, cache[o].body, v.body)
            BY <1>5, <2>1, <3>1, <3>2 DEF BudgetFits
        <3> QED BY <2>1, <3>3 DEF BudgetCovered
    <2> QED BY <1>11, <2>2, <2>3
<1>12. CASE NothingToDelete("compute-pdb") \/ FoundEqual("compute-pdb")
    BY <1>3, <1>11, <1>12, EndStep DEF NothingToDelete, FoundEqual
<1>13. ~(NothingToPatch("compute-pdb") \/ HatchFails("compute-pdb") \/ PatchMade("compute-pdb"))
    BY DEF NothingToPatch, HatchFails, PatchMade, Patchers
<1> QED BY <1>6, <1>8, <1>9, <1>10, <1>12, <1>13 DEF Read

\* A budget that is sent carries the reference of the Compute it is made for.
LEMMA RequestOwned ==
    ASSUME TargetInv, "compute-pdb" \in Controllers, Accepted("compute-pdb"),
           work["compute-pdb"].step \in {"create", "update"}
    PROVE  LET w == work["compute-pdb"]
               n == Requested("compute-pdb")
           IN  /\ n # None /\ OwnedBy(n, w.key)
               /\ n.spec = w.arg /\ n.owner = Ref(w.key, w.parent.uid)
<1> DEFINE w == work["compute-pdb"]
           x == BudgetOf(w.key)
           r == Ref(w.key, w.parent.uid)
           n == Requested("compute-pdb")
<1>1. ClusterTypeOK /\ AllTyped /\ w.step \in Calls /\ w.step # "idle" /\ CopyOK("compute-pdb")
    BY InvParts DEF Accepted, AllTyped, Typed, Calls
<1>2. /\ Addressed("compute-pdb") = x /\ ParentRef("compute-pdb") = r
      /\ x \in Objects /\ r \in [obj : Objects, uid : Nat]
    BY <1>1, AddressedTyped DEF Addressed, ParentRef
<1>3. PICK u : n = [spec |-> w.arg, owner |-> r, uid |-> u] /\ u \in Nat
    <2>1. live[x].rv \in Nat /\ live[x] \in Version(x)
        BY <1>1, <1>2, VersionsTyped
    <2>2. CASE w.step = "create"
        <3>1. n = [spec |-> w.arg, owner |-> r, uid |-> live[x].rv + 1]
            BY <1>2, <2>2 DEF Requested
        <3> QED BY <2>1, <3>1
    <2>3. CASE w.step = "update"
        <3>1. n = [spec |-> w.arg, owner |-> r, uid |-> live[x].body.uid]
            BY <1>2, <2>3 DEF Requested
        <3>2. live[x].body.uid \in Nat
            BY <1>2, <2>1, <2>3 DEF Accepted, Version, Body
        <3> QED BY <3>1, <3>2
    <2> QED BY <2>2, <2>3
<1>4. w.arg \in Specs(x)
    <2>1. ~Invalid(x, w.arg)
        BY <1>2, <1>3 DEF Accepted
    <2> QED BY <1>1, <1>2, <2>1 DEF CopyOK
<1>5. n \in Body(x)
    BY <1>2, <1>3, <1>4 DEF Body
<1>6. n # None /\ r # None
    BY <1>2, <1>5, ClusterAssumptions DEF NoneAssumption
<1> QED BY <1>3, <1>6 DEF OwnedBy, Ref

\* A request that went through leaves nothing to do, or an event that wakes the
\* Compute again: its own, since it carries the Compute's reference, or, where
\* the budget was to go, that of the budget which had it.
LEMMA RequestCovers ==
    ASSUME BudgetInv, "compute-pdb" \in Controllers, Apply("compute-pdb"), cache' = cache,
           NEW o \in For("compute-pdb"), Active(cache[o].body), Held(o)
    PROVE  BudgetCovered(o)'
<1> DEFINE w == work["compute-pdb"]
           p == cache[o].body
           x == BudgetOf(o)
           n == Requested("compute-pdb")
<1>1. TargetInv /\ ClusterTypeOK /\ CacheInv /\ AllTyped /\ UpdateOK
    BY BudgetParts
<1>2. w.key = o /\ w.parent = p /\ Addressed("compute-pdb") = x
    BY DEF Held, Addressed
<1>3. x \in Objects
    BY <1>1, BudgetNamed
<1>4. Accepted("compute-pdb") /\ w.step \in Calls /\ w.step # "idle"
    BY DEF Apply, Accepted, Calls
<1>5. /\ w.step \in {"create", "update", "delete"} /\ w.base \in Nat
      /\ w.step \in {"create", "update"} => HasPDB(p.spec)
      /\ w.step = "delete" => ~HasPDB(p.spec)
    BY <1>1, <1>2, <1>4, WorkerTyped DEF AllTyped, Typed, Patchers, Calls
<1>6. w.step \in {"create", "update"} =>
          n # None /\ OwnedBy(n, o) /\ n.spec = w.arg /\ n.owner = Ref(o, p.uid)
    BY <1>1, <1>2, <1>4, RequestOwned
<1>7. CASE n # live[x].body
    <2>1. live'[x].body = n /\ pend'[x] = pend[x] \cup {live'[x]}
        <3>1. Write(x, n) /\ n \in Body(x) \cup {None} /\ TypedVersions(live) /\ PendTyped
            BY <1>1, <1>2, <1>4, <1>7, RequestedTyped, ClusterTypeParts DEF Apply
        <3>2. live'[x] = [rv |-> live[x].rv + 1, body |-> n] /\ pend'[x] = pend[x] \cup {live'[x]}
            <4> HIDE DEF x, n
            <4> QED BY <1>3, <3>1, WriteEffect
        <3> QED BY <3>2
    <2>2. CASE w.step = "delete"
        BY <1>5, <2>1, <2>2 DEF BudgetCovered, BudgetFits
    <2>3. CASE w.step # "delete"
        <3>1. OwnedBy(live'[x].body, o)
            BY <1>5, <1>6, <2>1, <2>3
        <3> QED BY <2>1, <3>1 DEF BudgetCovered
    <2> QED BY <2>2, <2>3
<1>8. CASE n = live[x].body
    <2>1. w.step = "update"
        <3>1. w.step = "create" <=> live[x].body = None
            BY <1>2, <1>4 DEF Accepted
        <3>2. w.step = "delete" => n = None
            BY DEF Requested
        <3> QED BY <1>5, <1>6, <1>8, <3>1, <3>2
    <2>2. w.base = live[x].rv
        BY <1>2, <1>4, <2>1 DEF Accepted
    <2>3. cache[x] = live[x]
        <3>1. w.base <= cache[x].rv /\ cache[x].rv <= live[x].rv /\ CacheOK(x)
            BY <1>1, <1>2, <1>3, <2>1 DEF UpdateOK, CacheInv, CacheOK
        <3>2. cache[x].rv \in Nat /\ live[x].rv \in Nat
            BY <1>1, <1>3, VersionsTyped
        <3>3. cache[x].rv = live[x].rv
            BY <2>2, <3>1, <3>2
        <3> QED BY <1>1, <1>3, <3>1, <3>3, CacheCurrent
    <2>4. \E d \in Readable(o, p.spec) : w.arg = PDBRender(p.spec, d, cache[x].body.spec)
        BY <1>1, <1>2, <2>1, <2>2, <2>3 DEF UpdateOK
    <2>5. /\ cache[x].body # None
          /\ cache[x].body.spec = w.arg /\ cache[x].body.owner = Ref(o, p.uid)
        BY <1>6, <1>8, <2>1, <2>3
    <2>6. BudgetFits(o, p, cache[x].body)
        BY <1>5, <2>1, <2>4, <2>5 DEF BudgetFits
    <2> QED BY <2>6 DEF BudgetCovered
<1> QED BY <1>7, <1>8

LEMMA BudgetAnswer ==
    ASSUME BudgetInv, "compute-pdb" \in Controllers,
           Answer("compute-pdb") \/ RequestLost("compute-pdb") \/ AnswerLost("compute-pdb")
    PROVE  (UpdateOK /\ BudgetWake)'
<1>1. TargetInv /\ ClusterTypeOK /\ CacheInv /\ AllTyped /\ budget \in 0..MaxDisturbances
    BY BudgetParts
<1>2. /\ work["compute-pdb"].step # "idle" /\ cache' = cache /\ budget' \in 0..MaxDisturbances
    BY <1>1, BudgetTyped DEF Answer, CallSucceeds, CallRefused, RequestLost, AnswerLost, Apply,
       Accepted, Calls
<1>3. \A y \in Objects : pend[y] \subseteq pend'[y]
    BY <1>1, <1>2, ApplyKeeps DEF Answer, CallSucceeds, CallRefused, RequestLost, AnswerLost
<1>4. CASE CallSucceeds("compute-pdb")
    <2>1. Apply("compute-pdb") /\ Done("compute-pdb")
        BY <1>4 DEF CallSucceeds
    <2> QED BY <1>2, <1>3, <2>1, RequestCovers, EndStep
<1>5. CASE ~CallSucceeds("compute-pdb")
    <2>1. Retry("compute-pdb")
        BY <1>5 DEF Answer, CallRefused, RequestLost, AnswerLost
    <2> QED BY <1>2, <1>3, <2>1, ErrorStep
<1> QED BY <1>4, <1>5

----------------------------------------------------------------------------
(***************************************************************************)
(* The steps of the other controllers, the watch and restarts.             *)
(***************************************************************************)
LEMMA OthersApart ==
    ASSUME BudgetInv, "compute-pdb" \in Controllers, NEW c \in Controllers, c # "compute-pdb",
           \/ \E o \in For(c) : Skipped(c, o) \/ Begin(c, o)
           \/ Read(c) \/ Answer(c) \/ RequestLost(c) \/ AnswerLost(c)
    PROVE  (UpdateOK /\ BudgetWake)'
<1>1. TargetInv /\ ClusterTypeOK /\ CacheInv /\ AllTyped /\ budget \in 0..MaxDisturbances
    BY BudgetParts
<1>2. /\ work'["compute-pdb"] = work["compute-pdb"]
      /\ queue'["compute-pdb"] = queue["compute-pdb"]
    BY <1>1 DEF AllTyped, Skipped, Begin, Read, NothingToPatch, HatchFails, PatchMade, SelectorRead,
       NothingToDelete, FoundToDelete, MutateError, FoundAbsent, FoundEqual, FoundDifferent, Send,
       Answer, CallSucceeds, CallRefused, RequestLost, AnswerLost, Done, Retry
<1>3. \/ UNCHANGED <<live, cache, pend, budget>>
      \/ RequestLost(c) /\ cache' = cache /\ pend' = pend
      \/ Apply(c) /\ cache' = cache /\ budget' \in 0..MaxDisturbances
    BY <1>1, BudgetTyped DEF Skipped, Begin, Read, NothingToPatch, HatchFails, PatchMade,
       SelectorRead, ReadingTarget, NothingToDelete, FoundToDelete, MutateError, FoundAbsent,
       FoundEqual, FoundDifferent, Found, ReadingBudget, Answer, CallSucceeds, CallRefused,
       RequestLost, AnswerLost
<1>4. cache' = cache /\ \A y \in Objects : pend[y] \subseteq pend'[y]
    BY <1>1, <1>3, ApplyKeeps
<1> QED BY <1>2, <1>4, ElsewhereStep

LEMMA BudgetDelivered ==
    ASSUME BudgetInv, "compute-pdb" \in Controllers, NEW x \in Objects, Deliver(x)
    PROVE  (UpdateOK /\ BudgetWake)'
<1> DEFINE w == work["compute-pdb"]
<1>1. ClusterTypeOK /\ CacheInv /\ AllTyped /\ UpdateOK /\ BudgetWake
    BY BudgetParts
<1>2. PICK e \in pend[x] :
          /\ Receive(x, e) /\ work' = work
          /\ queue' = [c \in Controllers |-> queue[c] \cup Woken(c, x, cache[x].body, e.body)]
    BY DEF Deliver
<1>3. /\ cache'[x] = e /\ pend'[x] = pend[x] \ {e} /\ cache[x].rv < e.rv
      /\ \A y \in Objects : y # x => pend'[y] = pend[y] /\ cache'[y] = cache[y]
    BY <1>1, <1>2, ReceiveEffect
<1>4. UpdateOK'
    <2>1. SUFFICES ASSUME w.step = "update" PROVE UpdateOK'
        BY <1>2 DEF UpdateOK
    <2>2. BudgetOf(w.key) \in Objects
        <3>1. w.key \in For("compute-pdb") /\ w.parent.spec \in Specs(w.key)
              /\ ~TargetMissing(w.parent.spec)
            BY <1>1, <2>1, WorkerTyped DEF AllTyped, Typed
        <3> QED BY <3>1, TargetAssumptions DEF TargetsAssumption
    <2>3. CASE BudgetOf(w.key) # x
        BY <1>1, <1>2, <1>3, <2>2, <2>3 DEF UpdateOK
    <2>4. CASE BudgetOf(w.key) = x
        <3>1. cache[x].rv \in Nat /\ e.rv \in Nat /\ w.base \in Nat
            BY <1>1, <1>2, <2>1, VersionsTyped, WorkerTyped DEF AllTyped, Typed
        <3>2. w.base <= cache[x].rv
            BY <1>1, <2>1, <2>4 DEF UpdateOK
        <3>3. w.base < cache'[x].rv
            BY <1>3, <3>1, <3>2
        <3> QED BY <1>2, <1>3, <2>4, <3>1, <3>3 DEF UpdateOK
    <2> QED BY <2>3, <2>4
<1>5. BudgetWake'
    <2>1. SUFFICES ASSUME NEW o \in For("compute-pdb"), Active(cache'[o].body),
                          o \notin queue'["compute-pdb"]
                   PROVE  BudgetCovered(o)'
        BY DEF BudgetWake, BudgetCovered
    <2> DEFINE y == BudgetOf(o)
    <2>2. o \notin queue["compute-pdb"] /\ o \notin Woken("compute-pdb", x, cache[x].body, e.body)
        BY <1>2, <2>1
    <2>3. cache'[o] = cache[o]
        BY <1>3, <2>2, ForTyped DEF Woken
    <2>4. o \in Objects /\ y \in Objects /\ y.kind = "PodDisruptionBudget" /\ BudgetCovered(o)
        BY <1>1, <2>1, <2>3, BudgetNamed DEF BudgetWake
    <2>5. Held(o) => Held(o)'
        BY <1>2, <2>3 DEF Held
    <2>6. CASE y # x
        <3>1. cache'[y] = cache[y] /\ pend'[y] = pend[y]
            BY <1>3, <2>4, <2>6
        <3> QED BY <2>2, <2>3, <2>4, <2>5, <3>1 DEF BudgetCovered
    <2>7. CASE y = x
        <3>1. ~OwnedBy(cache[x].body, o) /\ ~OwnedBy(e.body, o)
            BY <2>2, <2>4, <2>7 DEF Woken
        <3>2. CASE BudgetFits(o, cache[o].body, cache[y].body)
            <4>1. cache[o].body.uid \in Nat
                BY <1>1, <2>1, <2>3, ParentTyped DEF Body
            <4>2. ~HasPDB(cache[o].body.spec)
                BY <2>4, <2>7, <3>1, <3>2, <4>1, FitsOwned
            <4>3. BudgetFits(o, cache[o].body, e.body)
                BY <3>1, <4>2 DEF BudgetFits
            <4> QED BY <1>3, <2>3, <2>7, <4>3 DEF BudgetCovered
        <3>3. CASE \E f \in pend[y] : OwnedBy(f.body, o)
            <4>1. PICK f \in pend[x] : OwnedBy(f.body, o)
                BY <2>7, <3>3
            <4>2. f \in pend'[x]
                BY <1>3, <3>1, <4>1
            <4> QED BY <2>7, <4>1, <4>2 DEF BudgetCovered
        <3> QED BY <2>2, <2>4, <2>5, <2>7, <3>1, <3>2, <3>3 DEF BudgetCovered
    <2> QED BY <2>6, <2>7
<1> QED BY <1>4, <1>5

LEMMA BudgetListed ==
    ASSUME "compute-pdb" \in Controllers, NEW vs, NEW ws, NEW qs,
           qs = [c \in Controllers |-> Listed(c, vs)], ws = [c \in Controllers |-> Idle]
    PROVE  /\ ws["compute-pdb"].step # "update"
           /\ \A o \in For("compute-pdb") : Active(vs[o].body) => o \in qs["compute-pdb"]
BY DEF Idle, Listed, Active

LEMMA BudgetRestart ==
    ASSUME BudgetInv, "compute-pdb" \in Controllers, Restart
    PROVE  (UpdateOK /\ BudgetWake)'
<1>1. /\ cache' = live
      /\ queue' = [c \in Controllers |-> Listed(c, live)]
      /\ work' = [c \in Controllers |-> Idle]
    BY DEF Restart, Relist
<1>2. /\ work'["compute-pdb"].step # "update"
      /\ \A o \in For("compute-pdb") : Active(live[o].body) => o \in queue'["compute-pdb"]
    BY <1>1, BudgetListed
<1> QED BY <1>1, <1>2 DEF UpdateOK, BudgetWake, BudgetCovered

----------------------------------------------------------------------------
LEMMA BudgetStart == Init => BudgetInv
<1> SUFFICES ASSUME Init, "compute-pdb" \in Controllers PROVE UpdateOK /\ BudgetWake
    BY TargetStart DEF BudgetInv
<1>1. /\ cache = live
      /\ queue = [c \in Controllers |-> Listed(c, live)]
      /\ work = [c \in Controllers |-> Idle]
    BY DEF Init, ClusterInit
<1>2. /\ work["compute-pdb"].step # "update"
      /\ \A o \in For("compute-pdb") : Active(live[o].body) => o \in queue["compute-pdb"]
    BY <1>1, BudgetListed
<1> QED BY <1>1, <1>2 DEF UpdateOK, BudgetWake, BudgetCovered

LEMMA BudgetInvStep == BudgetInv /\ [Next]_vars => BudgetInv'
<1> SUFFICES ASSUME BudgetInv, [Next]_vars, "compute-pdb" \in Controllers
             PROVE  (UpdateOK /\ BudgetWake)'
    BY TargetStep DEF BudgetInv
<1>1. TargetInv /\ ClusterTypeOK /\ CacheInv /\ AllTyped /\ budget \in 0..MaxDisturbances
    BY BudgetParts
<1>2. ASSUME NEW o \in For("compute-pdb"), Skipped("compute-pdb", o) \/ Begin("compute-pdb", o)
      PROVE  (UpdateOK /\ BudgetWake)'
    BY <1>2, BudgetTaken
<1>3. CASE \/ Read("compute-pdb") \/ Answer("compute-pdb")
           \/ RequestLost("compute-pdb") \/ AnswerLost("compute-pdb")
    BY <1>3, BudgetReads, BudgetAnswer
<1>4. ASSUME NEW c \in Controllers, c # "compute-pdb",
             \/ \E o \in For(c) : Skipped(c, o) \/ Begin(c, o)
             \/ Read(c) \/ Answer(c) \/ RequestLost(c) \/ AnswerLost(c)
      PROVE  (UpdateOK /\ BudgetWake)'
    BY <1>4, OthersApart
<1>5. ASSUME NEW x \in Objects, Deliver(x) PROVE (UpdateOK /\ BudgetWake)'
    BY <1>5, BudgetDelivered
<1>6. ASSUME NEW x \in Objects, GarbageCollect(x) \/ User(x) PROVE (UpdateOK /\ BudgetWake)'
    <2>1. queue' = queue /\ work' = work /\ cache' = cache
        BY <1>1, <1>6, CollectWrites, UserWrites DEF GarbageCollect, User
    <2>2. \E b \in Body(x) \cup {None} : Write(x, b)
        BY <1>1, <1>6, CollectWrites, UserWrites DEF GarbageCollect, User
    <2>3. \A y \in Objects : pend[y] \subseteq pend'[y]
        BY <1>1, <2>2, WriteEffect, ClusterTypeParts
    <2> QED BY <2>1, <2>3, ElsewhereStep
<1>7. CASE Restart
    BY <1>7, BudgetRestart
<1>8. CASE UNCHANGED vars
    BY <1>8, ElsewhereStep DEF vars
<1> QED BY <1>2, <1>3, <1>4, <1>5, <1>6, <1>7, <1>8 DEF Next

(***************************************************************************)
(* No budget is forgotten: compute-pdb at rest leaves every Compute the    *)
(* budget it asks for, with one bound and the living Compute's reference,  *)
(* although Deployments do not wake it and its writes may meet a budget    *)
(* other than the one it read.                                             *)
(***************************************************************************)
THEOREM BudgetsRemembered == Spec => []NoBudgetForgotten
<1>1. BudgetInv => NoBudgetForgotten
    <2> SUFFICES ASSUME BudgetInv, "compute-pdb" \in Controllers, NEW o \in For("compute-pdb"),
                        Active(live[o].body), o \notin queue["compute-pdb"],
                        work["compute-pdb"].key # o, pend[o] = {}, pend[BudgetOf(o)] = {}
                 PROVE  BudgetFits(o, live[o].body, live[BudgetOf(o)].body)
        BY DEF NoBudgetForgotten
    <2>1. ClusterTypeOK /\ CacheInv /\ BudgetWake
        BY BudgetParts
    <2>2. cache[o] = live[o]
        BY <2>1, ForTyped DEF CacheInv, CacheOK
    <2>3. BudgetOf(o) \in Objects
        BY <2>1, <2>2, BudgetNamed
    <2>4. cache[BudgetOf(o)] = live[BudgetOf(o)]
        BY <2>1, <2>3 DEF CacheInv, CacheOK
    <2>5. BudgetCovered(o)
        BY <2>1, <2>2 DEF BudgetWake
    <2> QED BY <2>2, <2>4, <2>5 DEF BudgetCovered, Held
<1> QED BY <1>1, BudgetStart, BudgetInvStep, PTL DEF Spec
=============================================================================
