------------------------------ MODULE ClaimsProofs ------------------------------
(***************************************************************************)
(* Proofs about the storage-pvc controller, for every set of Storages,     *)
(* volume lists, escape hatches and default classes.                       *)
(***************************************************************************)
EXTENDS Claims, ClusterProofs

WorkTyped == queue \subseteq Storages /\ WorkOK

LEMMA TypeParts == TypeOK <=> ClusterTypeOK /\ WorkTyped
BY DEF TypeOK, WorkTyped

----------------------------------------------------------------------------
(***************************************************************************)
(* Where the claims are.                                                   *)
(***************************************************************************)
LEMMA ClaimTyped ==
    ASSUME NEW o \in Storages, NEW p \in Body(o), ~TargetMissing(p.spec)
    PROVE  /\ o \in Objects
           /\ p.spec \in Specs(o)
           /\ Len(p.spec.volumes) \in Nat /\ DOMAIN p.spec.volumes = 1..Len(p.spec.volumes)
           /\ \A i \in DOMAIN p.spec.volumes :
                 LET x == Claim(o, p.spec.volumes[i])
                 IN  x \in Objects /\ x \notin Storages /\ x.kind = "PersistentVolumeClaim"
<1>1. o \in Objects /\ p.spec \in Specs(o)
    BY DEF Storages, Body
<1>2. ASSUME NEW i \in DOMAIN p.spec.volumes
      PROVE  Claim(o, p.spec.volumes[i]).kind = "PersistentVolumeClaim"
    BY DEF Claim, Object
<1> QED BY <1>1, <1>2, ClaimsAssumptions DEF VolumesAssumption, Storages

LEMMA CachedParent ==
    ASSUME ClusterTypeOK, NEW o \in Storages, Active(cache[o].body)
    PROVE  cache[o].body \in Body(o) /\ ~TargetMissing(cache[o].body.spec)
<1>1. o \in Objects
    BY DEF Storages
<1> QED BY <1>1, VersionsTyped DEF Active, Version

\* A worker under way has a Storage, and before the list's end a claim.
LEMMA WorkerTyped ==
    ASSUME WorkOK, work.step # "idle"
    PROVE  /\ work # Idle
           /\ work.key \in Storages /\ work.key \in Objects
           /\ work.parent \in Body(work.key) /\ ~TargetMissing(work.parent.spec)
           /\ work.step \in {"get", "create", "update"}
           /\ work.index \in Nat /\ 1 <= work.index /\ work.base \in Nat
           /\ Len(Volumes) \in Nat /\ DOMAIN Volumes = 1..Len(Volumes)
           /\ work.step # "get" => work.index <= Len(Volumes)
           /\ work.step = "get" => work.index <= Len(Volumes) + 1
           /\ work.index <= Len(Volumes) =>
                 /\ work.index \in DOMAIN Volumes
                 /\ Target \in Objects /\ Target \notin Storages
                 /\ Target.kind = "PersistentVolumeClaim"
           /\ ParentRef \in [obj : Objects, uid : Nat]
           /\ ParentRef.obj = work.key
           /\ work = [step |-> work.step, key |-> work.key, parent |-> work.parent,
                      index |-> work.index, arg |-> work.arg, base |-> work.base]
<1>1. /\ work # Idle
      /\ work.step \in {"get", "create", "update"}
      /\ work.key \in Storages
      /\ work.parent \in Body(work.key)
      /\ ~TargetMissing(work.parent.spec)
      /\ work.index \in 1..Len(Volumes) + (IF work.step = "get" THEN 1 ELSE 0)
      /\ work.base \in Nat
      /\ work = [step |-> work.step, key |-> work.key, parent |-> work.parent,
                 index |-> work.index, arg |-> work.arg, base |-> work.base]
    BY DEF WorkOK, Idle
<1>2. /\ work.key \in Objects
      /\ Len(Volumes) \in Nat /\ DOMAIN Volumes = 1..Len(Volumes)
      /\ \A i \in DOMAIN Volumes :
            LET x == Claim(work.key, Volumes[i])
            IN  x \in Objects /\ x \notin Storages /\ x.kind = "PersistentVolumeClaim"
    BY <1>1, ClaimTyped DEF Volumes
<1>3. /\ work.index \in Nat /\ 1 <= work.index
      /\ work.step # "get" => work.index <= Len(Volumes)
      /\ work.step = "get" => work.index <= Len(Volumes) + 1
      /\ work.index <= Len(Volumes) => work.index \in DOMAIN Volumes
    BY <1>1, <1>2
<1>4. /\ ParentRef \in [obj : Objects, uid : Nat]
      /\ ParentRef.obj = work.key
    BY <1>1, <1>2 DEF ParentRef, Ref, Body
<1>5. work.index \in DOMAIN Volumes =>
        Target \in Objects /\ Target \notin Storages /\ Target.kind = "PersistentVolumeClaim"
    BY <1>2 DEF Target
<1> QED BY <1>1, <1>2, <1>3, <1>4, <1>5

----------------------------------------------------------------------------
(***************************************************************************)
(* WakeInv, volume by volume.                                              *)
(***************************************************************************)
Claimed(o, i) == Active(cache[o].body) /\ i \in DOMAIN cache[o].body.spec.volumes

LEMMA WakeParts ==
    WakeInv <=> \A o \in Storages : \A i : Claimed(o, i) => Covered(o, i)
BY DEF WakeInv, Claimed

\* While the cache stays, events and keys only come, and the worker keeps what
\* it has before it, every volume stays covered.
LEMMA CoveredKept ==
    ASSUME ClusterTypeOK, NEW o \in Storages, NEW i, Claimed(o, i), Covered(o, i),
           cache' = cache,
           \A y \in Objects : pend[y] \subseteq pend'[y],
           o \in queue => o \in queue',
           Ahead(o, i) => Covered(o, i)'
    PROVE  Covered(o, i)'
<1> DEFINE x == Claim(o, cache[o].body.spec.volumes[i])
<1>1. x \in Objects
    BY CachedParent, ClaimTyped DEF Claimed
<1>2. pend[x] \subseteq pend'[x]
    BY <1>1
<1>3. CASE Ahead(o, i)
    BY <1>3
<1>4. CASE ~Ahead(o, i)
    BY <1>2, <1>4 DEF Covered, Fits
<1> QED BY <1>3, <1>4

LEMMA WakeKept ==
    ASSUME ClusterTypeOK, WakeInv, cache' = cache,
           \A y \in Objects : pend[y] \subseteq pend'[y],
           \A o \in Storages : \A i : Claimed(o, i) =>
               /\ o \in queue => o \in queue'
               /\ Ahead(o, i) => Covered(o, i)'
    PROVE  WakeInv'
<1>1. ASSUME NEW o \in Storages, NEW i, Claimed(o, i)
      PROVE  Covered(o, i)'
    <2>1. Covered(o, i)
        BY <1>1, WakeParts
    <2> QED BY <1>1, <2>1, CoveredKept
<1>2. \A o \in Storages : \A i : Claimed(o, i)' => Claimed(o, i)
    BY DEF Claimed
<1> QED BY <1>1, <1>2 DEF WakeInv, Claimed

\* A worker at rest has no request to check.
LEMMA IdleCopy ==
    ASSUME work' = Idle
    PROVE  CopyOK' /\ WorkOK'
BY DEF CopyOK, WorkOK, Idle

LEMMA SameCopy ==
    ASSUME CopyOK, UNCHANGED <<live, cache, work>>
    PROVE  CopyOK'
BY DEF CopyOK, Target, Volumes, MutateFails, AlreadyOwned, Mutated

LEMMA SameWork ==
    ASSUME WorkTyped, UNCHANGED <<queue, work>>
    PROVE  WorkTyped'
BY DEF WorkTyped, WorkOK, Volumes

\* The error path, whatever else the step does to the store.
LEMMA RetryEffect ==
    ASSUME ClaimsInv, work.step # "idle", Retry, cache' = cache,
           \A y \in Objects : pend[y] \subseteq pend'[y]
    PROVE  WorkTyped' /\ CopyOK' /\ WakeInv'
<1>1. /\ ClusterTypeOK /\ WorkTyped /\ WakeInv
      /\ work.key \in Storages
      /\ work' = Idle /\ queue' = queue \cup {work.key}
    BY WorkerTyped DEF ClaimsInv, TypeOK, WorkTyped, Retry
<1>2. WorkTyped' /\ CopyOK'
    BY <1>1, IdleCopy DEF WorkTyped
<1>3. \A o \in Storages : \A i : Ahead(o, i) => Covered(o, i)'
    BY <1>1 DEF Ahead, Covered
<1> QED BY <1>1, <1>2, <1>3, WakeKept

\* On to the next volume, once the present one is covered.
LEMMA NextVolumeEffect ==
    ASSUME ClaimsInv, work.step # "idle", work.index <= Len(Volumes), NextVolume, cache' = cache,
           \A y \in Objects : pend[y] \subseteq pend'[y],
           \A o \in Storages : \A i :
               i = work.index /\ Ahead(o, i) /\ Claimed(o, i) => Covered(o, i)'
    PROVE  WorkTyped' /\ CopyOK' /\ WakeInv'
<1> DEFINE w == [step |-> "get", key |-> work.key, parent |-> work.parent,
                 index |-> work.index + 1, arg |-> None, base |-> 0]
<1>1. /\ ClusterTypeOK /\ WorkTyped /\ WorkOK /\ WakeInv /\ queue' = queue
      /\ work' = [work EXCEPT !.step = "get", !.arg = None, !.base = 0, !.index = @ + 1]
    BY DEF ClaimsInv, TypeOK, WorkTyped, NextVolume
<1>2. /\ work.key \in Storages /\ work.parent \in Body(work.key)
      /\ ~TargetMissing(work.parent.spec)
      /\ work.index \in Nat /\ 1 <= work.index /\ Len(Volumes) \in Nat
      /\ work = [step |-> work.step, key |-> work.key, parent |-> work.parent,
                 index |-> work.index, arg |-> work.arg, base |-> work.base]
    BY <1>1, WorkerTyped
<1>3. work' = w
    BY <1>1, <1>2
<1>4. Volumes' = Volumes
    BY <1>3 DEF Volumes
<1>5. WorkTyped'
    <2>1. w.index \in 1..Len(Volumes) + 1
        BY <1>2
    <2>2. /\ work'.step = "get" /\ work'.key = work.key /\ work'.parent = work.parent
          /\ work'.index = w.index /\ work'.arg = None /\ work'.base = 0
        BY <1>3
    <2>3. WorkOK'
        BY <1>2, <1>3, <1>4, <2>1, <2>2 DEF WorkOK
    <2> QED BY <1>1, <2>3 DEF WorkTyped
<1>6. CopyOK'
    BY <1>3 DEF CopyOK
<1>7. ASSUME NEW o \in Storages, NEW i, Claimed(o, i), Ahead(o, i)
      PROVE  Covered(o, i)'
    <2>1. o = work.key /\ work.index <= i /\ i \in Nat
        <3>1. i \in DOMAIN cache[o].body.spec.volumes /\ Active(cache[o].body)
            BY <1>7 DEF Claimed
        <3>2. i \in Nat
            BY <1>1, <3>1, CachedParent, ClaimTyped
        <3> QED BY <1>7, <3>2 DEF Ahead
    <2>2. CASE i = work.index
        BY <1>7, <2>1, <2>2
    <2>3. CASE i # work.index
        <3>1. work.index + 1 <= i
            BY <1>2, <2>1, <2>3
        <3>2. Ahead(o, i)'
            BY <1>3, <1>7, <3>1 DEF Ahead
        <3> QED BY <3>2 DEF Covered
    <2> QED BY <2>2, <2>3
<1> QED BY <1>1, <1>5, <1>6, <1>7, WakeKept

\* A request is prepared: what it carries comes from the cached claim.
LEMMA SendEffect ==
    ASSUME ClaimsInv, Reading, NEW step \in {"create", "update"}, Send(step, cache[Target]),
           ~MutateFails(cache[Target].body),
           (step = "create") <=> (cache[Target].body = None)
    PROVE  WorkTyped' /\ CopyOK' /\ WakeInv'
<1> DEFINE v == cache[Target]
           w == [step |-> step, key |-> work.key, parent |-> work.parent,
                 index |-> work.index, arg |-> Mutated(v.body), base |-> v.rv]
<1>1. /\ ClusterTypeOK /\ CacheInv /\ WorkTyped /\ WorkOK /\ WakeInv /\ queue' = queue
      /\ work' = [work EXCEPT !.step = step, !.arg = Mutated(v.body), !.base = v.rv]
      /\ work.step = "get" /\ work.index <= Len(Volumes)
      /\ UNCHANGED <<live, cache, pend>>
    BY DEF ClaimsInv, TypeOK, WorkTyped, Send, Reading
<1>2. /\ work.key \in Storages /\ work.parent \in Body(work.key)
      /\ ~TargetMissing(work.parent.spec)
      /\ work.index \in Nat /\ 1 <= work.index /\ Len(Volumes) \in Nat
      /\ Target \in Objects
      /\ work = [step |-> work.step, key |-> work.key, parent |-> work.parent,
                 index |-> work.index, arg |-> work.arg, base |-> work.base]
    BY <1>1, WorkerTyped
<1>3. work' = w
    BY <1>1, <1>2
<1>4. v.rv \in Nat
    BY <1>1, <1>2, VersionsTyped
<1>5. Volumes' = Volumes /\ Target' = Target
    BY <1>3 DEF Volumes, Target
<1>6. WorkTyped'
    <2>1. w.index \in 1..Len(Volumes) + 0
        BY <1>1, <1>2
    <2> QED BY <1>1, <1>2, <1>3, <1>4, <1>5, <2>1 DEF WorkTyped, WorkOK
<1>7. \A b : (MutateFails(b)' <=> MutateFails(b)) /\ Mutated(b)' = Mutated(b)
    BY <1>3 DEF MutateFails, AlreadyOwned, Mutated, Volumes
<1>8. CopyOK'
    <2>1. CASE step = "create"
        BY <1>3, <1>7, <2>1 DEF CopyOK
    <2>2. CASE step = "update"
        <3>1. v.rv = live[Target].rv => v = live[Target]
            BY <1>1, <1>2, CacheCurrent DEF CacheInv
        <3> QED BY <1>1, <1>3, <1>4, <1>5, <1>7, <2>2, <3>1 DEF CopyOK
    <2> QED BY <2>1, <2>2
<1>9. \A o \in Storages : \A i : Ahead(o, i) => Covered(o, i)'
    BY <1>1, <1>3 DEF Ahead, Covered
<1> QED BY <1>1, <1>6, <1>8, <1>9, WakeKept

----------------------------------------------------------------------------
(***************************************************************************)
(* The worker's steps.                                                     *)
(***************************************************************************)
LEMMA QuietStep ==
    ASSUME ClaimsInv, UNCHANGED <<live, cache, pend>>, budget' \in 0..MaxDisturbances,
           WorkTyped', CopyOK', WakeInv'
    PROVE  ClaimsInv'
<1>1. ClusterTypeOK'
    BY DEF ClaimsInv, TypeOK, ClusterTypeOK, TypedVersions
<1>2. CacheInv'
    BY DEF ClaimsInv, CacheInv, CacheOK
<1> QED BY <1>1, <1>2 DEF ClaimsInv, TypeOK, WorkTyped

LEMMA WriteStep ==
    ASSUME ClaimsInv, NEW x \in Objects, NEW b \in Body(x) \cup {None}, Write(x, b),
           cache' = cache, budget' \in 0..MaxDisturbances,
           WorkTyped', CopyOK', WakeInv'
    PROVE  ClaimsInv'
<1>1. ClusterTypeOK' /\ CacheInv'
    BY WriteKeeps DEF ClaimsInv, TypeOK
<1> QED BY <1>1 DEF ClaimsInv, TypeOK, WorkTyped

LEMMA SkippedStep ==
    ASSUME ClaimsInv, NEW o \in Storages, Skipped(o)
    PROVE  ClaimsInv'
<1>1. /\ ClusterTypeOK /\ WorkTyped /\ WakeInv /\ CopyOK /\ budget \in 0..MaxDisturbances
      /\ ~Active(cache[o].body) /\ queue' = queue \ {o}
      /\ UNCHANGED <<live, cache, pend, budget, work>>
    BY DEF ClaimsInv, TypeOK, WorkTyped, ClusterTypeOK, Skipped
<1>2. WorkTyped'
    BY <1>1 DEF WorkTyped, WorkOK, Volumes
<1>3. ASSUME NEW q \in Storages, NEW i, Claimed(q, i)
      PROVE  /\ q \in queue => q \in queue'
             /\ Ahead(q, i) => Covered(q, i)'
    BY <1>1, <1>3 DEF Claimed, Ahead, Covered
<1> QED BY <1>1, <1>2, <1>3, WakeKept, SameCopy, QuietStep

LEMMA BeginStep ==
    ASSUME ClaimsInv, NEW o \in Storages, Begin(o)
    PROVE  ClaimsInv'
<1> DEFINE p == cache[o].body
           w == [step |-> "get", key |-> o, parent |-> p, index |-> 1, arg |-> None, base |-> 0]
<1>1. /\ ClusterTypeOK /\ WorkTyped /\ WakeInv /\ budget \in 0..MaxDisturbances
      /\ work = Idle /\ Active(p) /\ queue' = queue \ {o} /\ work' = w
      /\ UNCHANGED <<live, cache, pend, budget>>
    BY DEF ClaimsInv, TypeOK, WorkTyped, ClusterTypeOK, Begin
<1>2. p \in Body(o) /\ ~TargetMissing(p.spec)
    BY <1>1, CachedParent
<1>3. WorkTyped'
    <2>1. Len(Volumes)' \in Nat
        BY <1>1, <1>2, ClaimTyped DEF Volumes
    <2>2. WorkOK'
        BY <1>1, <1>2, <2>1 DEF WorkOK
    <2> QED BY <1>1, <2>2 DEF WorkTyped
<1>4. CopyOK'
    BY <1>1 DEF CopyOK
<1>5. WakeInv'
    <2>1. ASSUME NEW q \in Storages, NEW i, Claimed(q, i)
          PROVE  Covered(q, i)'
        <3>1. CASE q = o
            <4>1. i \in 1..Len(p.spec.volumes) /\ Len(p.spec.volumes) \in Nat
                BY <1>2, <2>1, <3>1, ClaimTyped DEF Claimed
            <4>2. Ahead(o, i)'
                BY <1>1, <4>1 DEF Ahead
            <4> QED BY <3>1, <4>2 DEF Covered
        <3>2. CASE q # o
            <4>1. ~Ahead(q, i)
                BY <1>1 DEF Ahead, Idle
            <4> QED BY <1>1, <2>1, <3>2, <4>1, CoveredKept, WakeParts
        <3> QED BY <3>1, <3>2
    <2>2. \A q \in Storages : \A i : Claimed(q, i)' => Claimed(q, i)
        BY <1>1 DEF Claimed
    <2> QED BY <2>1, <2>2 DEF WakeInv, Claimed
<1> QED BY <1>1, <1>3, <1>4, <1>5, QuietStep

LEMMA ReadStep ==
    ASSUME ClaimsInv, Read
    PROVE  ClaimsInv'
<1>1. /\ ClusterTypeOK /\ WorkTyped /\ WorkOK /\ WakeInv /\ budget \in 0..MaxDisturbances
      /\ work.step = "get" /\ UNCHANGED <<live, cache, pend, budget>>
    BY DEF ClaimsInv, TypeOK, WorkTyped, ClusterTypeOK, Read, LoopEnds, MutateError, FoundAbsent,
           FoundEqual, FoundDifferent, Reading
<1>2. CASE LoopEnds
    <2>1. work' = Idle /\ queue' = queue /\ work.index > Len(Volumes)
        BY <1>2 DEF LoopEnds
    <2>2. WorkTyped' /\ CopyOK'
        BY <1>1, <2>1, IdleCopy DEF WorkTyped
    <2>3. ASSUME NEW o \in Storages, NEW i, Claimed(o, i), Ahead(o, i)
          PROVE  FALSE
        <3>1. /\ Volumes = cache[o].body.spec.volumes
              /\ i \in DOMAIN Volumes /\ work.index <= i
            BY <2>3 DEF Claimed, Ahead, Volumes
        <3>2. work.index \in Nat /\ Len(Volumes) \in Nat /\ DOMAIN Volumes = 1..Len(Volumes)
            BY <1>1, WorkerTyped
        <3> QED BY <2>1, <3>1, <3>2
    <2> QED BY <1>1, <2>1, <2>2, <2>3, WakeKept, QuietStep
<1>3. CASE MutateError
    BY <1>1, <1>3, RetryEffect, QuietStep DEF MutateError
<1>4. CASE FoundEqual
    <2> DEFINE b == cache[Target].body
    <2>1. /\ work.index <= Len(Volumes) /\ NextVolume
          /\ b # None /\ b.spec = Mutated(b) /\ b.owner = ParentRef
        BY <1>4 DEF FoundEqual, Reading, Unchanged
    <2>2. ASSUME NEW o \in Storages, NEW i, i = work.index, Ahead(o, i)
          PROVE  Covered(o, i)'
        <3>1. /\ work.key = o /\ work.parent = cache[o].body
              /\ Target = Claim(o, cache[o].body.spec.volumes[i])
            BY <2>2 DEF Ahead, Target, Volumes
        <3>2. Fits(o, cache[o].body, i, b)
            BY <2>1, <2>2, <3>1 DEF Fits, Mutated, SpecOf, ParentRef, Volumes
        <3> QED BY <1>1, <3>1, <3>2 DEF Covered, Fits
    <2> QED BY <1>1, <2>1, <2>2, NextVolumeEffect, QuietStep
<1>5. CASE FoundAbsent
    BY <1>1, <1>5, SendEffect, QuietStep DEF FoundAbsent
<1>6. CASE FoundDifferent
    BY <1>1, <1>6, SendEffect, QuietStep DEF FoundDifferent
<1> QED BY <1>2, <1>3, <1>4, <1>5, <1>6 DEF Read

\* A request that is carried out writes a claim that the worker's Storage owns.
LEMMA ApplyEffect ==
    ASSUME ClaimsInv, Apply
    PROVE  /\ work.step \in {"create", "update"} /\ work.index <= Len(Volumes)
           /\ Target \in Objects
           /\ \E b \in Body(Target) : Write(Target, b) /\ OwnedBy(b, work.key)
<1> DEFINE x == Target
           s == work.parent.spec
<1>1. /\ ClusterTypeOK /\ WorkOK /\ CopyOK
      /\ work.step \in {"create", "update"} /\ Accepted
    BY DEF ClaimsInv, TypeOK, Apply, Accepted
<1>2. /\ work.key \in Storages /\ work.parent \in Body(work.key) /\ ~TargetMissing(s)
      /\ work.index <= Len(Volumes) /\ work.index \in DOMAIN Volumes /\ x \in Objects
      /\ ParentRef \in [obj : Objects, uid : Nat] /\ ParentRef.obj = work.key
    BY <1>1, WorkerTyped
<1>3. /\ s \in Specs(work.key) /\ work.index \in DOMAIN s.volumes
      /\ x = Claim(work.key, s.volumes[work.index])
      /\ \A b : Mutated(b) = Render(s, s.volumes[work.index], SpecOf(b))
    BY <1>2 DEF Body, Target, Mutated, Volumes
<1>4. /\ live[x] \in Version(x) /\ live[x].rv \in Nat
    BY <1>1, <1>2, VersionsTyped
<1>5. ASSUME NEW b \in Body(x), b.owner = ParentRef
      PROVE  OwnedBy(b, work.key)
    BY <1>2, <1>5, ClusterAssumptions DEF OwnedBy, NoneAssumption
<1>6. CASE work.step = "create"
    <2> DEFINE n == [spec |-> Admit(work.arg), owner |-> ParentRef, uid |-> live[x].rv + 1]
    <2>1. ~MutationRefused(Mutated(None)) /\ work.arg = Mutated(None) /\ SpecOf(None) = None
        BY <1>1, <1>6 DEF CopyOK, MutateFails, SpecOf
    <2>2. Admit(work.arg) \in Specs(x)
        BY <1>2, <1>3, <2>1, ClaimsAssumptions DEF StoredAssumption
    <2>3. n \in Body(x)
        BY <1>2, <1>4, <2>2 DEF Body
    <2>4. Write(x, n)
        BY <1>6 DEF Apply
    <2> QED BY <1>1, <1>2, <1>5, <2>3, <2>4
<1>7. CASE work.step = "update"
    <2> DEFINE b == live[x].body
               n == [spec |-> work.arg, owner |-> ParentRef, uid |-> b.uid]
    <2>1. b # None /\ live[x].rv = work.base /\ ~ClaimImmutable(x, b.spec, work.arg)
        BY <1>1, <1>7 DEF Accepted
    <2>2. ~MutationRefused(Mutated(b)) /\ work.arg = Mutated(b) /\ SpecOf(b) = b.spec
        BY <1>1, <1>7, <2>1 DEF CopyOK, MutateFails, SpecOf
    <2>3. b \in Body(x) /\ b.spec \in Specs(x) /\ b.uid \in Nat
        BY <1>4, <2>1 DEF Version, Body
    <2>4. work.arg \in Specs(x)
        <3> DEFINE Made(c) == Render(s, s.volumes[work.index], c)
        <3>1. \A c \in Specs(x) : ~MutationRefused(Made(c)) /\ ~ClaimImmutable(x, c, Made(c))
                                     => Made(c) \in Specs(x)
            BY <1>2, <1>3, ClaimsAssumptions DEF StoredAssumption
        <3>2. work.arg = Made(b.spec)
            BY <1>3, <2>2
        <3> HIDE DEF Made
        <3> QED BY <2>1, <2>2, <2>3, <3>1, <3>2
    <2>5. n \in Body(x)
        BY <1>2, <2>3, <2>4 DEF Body
    <2>6. Write(x, n)
        BY <1>7 DEF Apply
    <2> QED BY <1>1, <1>2, <1>5, <2>5, <2>6
<1> QED BY <1>1, <1>6, <1>7

LEMMA AnswerStep ==
    ASSUME ClaimsInv, Answer \/ RequestLost \/ AnswerLost
    PROVE  ClaimsInv'
<1>1. ClusterTypeOK /\ TypedVersions(live) /\ PendTyped /\ budget \in 0..MaxDisturbances
    BY ClusterTypeParts DEF ClaimsInv, TypeOK
<1>2. budget' \in 0..MaxDisturbances /\ cache' = cache
    BY <1>1, BudgetTyped DEF Answer, CallSucceeds, CallRefused, RequestLost, AnswerLost
<1>3. CASE CallRefused \/ RequestLost
    BY <1>2, <1>3, RetryEffect, QuietStep DEF CallRefused, RequestLost, Calling
<1>4. CASE Apply /\ (NextVolume \/ Retry)
    <2>1. PICK b \in Body(Target) : Write(Target, b) /\ OwnedBy(b, work.key)
        BY <1>4, ApplyEffect
    <2>2. work.step # "idle" /\ work.index <= Len(Volumes) /\ Target \in Objects
        BY <1>4, ApplyEffect
    <2>3. /\ \A y \in Objects : pend[y] \subseteq pend'[y]
          /\ [rv |-> live[Target].rv + 1, body |-> b] \in pend'[Target]
        BY <1>1, <2>1, <2>2, WriteEffect
    <2>4. ASSUME NEW o \in Storages, NEW i, i = work.index, Ahead(o, i)
          PROVE  Covered(o, i)'
        <3>1. work.key = o /\ Target = Claim(o, cache[o].body.spec.volumes[i])
            BY <2>4 DEF Ahead, Target, Volumes
        <3>2. \E e \in pend'[Claim(o, cache[o].body.spec.volumes[i])] : OwnedBy(e.body, o)
            BY <2>1, <2>3, <3>1
        <3> QED BY <1>2, <3>2 DEF Covered
    <2>5. WorkTyped' /\ CopyOK' /\ WakeInv'
        BY <1>2, <1>4, <2>2, <2>3, <2>4, NextVolumeEffect, RetryEffect
    <2> QED BY <1>2, <2>1, <2>2, <2>5, WriteStep
<1> QED BY <1>3, <1>4 DEF Answer, CallSucceeds, AnswerLost

----------------------------------------------------------------------------
(***************************************************************************)
(* The steps of the rest of the cluster.                                   *)
(***************************************************************************)
\* A request outlasts what others write and what the watch delivers: the copy
\* it was made from is no longer the present one, or is untouched.
LEMMA CopyLasts ==
    ASSUME ClaimsInv, ClusterTypeOK', work' = work,
           \A y \in Objects : cache[y].rv <= cache'[y].rv,
           \A y \in Objects : live'[y] = live[y] \/ live'[y].rv = live[y].rv + 1
    PROVE  CopyOK'
<1>1. ClusterTypeOK /\ CacheInv /\ WorkOK /\ CopyOK
    BY DEF ClaimsInv, TypeOK
<1>2. Target' = Target /\ \A b : (MutateFails(b)' <=> MutateFails(b)) /\ Mutated(b)' = Mutated(b)
    BY DEF Target, Volumes, MutateFails, AlreadyOwned, Mutated
<1>3. CASE work.step # "update"
    BY <1>1, <1>2, <1>3 DEF CopyOK
<1>4. CASE work.step = "update"
    <2> DEFINE t == Target
    <2>1. t \in Objects /\ work.base \in Nat
        BY <1>1, <1>4, WorkerTyped
    <2>2. cache[t].rv \in Nat /\ live[t].rv \in Nat
        BY <1>1, <2>1, VersionsTyped
    <2>3. cache'[t].rv \in Nat
        BY <2>1 DEF ClusterTypeOK, TypedVersions, Version
    <2>4. work.base <= cache[t].rv /\ cache[t].rv <= live[t].rv /\ cache[t].rv <= cache'[t].rv
        BY <1>1, <1>4, <2>1 DEF CopyOK, CacheInv, CacheOK
    <2>5. work.base <= cache'[t].rv
        BY <2>1, <2>2, <2>3, <2>4
    <2>6. work.base = live'[t].rv => live'[t] = live[t]
        BY <2>1, <2>2, <2>4
    <2> QED BY <1>1, <1>2, <1>4, <2>5, <2>6 DEF CopyOK
<1> QED BY <1>3, <1>4

LEMMA OutsideStep ==
    ASSUME ClaimsInv, NEW x \in Objects, GarbageCollect(x) \/ User(x)
    PROVE  ClaimsInv'
<1>1. /\ ClusterTypeOK /\ CacheInv /\ WorkTyped /\ WakeInv
      /\ TypedVersions(live) /\ PendTyped
      /\ UNCHANGED <<queue, work>>
    BY ClusterTypeParts DEF ClaimsInv, TypeOK, WorkTyped, GarbageCollect, User
<1>2. cache' = cache /\ budget' \in 0..MaxDisturbances
    BY <1>1, CollectWrites, UserWrites DEF GarbageCollect, User
<1>3. PICK b \in Body(x) \cup {None} : Write(x, b)
    BY <1>1, CollectWrites, UserWrites DEF GarbageCollect, User
<1>4. /\ \A y \in Objects : pend[y] \subseteq pend'[y]
      /\ \A y \in Objects : y # x => live'[y] = live[y]
      /\ live'[x] = [rv |-> live[x].rv + 1, body |-> b]
    BY <1>1, <1>3, WriteEffect
<1>5. ClusterTypeOK'
    BY <1>1, <1>2, <1>3, WriteKeeps
<1>6. CopyOK'
    <2>1. \A y \in Objects : live'[y] = live[y] \/ live'[y].rv = live[y].rv + 1
        BY <1>4
    <2>2. \A y \in Objects : cache[y].rv <= cache'[y].rv
        BY <1>1, <1>2, VersionsTyped
    <2> QED BY <1>1, <1>5, <2>1, <2>2, CopyLasts
<1>7. \A o \in Storages : \A i : Ahead(o, i) => Covered(o, i)'
    BY <1>1, <1>2 DEF Ahead, Covered
<1>8. WakeInv'
    BY <1>1, <1>2, <1>4, <1>7, WakeKept
<1> QED BY <1>1, <1>2, <1>3, <1>6, <1>8, SameWork, WriteStep

LEMMA DeliverStep ==
    ASSUME ClaimsInv, NEW x \in Objects, Deliver(x)
    PROVE  ClaimsInv'
<1>1. ClusterTypeOK /\ CacheInv /\ WorkTyped /\ WakeInv
    BY DEF ClaimsInv, TypeOK, WorkTyped
<1>2. PICK e \in pend[x] :
          Receive(x, e) /\ queue' = queue \cup Woken(x, cache[x].body, e.body) /\ work' = work
    BY DEF Deliver
<1>3. /\ ClusterTypeOK' /\ CacheInv' /\ live' = live
      /\ cache'[x] = e /\ pend'[x] = pend[x] \ {e} /\ cache[x].rv < e.rv
      /\ \A y \in Objects : y # x => pend'[y] = pend[y] /\ cache'[y] = cache[y]
    BY <1>1, <1>2, ReceiveEffect
<1>4. WorkTyped'
    BY <1>1, <1>2 DEF WorkTyped, WorkOK, Volumes, Woken
<1>5. CopyOK'
    <2>1. e.rv \in Nat /\ \A y \in Objects : cache[y].rv \in Nat
        BY <1>1, VersionsTyped
    <2>2. \A y \in Objects : cache[y].rv <= cache'[y].rv
        BY <1>3, <2>1
    <2> QED BY <1>2, <1>3, <2>2, CopyLasts
<1>6. WakeInv'
    <2>1. SUFFICES ASSUME NEW o \in Storages, NEW i, Claimed(o, i)' PROVE Covered(o, i)'
        BY DEF WakeInv, Claimed
    <2>2. o \in Objects
        BY DEF Storages
    <2>3. CASE o \in queue'
        BY <2>3 DEF Covered
    <2>4. CASE o \notin queue'
        <3> DEFINE p == cache[o].body
                   y == Claim(o, p.spec.volumes[i])
        <3>1. o # x /\ o \notin queue
            BY <1>2, <2>4 DEF Woken
        <3>2. cache'[o] = cache[o]
            BY <1>3, <2>2, <3>1
        <3>3. Claimed(o, i) /\ Covered(o, i)
            BY <1>1, <2>1, <3>2, WakeParts DEF Claimed
        <3>4. y \in Objects /\ y.kind = "PersistentVolumeClaim"
            BY <1>1, <3>3, CachedParent, ClaimTyped DEF Claimed
        <3>5. CASE y # x
            <4>1. cache'[y] = cache[y] /\ pend'[y] = pend[y]
                BY <1>3, <3>4, <3>5
            <4> QED BY <1>2, <3>1, <3>2, <3>3, <4>1 DEF Covered, Fits, Ahead
        <3>6. CASE y = x
            <4>1. ~OwnedBy(cache[x].body, o) /\ ~OwnedBy(e.body, o)
                BY <1>2, <2>4, <3>4, <3>6 DEF Woken
            <4>2. ~Fits(o, p, i, cache[x].body)
                <5>1. Ref(o, p.uid) # None /\ Ref(o, p.uid).obj = o
                    <6>1. p \in Body(o)
                        BY <1>1, <3>3, CachedParent DEF Claimed
                    <6>2. Ref(o, p.uid) \in [obj : Objects, uid : Nat]
                        BY <2>2, <6>1 DEF Ref, Body
                    <6> QED BY <6>2, ClusterAssumptions DEF NoneAssumption, Ref
                <5> QED BY <4>1, <5>1 DEF Fits, OwnedBy
            <4>3. Ahead(o, i) \/ \E f \in pend[x] : OwnedBy(f.body, o)
                BY <3>1, <3>3, <3>6, <4>1, <4>2 DEF Covered
            <4>4. CASE Ahead(o, i)
                BY <1>2, <3>2, <4>4 DEF Covered, Ahead
            <4>5. CASE \E f \in pend[x] : OwnedBy(f.body, o)
                <5>1. \E f \in pend'[x] : OwnedBy(f.body, o)
                    BY <1>3, <4>1, <4>5
                <5> QED BY <3>2, <3>6, <5>1 DEF Covered
            <4> QED BY <4>3, <4>4, <4>5
        <3> QED BY <3>5, <3>6
    <2> QED BY <2>3, <2>4
<1> QED BY <1>3, <1>4, <1>5, <1>6 DEF ClaimsInv, TypeOK, WorkTyped

\* Every Storage that a list finds is queued.
LEMMA ListedCovers ==
    ASSUME NEW o \in Storages, live[o].body # None
    PROVE  o \in Listed(live)
BY DEF Listed, Woken, Storages

LEMMA RestartStep ==
    ASSUME ClaimsInv, Restart
    PROVE  ClaimsInv'
<1>1. ClusterTypeOK' /\ CacheInv' /\ cache' = live /\ live' = live
    BY RelistEffect DEF ClaimsInv, TypeOK, Restart
<1>2. queue' = Listed(live) /\ work' = Idle
    BY DEF Restart
<1>3. WorkTyped' /\ CopyOK'
    BY <1>2, IdleCopy DEF WorkTyped, Listed
<1>4. WakeInv'
    BY <1>1, <1>2, ListedCovers DEF WakeInv, Covered, Active
<1> QED BY <1>1, <1>3, <1>4 DEF ClaimsInv, TypeOK, WorkTyped

----------------------------------------------------------------------------
LEMMA ClaimsStart == Init => ClaimsInv
<1> SUFFICES ASSUME Init PROVE ClaimsInv
    OBVIOUS
<1>1. /\ ClusterTypeOK /\ CacheInv
      /\ cache = live /\ queue = Listed(live) /\ work = Idle
    BY ClusterStart DEF Init, ClusterInit
<1>2. queue \subseteq Storages /\ WorkOK /\ CopyOK
    BY <1>1 DEF Listed, WorkOK, CopyOK, Idle
<1>3. WakeInv
    BY <1>1, ListedCovers DEF WakeInv, Covered, Active
<1> QED BY <1>1, <1>2, <1>3 DEF ClaimsInv, TypeOK

LEMMA ClaimsStep == ClaimsInv /\ [Next]_vars => ClaimsInv'
<1> SUFFICES ASSUME ClaimsInv, [Next]_vars PROVE ClaimsInv'
    OBVIOUS
<1>1. ASSUME NEW o \in Storages, Skipped(o) \/ Begin(o)
      PROVE  ClaimsInv'
    BY <1>1, SkippedStep, BeginStep
<1>2. CASE Read \/ Answer \/ RequestLost \/ AnswerLost
    BY <1>2, ReadStep, AnswerStep
<1>3. ASSUME NEW x \in Objects, Deliver(x) \/ GarbageCollect(x) \/ User(x)
      PROVE  ClaimsInv'
    BY <1>3, DeliverStep, OutsideStep
<1>4. CASE Restart
    BY <1>4, RestartStep
<1>5. CASE UNCHANGED vars
    <2>1. WorkTyped' /\ CopyOK' /\ budget' \in 0..MaxDisturbances
        BY <1>5, SameWork, SameCopy DEF vars, ClaimsInv, TypeOK, WorkTyped, ClusterTypeOK
    <2>2. ASSUME NEW o \in Storages, NEW i PROVE Covered(o, i) => Covered(o, i)'
        BY <1>5 DEF vars, Covered, Fits, Ahead
    <2>3. WakeInv'
        BY <1>5, <2>2 DEF vars, ClaimsInv, WakeInv, Active
    <2> QED BY <1>5, <2>1, <2>3, QuietStep DEF vars
<1> QED BY <1>1, <1>2, <1>3, <1>4, <1>5 DEF Next

(***************************************************************************)
(* The storage-pvc controller keeps every variable in its type.            *)
(***************************************************************************)
THEOREM ClaimsTyped == Spec => []TypeOK
<1>1. ClaimsInv => TypeOK
    BY DEF ClaimsInv
<1> QED BY <1>1, ClaimsStart, ClaimsStep, PTL DEF Spec

(***************************************************************************)
(* The loop over the volumes never comes to rest with a volume left out,   *)
(* however many volumes a Storage has, wherever the loop is left by an     *)
(* error and whatever is edited, lost or restarted meanwhile.              *)
(***************************************************************************)
THEOREM ClaimsRemembered == Spec => []NoClaimForgotten
<1>1. ClaimsInv => NoClaimForgotten
    <2> SUFFICES ASSUME ClaimsInv, NEW o \in Storages, Active(live[o].body), AtRest(o),
                        NEW i \in DOMAIN live[o].body.spec.volumes
                 PROVE  Provided(o, i)
        BY DEF NoClaimForgotten
    <2> DEFINE p == live[o].body
               x == Claim(o, p.spec.volumes[i])
    <2>1. ClusterTypeOK /\ CacheInv /\ o \in Objects
        BY DEF ClaimsInv, TypeOK, Storages
    <2>2. /\ o \notin queue /\ work.key # o
          /\ pend[o] = {} /\ pend[x] = {}
        BY DEF AtRest, Active
    <2>3. cache[o] = live[o]
        BY <2>1, <2>2 DEF CacheInv, CacheOK
    <2>4. x \in Objects
        BY <2>1, <2>3, CachedParent, ClaimTyped
    <2>5. cache[x] = live[x]
        BY <2>1, <2>2, <2>4 DEF CacheInv, CacheOK
    <2>6. Covered(o, i)
        BY <2>3 DEF ClaimsInv, WakeInv
    <2> QED BY <2>2, <2>3, <2>5, <2>6 DEF Covered, Ahead, Fits, Provided
<1> QED BY <1>1, ClaimsStart, ClaimsStep, PTL DEF Spec

(***************************************************************************)
(* Two Storages whose names and volumes make the same claim name never     *)
(* take the claim from each other, whatever their names and volumes are.   *)
(***************************************************************************)
THEOREM ClaimsAreKept == Spec => ClaimsKept
<1> DEFINE OwnerStays(x) ==
        LET b == live[x].body
            n == live'[x].body
        IN  b # None /\ n # None /\ b.owner # None
              => n.owner = None \/ n.owner.obj = b.owner.obj
<1>1. ASSUME ClaimsInv, [Next]_vars, NEW x \in Objects
      PROVE  OwnerStays(x)
    <2>1. ClusterTypeOK /\ CopyOK /\ DOMAIN live = Objects
        BY <1>1 DEF ClaimsInv, TypeOK, ClusterTypeOK, TypedVersions
    <2>2. CASE live' = live
        BY <2>2
    <2>3. ASSUME NEW y \in Objects, GarbageCollect(y) \/ User(y)
          PROVE  OwnerStays(x)
        BY <1>1, <2>1, <2>3, OutsideKeepsOwner DEF GarbageCollect, User
    <2>4. CASE Apply
        <3>1. SUFFICES ASSUME live[x].body # None, live[x].body.owner # None,
                              live'[x] # live[x]
                       PROVE  live'[x].body.owner.obj = live[x].body.owner.obj
            OBVIOUS
        <3>2. Target = x
            BY <2>1, <2>4, <3>1 DEF Apply, Write
        <3>3. work.step = "update" /\ live[x].rv = work.base
            BY <2>4, <3>1, <3>2 DEF Apply, Accepted
        <3>4. live[x].body.owner.obj = work.key
            BY <2>1, <3>1, <3>2, <3>3 DEF CopyOK, MutateFails, AlreadyOwned
        <3>5. live'[x].body.owner = ParentRef
            BY <2>1, <2>4, <3>2, <3>3 DEF Apply, Write
        <3> QED BY <3>4, <3>5 DEF ParentRef, Ref
    <2>5. live' = live \/ Apply \/ \E y \in Objects : GarbageCollect(y) \/ User(y)
        BY <1>1 DEF Next, vars, Skipped, Begin, Read, LoopEnds, Reading, MutateError, FoundAbsent,
           FoundEqual, FoundDifferent, Answer, CallSucceeds, CallRefused, RequestLost, AnswerLost,
           Deliver, Receive, Restart, Relist
    <2> QED BY <2>2, <2>3, <2>4, <2>5
<1>2. ClaimsInv /\ [Next]_vars => \A x \in Objects : OwnerStays(x)
    BY <1>1
<1>3. ClaimsKept <=> [][\A x \in Objects : OwnerStays(x)]_vars
    BY DEF ClaimsKept
<1> QED BY <1>2, <1>3, ClaimsStart, ClaimsStep, PTL DEF Spec
=============================================================================
