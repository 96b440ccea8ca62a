----------------------------- MODULE ManagerProofs -----------------------------
(***************************************************************************)
(* Proofs about the manager of cmd/main.go: a change of leader costs the   *)
(* reconcile loop nothing (what a former leader's requests still do is     *)
(* what any worker's would), and the controllers that work together agree  *)
(* with each other whenever they are at rest.                              *)
(***************************************************************************)
EXTENDS Handover, Kalypso, ReconcilerProofs, PatchProofs, SequenceTheorems

\* What is proved of a worker's requests, read of the former leader's.
F == INSTANCE ReconcilerProofs WITH work <- late

LEMMA SameAssumptions ==
    /\ F!ParentsAssumption /\ F!ChildAssumption /\ F!RenderAssumption /\ F!AdmitAssumption
    /\ F!UserAssumption /\ F!NoneAssumption /\ F!BoundAssumption
<1>1. F!ParentsAssumption /\ F!ChildAssumption
    BY Assumptions DEF ParentsAssumption, ChildAssumption, F!ParentsAssumption, F!ChildAssumption
<1>2. F!RenderAssumption /\ F!AdmitAssumption
    BY Assumptions DEF RenderAssumption, AdmitAssumption, F!RenderAssumption, F!AdmitAssumption
<1>3. F!UserAssumption /\ F!NoneAssumption /\ F!BoundAssumption
    BY Assumptions DEF UserAssumption, NoneAssumption, BoundAssumption, Body,
       F!UserAssumption, F!NoneAssumption, F!BoundAssumption, F!Body
<1> QED BY <1>1, <1>2, <1>3

LEMMA SameVersions ==
    /\ \A x : F!Body(x) = Body(x)
    /\ \A x, b : F!Write(x, b) <=> Write(x, b)
    /\ F!ClusterTypeOK <=> ClusterTypeOK
    /\ Former!ClusterTypeOK <=> ClusterTypeOK
    /\ F!CacheInv <=> CacheInv
<1>1. \A x : F!Body(x) = Body(x) /\ Former!Body(x) = Body(x)
    BY DEF Body, F!Body, Former!Body
<1>2. \A x : F!Version(x) = Version(x) /\ Former!Version(x) = Version(x)
    BY <1>1 DEF Version, F!Version, Former!Version
<1>3. \A x, b : F!Write(x, b) <=> Write(x, b)
    BY DEF Write, F!Write
<1>4. /\ F!ClusterTypeOK <=> ClusterTypeOK
      /\ Former!ClusterTypeOK <=> ClusterTypeOK
    BY <1>2 DEF ClusterTypeOK, TypedVersions, F!ClusterTypeOK, F!TypedVersions,
                Former!ClusterTypeOK, Former!TypedVersions
<1>5. F!CacheInv <=> CacheInv
    BY DEF CacheInv, CacheOK, F!CacheInv, F!CacheOK
<1> QED BY <1>1, <1>3, <1>4, <1>5

LEMMA SameRequests ==
    /\ Former!TypeOK <=> F!TypeOK
    /\ Former!CopyInv <=> F!CopyInv
    /\ \A c \in Controllers : Former!Apply(c) <=> F!Apply(c)
<1>1. \A x : F!Body(x) = Former!Body(x)
    BY DEF F!Body, Former!Body
<1>2. F!Idle = Former!Idle
    BY DEF F!Idle, Former!Idle
<1>3. Former!TypeOK <=> F!TypeOK
    BY <1>1, <1>2, SameVersions DEF F!TypeOK, Former!TypeOK, F!WorkOK, Former!WorkOK
<1>4. Former!CopyInv <=> F!CopyInv
    BY DEF F!CopyInv, Former!CopyInv, F!CopyOK, Former!CopyOK, F!Target, Former!Target,
           F!Mutates, Former!Mutates, F!AlreadyOwned, Former!AlreadyOwned, F!SpecOf, Former!SpecOf
<1>5. ASSUME NEW c \in Controllers PROVE Former!Apply(c) <=> F!Apply(c)
    BY DEF F!Apply, Former!Apply, F!Create, Former!Create, F!Update, Former!Update, F!Delete,
           Former!Delete, F!CreateAccepted, Former!CreateAccepted, F!UpdateAccepted,
           Former!UpdateAccepted, F!DeleteAccepted, Former!DeleteAccepted, F!Target,
           Former!Target, F!Mutated, Former!Mutated, F!ParentRef, Former!ParentRef, F!Ref,
           Former!Ref, F!Write, Former!Write
<1> QED BY <1>3, <1>4, <1>5

----------------------------------------------------------------------------
(***************************************************************************)
(* What a step does to the store and the cache, seen by a request that is  *)
(* on the way.                                                             *)
(***************************************************************************)
StoreMoves ==
    \/ live' = live /\ \A y \in Objects : cache[y].rv <= cache'[y].rv
    \/ /\ cache' = cache
       /\ \E x \in Objects : \E b \in Body(x) \cup {None} : Write(x, b)

LEMMA StandsStill ==
    ASSUME ClusterTypeOK, live' = live, cache' = cache
    PROVE  StoreMoves
BY VersionsTyped DEF StoreMoves

LEMMA StoreSteps ==
    ASSUME IInv, [Next]_vars
    PROVE  StoreMoves
<1>1. TypeOK /\ ClusterTypeOK /\ CacheInv /\ CopyInv /\ \A c \in Controllers : WorkOK(c)
    BY DEF IInv, TypeOK
<1>2. ASSUME NEW c \in Controllers, Apply(c), cache' = cache
      PROVE  StoreMoves
    <2>1. Target(c) \in Objects
        BY <1>1, <1>2, ApplyEffect, TargetTyped
    <2> QED BY <1>1, <1>2, <2>1, ApplyEffect, StandsStill DEF StoreMoves
<1>3. ASSUME NEW y \in Objects, GarbageCollect(y) \/ User(y)
      PROVE  StoreMoves
    BY <1>1, <1>3, CollectWrites, UserWrites DEF GarbageCollect, User, StoreMoves
<1>4. ASSUME NEW y \in Objects, Deliver(y)
      PROVE  StoreMoves
    <2>1. PICK e \in pend[y] : Receive(y, e)
        BY <1>4 DEF Deliver
    <2>2. /\ live' = live /\ cache'[y] = e /\ cache[y].rv < e.rv
          /\ \A x \in Objects : x # y => cache'[x] = cache[x]
        BY <1>1, <2>1, ReceiveEffect
    <2>3. e.rv \in Nat /\ \A x \in Objects : cache[x].rv \in Nat
        BY <1>1, VersionsTyped
    <2> QED BY <2>2, <2>3 DEF StoreMoves
<1>5. CASE Restart
    BY <1>1, <1>5, RelistEffect DEF Restart, StoreMoves, CacheInv, CacheOK
<1>6. CASE UNCHANGED <<live, cache>>
    BY <1>1, <1>6, StandsStill
<1> QED BY <1>2, <1>3, <1>4, <1>5, <1>6
        DEF Next, vars, Skipped, Begin, Read, Reading, NothingToDelete, FoundToDelete,
            MutateError, FoundAbsent, FoundEqual, FoundDifferent, Answer, CallSucceeds,
            CallRefused, RequestLost, AnswerLost, Resync

----------------------------------------------------------------------------
(***************************************************************************)
(* The requests of the former leader stay fit to arrive.                   *)
(***************************************************************************)
LateOK == DOMAIN late = Controllers /\ \A c \in Controllers : F!WorkOK(c) /\ F!CopyOK(c)

LEMMA HandoverParts == HandoverInv <=> IInv /\ LateOK
BY SameRequests, SameVersions DEF HandoverInv, IInv, TypeOK, F!TypeOK, F!CopyInv, LateOK

LEMMA SameIdle == F!Idle = Idle
BY DEF Idle, F!Idle

\* A request that is still on the way, or is no more.
LEMMA LateStays ==
    ASSUME HandoverInv, IInv', StoreMoves, NEW c \in Controllers,
           late'[c] = late[c] \/ late'[c] = Idle
    PROVE  F!WorkOK(c)' /\ F!CopyOK(c)'
<1>1. /\ F!TypeOK /\ F!CacheInv /\ F!ClusterTypeOK
      /\ F!WorkOK(c) /\ F!CopyOK(c)
    BY HandoverParts, SameRequests, SameVersions DEF HandoverInv, IInv, TypeOK, LateOK
<1>2. F!ClusterTypeOK'
    BY SameVersions DEF IInv, TypeOK, ClusterTypeOK, TypedVersions, F!ClusterTypeOK, F!TypedVersions,
       Version, F!Version, Body, F!Body
<1>3. F!WorkOK(c)'
    BY <1>1, SameIdle DEF F!WorkOK
<1>4. CASE late'[c] = Idle
    BY <1>3, <1>4, SameIdle, SameAssumptions, F!IdleCopy
<1>5. CASE late'[c] = late[c] /\ live' = live /\ \A y \in Objects : cache[y].rv <= cache'[y].rv
    BY <1>1, <1>2, <1>3, <1>5, SameAssumptions, F!CacheMovesOn
<1>6. CASE late'[c] = late[c] /\ cache' = cache
              /\ \E x \in Objects : \E b \in Body(x) \cup {None} : Write(x, b)
    BY <1>1, <1>3, <1>6, SameVersions, SameAssumptions, F!WriteCopy
<1> QED BY <1>4, <1>5, <1>6 DEF StoreMoves

\* The working leader's requests become a former leader's.
LEMMA LateBegins ==
    ASSUME IInv, Restart, NEW c \in Controllers, late'[c] = work[c]
    PROVE  F!WorkOK(c)' /\ F!CopyOK(c)'
<1>1. TypeOK /\ ClusterTypeOK /\ CacheInv /\ WorkOK(c) /\ CopyOK(c)
    BY DEF IInv, TypeOK, CopyInv
<1>2. cache' = live /\ live' = live
    BY <1>1, RelistEffect DEF Restart
<1>3. F!WorkOK(c)'
    BY <1>1, SameIdle, SameVersions DEF WorkOK, F!WorkOK
<1>4. F!Target(c)' = Target(c)
    BY DEF Target, F!Target
<1>5. ASSUME work[c].step = "update" PROVE work[c].base <= live[Target(c)].rv
    <2>1. Target(c) \in Objects /\ work[c].base \in Nat
        BY <1>1, <1>5, TargetTyped DEF WorkOK, Idle
    <2>2. work[c].base <= cache[Target(c)].rv /\ cache[Target(c)].rv <= live[Target(c)].rv
        BY <1>1, <1>5, <2>1 DEF CopyOK, CacheInv, CacheOK
    <2> QED BY <1>1, <2>1, <2>2, VersionsTyped
<1>6. F!CopyOK(c)'
    BY <1>1, <1>2, <1>4, <1>5
       DEF CopyOK, F!CopyOK, Mutates, F!Mutates, AlreadyOwned, F!AlreadyOwned, SpecOf, F!SpecOf
<1> QED BY <1>3, <1>6

\* A late request that is carried out is, to the working leader, a write by
\* somebody else.
LEMMA LateArrives ==
    ASSUME HandoverInv, NEW c \in Controllers, Arrives(c)
    PROVE  IInv' /\ StoreMoves
<1>1. /\ F!TypeOK /\ F!CacheInv /\ F!CopyInv /\ F!WorkOK(c) /\ F!Apply(c)
      /\ IInv /\ ClusterTypeOK
      /\ UNCHANGED <<cache, queue, work, budget>>
    BY HandoverParts, SameRequests, SameVersions DEF HandoverInv, IInv, TypeOK, LateOK, Arrives
<1>2. /\ F!Target(c) \in Objects
      /\ \/ UNCHANGED <<live, pend>>
         \/ \E b \in F!Body(F!Target(c)) \cup {None} : F!Write(F!Target(c), b)
    BY <1>1, SameAssumptions, F!ApplyEffect, F!TargetTyped
<1>3. CASE UNCHANGED <<live, pend>>
    BY <1>1, <1>3, NextIInv, StandsStill DEF vars
<1>4. CASE \E b \in F!Body(F!Target(c)) \cup {None} : F!Write(F!Target(c), b)
    <2>1. PICK b \in Body(F!Target(c)) \cup {None} : Write(F!Target(c), b)
        BY <1>4, SameVersions
    <2>2. budget' \in 0..MaxDisturbances
        BY <1>1 DEF ClusterTypeOK
    <2>3. IInv'
        BY <1>1, <1>2, <2>1, <2>2, OutsideWrite
    <2> QED BY <1>1, <1>2, <2>1, <2>3 DEF StoreMoves
<1> QED BY <1>2, <1>3, <1>4

----------------------------------------------------------------------------
LEMMA HandoverStart == HInit => HandoverInv
<1> SUFFICES ASSUME HInit PROVE HandoverInv
    OBVIOUS
<1>1. IInv /\ DOMAIN late = Controllers /\ \A c \in Controllers : late[c] = Idle
    BY InitIInv DEF HInit
<1>2. \A c \in Controllers : F!WorkOK(c) /\ F!CopyOK(c)
    BY <1>1, SameIdle DEF F!WorkOK, F!CopyOK, F!Idle
<1> QED BY <1>1, <1>2, HandoverParts DEF LateOK

\* HandoverParts, after a step.
LEMMA HandoverAfter ==
    ASSUME IInv', DOMAIN late' = Controllers, \A c \in Controllers : F!WorkOK(c)' /\ F!CopyOK(c)'
    PROVE  HandoverInv'
<1>1. LateOK'
    BY DEF LateOK
<1> QED BY <1>1, HandoverParts, PTL

LEMMA HandoverStep == HandoverInv /\ [HNext]_hvars => HandoverInv'
<1> SUFFICES ASSUME HandoverInv, [HNext]_hvars PROVE HandoverInv'
    OBVIOUS
<1>1. IInv /\ DOMAIN late = Controllers /\ \A c \in Controllers : F!WorkOK(c) /\ F!CopyOK(c)
    BY HandoverParts DEF LateOK
<1>2. CASE [Next]_vars /\ late' = late
    <2>1. IInv' /\ StoreMoves
        BY <1>1, <1>2, NextIInv, StoreSteps
    <2> QED BY <1>1, <1>2, <2>1, LateStays, HandoverAfter
<1>3. CASE Takeover
    <2>1. IInv' /\ StoreMoves
        BY <1>1, <1>3, RestartStep, StoreSteps DEF Takeover, Next
    <2>2. /\ Restart /\ DOMAIN late' = Controllers
          /\ \A c \in Controllers : late'[c] = work[c] \/ late'[c] = late[c]
        BY <1>3 DEF Takeover
    <2>3. \A c \in Controllers : F!WorkOK(c)' /\ F!CopyOK(c)'
        BY <1>1, <2>1, <2>2, LateStays, LateBegins
    <2> QED BY <2>1, <2>2, <2>3, HandoverAfter
<1>4. ASSUME NEW c \in Controllers, Arrives(c) \/ Vanishes(c)
      PROVE  HandoverInv'
    <2>1. IInv' /\ StoreMoves
        BY <1>1, <1>4, LateArrives, NextIInv, StoreSteps DEF Vanishes
    <2>2. /\ DOMAIN late' = Controllers
          /\ \A d \in Controllers : late'[d] = late[d] \/ late'[d] = Idle
        BY <1>1, <1>4 DEF Arrives, Vanishes, Forget
    <2>3. \A d \in Controllers : F!WorkOK(d)' /\ F!CopyOK(d)'
        BY <2>1, <2>2, LateStays
    <2> QED BY <2>1, <2>2, <2>3, HandoverAfter
<1> QED BY <1>2, <1>3, <1>4 DEF HNext, hvars

(***************************************************************************)
(* Requests of a leader that has lost its lease, arriving at any time      *)
(* after its successor began or not at all, lose no wakeup: the successor  *)
(* never comes to rest on a child that is not what it would make of it.    *)
(***************************************************************************)
THEOREM NoWakeupIsLostInHandover == HSpec => []NoLostWakeup
<1>1. HandoverInv => NoLostWakeup
    BY RestIsSettled DEF HandoverInv
<1> QED BY <1>1, HandoverStart, HandoverStep, PTL DEF HSpec

(***************************************************************************)
(* Nor do they take a child away from the parent that controls it: the     *)
(* check that SetControllerReference made in the former leader holds as    *)
(* long as the resource version that its update carries is the present     *)
(* one.                                                                    *)
(***************************************************************************)
THEOREM ControllerIsKeptInHandover == HSpec => ControllerKept
<1>1. ASSUME HandoverInv, [HNext]_hvars, NEW x \in Objects
      PROVE  OwnerKept(x)
    <2>1. IInv /\ F!TypeOK /\ F!CopyInv
        BY <1>1, SameRequests DEF HandoverInv
    <2>2. ASSUME NEW c \in Controllers, Arrives(c)
          PROVE  OwnerKept(x)
        <3>1. F!OwnerKept(x)
            BY <2>1, <2>2, SameRequests, SameAssumptions, F!ApplyKeepsOwner DEF Arrives
        <3> QED BY <3>1 DEF OwnerKept, F!OwnerKept
    <2>3. CASE [Next]_vars
        BY <2>1, <2>3, NextKeepsOwner
    <2> QED BY <1>1, <2>2, <2>3 DEF HNext, hvars, Takeover, Vanishes, Next
<1>2. HandoverInv /\ [HNext]_hvars => [\A x \in Objects : OwnerKept(x)]_vars
    BY <1>1
<1>3. ControllerKept <=> [][\A x \in Objects : OwnerKept(x)]_vars
    BY DEF ControllerKept, OwnerKept
<1> QED BY <1>2, <1>3, HandoverStart, HandoverStep, PTL DEF HSpec


----------------------------------------------------------------------------
(***************************************************************************)
(* What the controllers of Kalypso leave at rest.                          *)
(***************************************************************************)
\* The controllers by name, as Kalypso's operators dispatch on them.
LEMMA Kinds ==
    /\ ParentKind("workload-compute") = "Workload" /\ ParentKind("compute-hpa") = "Compute"
    /\ ParentKind("networking-service") = "Networking"
    /\ ParentKind("networking-ingress") = "Networking"
    /\ ParentKind("security-role") = "Security" /\ ParentKind("security-rolebinding") = "Security"
    /\ WorkloadReconcilers["workload-compute"] = ComputeReconciler
BY DEF ParentKind, WorkloadReconcilers, CapabilityReconcilers, ComputeReconciler, HPAReconciler,
       ServiceReconciler, IngressReconciler, RoleReconciler, RoleBindingReconciler

\* A controller at rest has, in the terms of Kalypso, what it wants.
LEMMA RestAgrees ==
    ASSUME IInv, NEW c \in Controllers, NEW o \in KFor(c), Quiescent(c, o),
           live[o].body # None, ~Skip(c, live[o].body.spec) \/ ~KSkip(c, live[o].body.spec)
    PROVE  LET p == live[o].body
               x == KChild(c, o, p.spec)
               b == live[x].body
           IN  /\ o \in For(c) /\ p.spec \in Specs(o) /\ x \in Objects
               /\ IF KWanted(c, p.spec)
                  THEN /\ b # None /\ b.spec \in Specs(x) /\ b.owner = Ref(o, p.uid)
                       /\ b.spec = KAdmit(x, KRender(c, o, p.spec, b.spec))
                       /\ "error" \notin DOMAIN b.spec
                  ELSE ~OwnedBy(b, o)
<1> DEFINE p == live[o].body
           x == KChild(c, o, p.spec)
           b == live[x].body
<1>1. /\ o \in For(c) /\ For(c) \subseteq Objects /\ Owns(c) \subseteq Objects
    BY KalypsoAssumptions, Assumptions DEF Wiring, ParentsAssumption
<1>2. p \in Body(o) /\ p.spec \in Specs(o)
    BY <1>1 DEF IInv, TypeOK, ClusterTypeOK, TypedVersions, Version, Body
<1>3. ~Skip(c, p.spec)
    BY <1>1, <1>2, KalypsoAssumptions DEF Wiring
<1>4. x = Child(c, o, p.spec) /\ (Wanted(c, p.spec) <=> KWanted(c, p.spec))
    BY <1>1, <1>2, <1>3, KalypsoAssumptions DEF Wiring
<1>5. x \in Objects
    BY <1>1, <1>2, <1>3, <1>4, Assumptions DEF ChildAssumption
<1>6. Agrees(c, o, p, live[Child(c, o, p.spec)].body)
    BY <1>1, <1>3, RestIsSettled DEF NoLostWakeup, Settled, Active
<1>7. CASE ~KWanted(c, p.spec)
    BY <1>1, <1>2, <1>4, <1>5, <1>6, <1>7 DEF Agrees
<1>8. CASE KWanted(c, p.spec)
    <2>1. /\ b # None /\ b.owner = Ref(o, p.uid)
          /\ b.spec = Admit(x, Render(c, o, p.spec, b.spec))
        BY <1>4, <1>6, <1>8 DEF Agrees
    <2>2. b.spec \in Specs(x)
        BY <1>5, <2>1 DEF IInv, TypeOK, ClusterTypeOK, TypedVersions, Version, Body
    <2>3. b.spec = KAdmit(x, KRender(c, o, p.spec, b.spec))
        <3> HIDE DEF p, b
        <3> QED BY <1>1, <1>2, <1>3, <1>4, <1>8, <2>1, <2>2, KalypsoAssumptions DEF Wiring
    <2>4. "error" \notin DOMAIN b.spec
        BY <1>5, <2>2, KalypsoAssumptions DEF ErrorAssumption
    <2> QED BY <1>1, <1>2, <1>5, <1>8, <2>1, <2>2, <2>3, <2>4
<1> QED BY <1>7, <1>8

\* The fields a mutate function sets, after the hatches.
LEMMA FieldsKept ==
    ASSUME NEW set, NEW kept, NEW hatches, IsHatches(hatches), NEW kind,
           ApplyEscapeHatches(Over(set, kept), hatches, kind) # Failed
    PROVE  LET r == ApplyEscapeHatches(Over(set, kept), hatches, kind)
           IN  \A f \in DOMAIN set \ Hatched(hatches, kind) : f \in DOMAIN r /\ r[f] = set[f]
<1>1. IsObject(Over(set, kept))
    BY DEF IsObject, Over
<1>2. /\ DOMAIN set \subseteq DOMAIN Over(set, kept)
      /\ \A f \in DOMAIN set : Over(set, kept)[f] = set[f]
    BY DEF Over
<1>3. Extends(ApplyEscapeHatches(Over(set, kept), hatches, kind), Over(set, kept),
              Hatched(hatches, kind))
    BY <1>1, HatchesExtend
<1> QED BY <1>2, <1>3 DEF Extends, Within

LEMMA FailedHasError == "error" \in DOMAIN Failed
BY DEF Failed

----------------------------------------------------------------------------
(***************************************************************************)
(* Role and RoleBinding.                                                   *)
(***************************************************************************)
LEMMA RoleAtRest ==
    ASSUME IInv, "security-role" \in Controllers, NEW o \in KFor("security-role"),
           Quiescent("security-role", o), Active("security-role", live[o].body)
    PROVE  LET p == live[o].body
               r == live[RoleChild(o)].body
           IN  IF RoleWanted(p.spec)
               THEN /\ r # None /\ r.owner = Ref(o, p.uid)
                    /\ \/ "rules" \in Hatched(p.spec.escapeHatches, "Role")
                       \/ r.spec.rules = p.spec.rbac.rules
               ELSE ~OwnedBy(r, o)
<1> DEFINE c == "security-role"
           p == live[o].body
           s == p.spec
           r == live[RoleChild(o)].body
           set == [rules |-> s.rbac.rules]
           kept == Kept(Existing(r.spec), {"rules"})
           new == ApplyEscapeHatches(Over(set, kept), s.escapeHatches, "Role")
<1>1. KChild(c, o, s) = RoleChild(o) /\ (KWanted(c, s) <=> RoleWanted(s))
    BY Kinds DEF KChild, KWanted
<1>2. KRender(c, o, s, r.spec) = new
    BY Kinds DEF KRender, RoleRender
<1>3. \A n : KAdmit(RoleChild(o), n) = n
    BY DEF KAdmit, RoleChild, Derived, Object
<1>4. /\ o \in For(c) /\ s \in Specs(o)
      /\ IF RoleWanted(s)
         THEN r # None /\ r.owner = Ref(o, p.uid) /\ r.spec = new /\ "error" \notin DOMAIN r.spec
         ELSE ~OwnedBy(r, o)
    <2> HIDE DEF new
    <2> QED BY <1>1, <1>2, <1>3, RestAgrees DEF Active
<1>5. ASSUME RoleWanted(s) PROVE \/ "rules" \in Hatched(s.escapeHatches, "Role")
                                 \/ r.spec.rules = s.rbac.rules
    <2>1. IsHatches(s.escapeHatches)
        BY <1>4, KalypsoAssumptions DEF ListsAssumption, CapabilityReconcilers
    <2>2. new # Failed
        <3> HIDE DEF new
        <3> QED BY <1>4, <1>5, FailedHasError
    <2>3. "rules" \in DOMAIN set /\ set["rules"] = s.rbac.rules
        OBVIOUS
    <2> HIDE DEF set, kept
    <2>4. \A f \in DOMAIN set \ Hatched(s.escapeHatches, "Role") : new[f] = set[f]
        BY <2>1, <2>2, FieldsKept
    <2> QED BY <1>4, <1>5, <2>3, <2>4
<1> QED BY <1>4, <1>5

LEMMA RoleBindingAtRest ==
    ASSUME IInv, "security-rolebinding" \in Controllers, NEW o \in KFor("security-rolebinding"),
           Quiescent("security-rolebinding", o), live[o].body # None,
           ~TargetMissing(live[o].body.spec)
    PROVE  LET p == live[o].body
               b == live[RoleBindingChild(o)].body
           IN  IF RoleBindingWanted(p.spec)
               THEN /\ b # None /\ b.owner = Ref(o, p.uid)
                    /\ \/ "roleRef" \in Hatched(p.spec.escapeHatches, "RoleBinding")
                       \/ b.spec.roleRef = Append(o.name, "role")
               ELSE ~OwnedBy(b, o)
<1> DEFINE c == "security-rolebinding"
           p == live[o].body
           s == p.spec
           b == live[RoleBindingChild(o)].body
           set == [roleRef |-> Append(o.name, "role"),
                   subjects |-> <<ResourceRef(s.targetRef.resource, o.ns)>>]
           kept == Kept(Existing(b.spec), {"roleRef", "subjects"})
           new == ApplyEscapeHatches(Over(set, kept), s.escapeHatches, "RoleBinding")
<1>1. KChild(c, o, s) = RoleBindingChild(o) /\ (KWanted(c, s) <=> RoleBindingWanted(s))
    BY Kinds DEF KChild, KWanted
<1>2. KRender(c, o, s, b.spec) = new
    BY Kinds DEF KRender, RoleBindingRender
<1>3. \A n : KAdmit(RoleBindingChild(o), n) = n
    BY DEF KAdmit, RoleBindingChild, Derived, Object
<1>4. ~KSkip(c, s)
    BY Kinds DEF KSkip
<1>5. /\ o \in For(c) /\ s \in Specs(o)
      /\ IF RoleBindingWanted(s)
         THEN b # None /\ b.owner = Ref(o, p.uid) /\ b.spec = new /\ "error" \notin DOMAIN b.spec
         ELSE ~OwnedBy(b, o)
    <2> HIDE DEF new
    <2> QED BY <1>1, <1>2, <1>3, <1>4, RestAgrees
<1>6. ASSUME RoleBindingWanted(s)
      PROVE  \/ "roleRef" \in Hatched(s.escapeHatches, "RoleBinding")
             \/ b.spec.roleRef = Append(o.name, "role")
    <2>1. IsHatches(s.escapeHatches)
        BY <1>5, KalypsoAssumptions DEF ListsAssumption, CapabilityReconcilers
    <2>2. new # Failed
        <3> HIDE DEF new
        <3> QED BY <1>5, <1>6, FailedHasError
    <2>3. "roleRef" \in DOMAIN set /\ set["roleRef"] = Append(o.name, "role")
        OBVIOUS
    <2> HIDE DEF set, kept
    <2>4. \A f \in DOMAIN set \ Hatched(s.escapeHatches, "RoleBinding") : new[f] = set[f]
        BY <2>1, <2>2, FieldsKept
    <2> QED BY <1>5, <1>6, <2>3, <2>4
<1> QED BY <1>5, <1>6

LEMMA BindingsRest == IInv => BindingsAtRest
<1> SUFFICES ASSUME IInv, NEW o \in KFor("security-role"),
                    AtRest({"security-role", "security-rolebinding"}, o),
                    Active("security-role", live[o].body)
             PROVE  LET p == live[o].body
                        b == live[RoleBindingChild(o)].body
                    IN  IF RoleWanted(p.spec)
                        THEN Hatched(p.spec.escapeHatches, "RoleBinding") = {} =>
                               /\ b # None /\ b.owner = Ref(o, p.uid)
                               /\ LET r == live[Object("Role", o.ns, b.spec.roleRef)].body
                                  IN  /\ r # None /\ r.owner = Ref(o, p.uid)
                                      /\ "rules" \in Hatched(p.spec.escapeHatches, "Role")
                                         \/ r.spec.rules = p.spec.rbac.rules
                        ELSE ~OwnedBy(b, o) /\ ~OwnedBy(live[RoleChild(o)].body, o)
    BY DEF BindingsAtRest
<1> DEFINE p == live[o].body
<1>1. /\ "security-role" \in Controllers /\ Quiescent("security-role", o)
      /\ "security-rolebinding" \in Controllers /\ Quiescent("security-rolebinding", o)
    BY DEF AtRest
<1>2. o \in KFor("security-rolebinding")
    BY Kinds DEF KFor
<1>3. p # None /\ p.spec \in Specs(o) /\ o \in For("security-role")
    BY <1>1, KalypsoAssumptions DEF Active, Wiring, IInv, TypeOK, ClusterTypeOK, TypedVersions,
                                    Version, Body, KFor
<1>4. ~TargetMissing(p.spec)
    BY <1>1, <1>3, Kinds, KalypsoAssumptions DEF Active, Wiring, KSkip
<1>5. RoleBindingWanted(p.spec) <=> RoleWanted(p.spec)
    BY DEF RoleBindingWanted, RoleWanted
<1>6. Object("Role", o.ns, Append(o.name, "role")) = RoleChild(o)
    BY DEF RoleChild, Derived
<1> HIDE DEF p
<1>7. CASE ~RoleWanted(p.spec)
    BY <1>1, <1>2, <1>3, <1>4, <1>5, <1>7, RoleAtRest, RoleBindingAtRest DEF p
<1>8. CASE RoleWanted(p.spec)
    BY <1>1, <1>2, <1>3, <1>4, <1>5, <1>6, <1>8, RoleAtRest, RoleBindingAtRest DEF p
<1> QED BY <1>7, <1>8 DEF p

----------------------------------------------------------------------------
(***************************************************************************)
(* Service and Ingress.                                                    *)
(***************************************************************************)
LEMMA ServiceAtRest ==
    ASSUME IInv, "networking-service" \in Controllers, NEW o \in KFor("networking-service"),
           Quiescent("networking-service", o), live[o].body # None,
           ~TargetMissing(live[o].body.spec), ServiceWanted(live[o].body.spec)
    PROVE  LET s == live[o].body.spec
               b == live[ServiceChild(o, s)].body
           IN  /\ b # None
               /\ "ports" \notin Hatched(s.escapeHatches, "Service")
                    => b.spec.ports = s.service.ports
<1> DEFINE c == "networking-service"
           s == live[o].body.spec
           x == ServiceChild(o, s)
           b == live[x].body
           set == [selector |-> s.targetRef.resource, ports |-> s.service.ports]
           kept == Over(IF s.service.type # "" THEN [type |-> s.service.type] ELSE <<>>,
                        Kept(Existing(b.spec), {"selector", "ports", "type"}))
           new == ApplyEscapeHatches(Over(set, kept), s.escapeHatches, "Service")
<1>1. KChild(c, o, s) = x /\ KWanted(c, s) /\ ~KSkip(c, s)
    BY Kinds DEF KChild, KWanted, KSkip
<1>2. KRender(c, o, s, b.spec) = new
    BY Kinds DEF KRender, ServiceRender
<1>3. \A n : KAdmit(x, n) = ServiceAdmit(n)
    BY DEF KAdmit, ServiceChild, Object
<1>4. /\ o \in For(c) /\ s \in Specs(o)
      /\ b # None /\ b.spec = ServiceAdmit(new) /\ "error" \notin DOMAIN b.spec
    <2> HIDE DEF new
    <2> QED BY <1>1, <1>2, <1>3, RestAgrees
<1>5. ASSUME "ports" \notin Hatched(s.escapeHatches, "Service")
      PROVE  b.spec.ports = s.service.ports
    <2>1. IsHatches(s.escapeHatches)
        BY <1>4, KalypsoAssumptions DEF ListsAssumption, CapabilityReconcilers
    <2>2. /\ DOMAIN new \subseteq DOMAIN ServiceAdmit(new)
          /\ \A f \in DOMAIN new : ServiceAdmit(new)[f] = new[f]
        <3> HIDE DEF new
        <3> QED BY DEF ServiceAdmit, Over
    <2>3. new # Failed
        <3> HIDE DEF new
        <3> QED BY <1>4, <2>2, FailedHasError
    <2>4. "ports" \in DOMAIN set /\ set["ports"] = s.service.ports
        OBVIOUS
    <2> HIDE DEF set, kept
    <2>5. \A f \in DOMAIN set \ Hatched(s.escapeHatches, "Service") : f \in DOMAIN new /\ new[f] = set[f]
        BY <2>1, <2>3, FieldsKept
    <2> HIDE DEF new
    <2> QED BY <1>4, <1>5, <2>2, <2>4, <2>5
<1> QED BY <1>4, <1>5

\* g holds the rules of the first n routes.
RuleSteps(g, s, n) ==
    g = [i \in 0..n |-> IF i = 0 THEN <<>> ELSE g[i - 1] \o RouteRules(s, Routes(s)[i])]

LEMMA RuleStepsExist ==
    ASSUME NEW s
    PROVE  \A n \in Nat : \E g : RuleSteps(g, s, n)
<1> DEFINE T == {n \in Nat : ~\E g : RuleSteps(g, s, n)}
<1>1. SUFFICES ASSUME T # {} PROVE FALSE
    OBVIOUS
<1>2. PICK n \in T : \A m \in T : n <= m
    <2> HIDE DEF T
    <2>1. T \in SUBSET Nat
        BY DEF T
    <2> QED BY <1>1, <2>1, LeastNat
<1>3. CASE n = 0
    <2>1. RuleSteps([i \in 0..0 |-> <<>>], s, 0)
        BY DEF RuleSteps
    <2> QED BY <1>3, <2>1
<1>4. CASE n # 0
    <2>1. n - 1 \in Nat /\ n - 1 \notin T
        BY <1>2, <1>4
    <2>2. PICK g : RuleSteps(g, s, n - 1)
        BY <2>1
    <2> DEFINE h == [i \in 0..n |-> IF i = n THEN g[n - 1] \o RouteRules(s, Routes(s)[n]) ELSE g[i]]
    <2>3. \A i \in 0..n : h[i] = IF i = 0 THEN <<>> ELSE h[i - 1] \o RouteRules(s, Routes(s)[i])
        BY <1>4, <2>1, <2>2 DEF RuleSteps
    <2>4. RuleSteps(h, s, n)
        BY <2>3 DEF RuleSteps
    <2> QED BY <2>4
<1> QED BY <1>3, <1>4

\* Every backend of r is the Service's, on the port of which the Ingress knows.
RuleFits(s, r) ==
    \A j \in DOMAIN r.paths :
        r.paths[j].service = s.targetRef.resource /\ r.paths[j].port = IngressPort(s)

LEMMA RouteFits ==
    ASSUME NEW s, NEW route, Len(route.hostnames) \in Nat
    PROVE  /\ Len(RouteRules(s, route)) \in Nat
           /\ RouteRules(s, route) = [k \in 1..Len(RouteRules(s, route)) |-> RouteRules(s, route)[k]]
           /\ \A k \in 1..Len(RouteRules(s, route)) : RuleFits(s, RouteRules(s, route)[k])
<1> DEFINE paths == IF route.paths = <<>> THEN <<"/">> ELSE route.paths
           hosts == IF route.hostnames = <<>> THEN <<"">> ELSE route.hostnames
           rule(i) == [host |-> hosts[i],
                       paths |-> [j \in 1..Len(paths) |-> Backend(s, paths[j], IngressPort(s))]]
           q == RouteRules(s, route)
<1>1. q = [i \in 1..Len(hosts) |-> rule(i)]
    BY DEF RouteRules
<1>2. Len(hosts) \in Nat
    OBVIOUS
<1>3. \A i : RuleFits(s, rule(i))
    BY DEF RuleFits, Backend
<1> HIDE DEF q, hosts, rule
<1>4. Len(q) = Len(hosts)
    BY <1>1, <1>2
<1> QED BY <1>1, <1>2, <1>3, <1>4 DEF q

(***************************************************************************)
(* All rules of an Ingress with routes, by induction over the routes.      *)
(***************************************************************************)
LEMMA RulesFit ==
    ASSUME NEW s, Routes(s) # <<>>, Len(Routes(s)) \in Nat,
           \A i \in 1..Len(Routes(s)) : Len(Routes(s)[i].hostnames) \in Nat
    PROVE  \A i \in DOMAIN IngressRules(s) : RuleFits(s, IngressRules(s)[i])
<1> DEFINE n == Len(Routes(s))
           S == {RouteRules(s, Routes(s)[ik[1]])[ik[2]] :
                    ik \in {p \in (1..n) \X Nat : p[2] \in 1..Len(RouteRules(s, Routes(s)[p[1]]))}}
           h == CHOOSE g : g = [i \in 0..n |->
                    IF i = 0 THEN <<>> ELSE g[i - 1] \o RouteRules(s, Routes(s)[i])]
<1>1. RuleSteps(h, s, n)
    BY RuleStepsExist DEF RuleSteps
<1>2. IngressRules(s) = h[n]
    BY DEF IngressRules
<1>3. \A r \in S : RuleFits(s, r)
    BY RouteFits
<1>4. ASSUME NEW i \in 1..n PROVE RouteRules(s, Routes(s)[i]) \in Seq(S)
    <2> DEFINE q == RouteRules(s, Routes(s)[i])
    <2>1. Len(q) \in Nat /\ q = [k \in 1..Len(q) |-> q[k]]
        BY RouteFits
    <2>2. \A k \in 1..Len(q) : q[k] \in S
        <3> TAKE k \in 1..Len(q)
        <3>1. <<i, k>> \in {p \in (1..n) \X Nat : p[2] \in 1..Len(RouteRules(s, Routes(s)[p[1]]))}
            BY <2>1
        <3> QED BY <3>1
    <2> HIDE DEF q, S
    <2>3. q \in [1..Len(q) -> S]
        BY <2>1, <2>2
    <2> QED BY <2>1, <2>3, SeqDef DEF q
<1> HIDE DEF S, h
<1>5. h[n] \in Seq(S)
    <2> DEFINE T == {i \in 0..n : h[i] \notin Seq(S)}
    <2>1. SUFFICES ASSUME T # {} PROVE FALSE
        OBVIOUS
    <2>2. PICK m \in T : \A k \in T : m <= k
        <3> HIDE DEF T
        <3>1. T \in SUBSET Nat
            BY DEF T
        <3> QED BY <2>1, <3>1, LeastNat
    <2>3. m # 0
        <3>1. h[0] = <<>>
            BY <1>1 DEF RuleSteps
        <3> QED BY <2>2, <3>1, EmptySeq
    <2>4. m - 1 \in 0..n /\ h[m - 1] \in Seq(S) /\ m \in 1..n
        BY <2>2, <2>3
    <2>5. h[m] = h[m - 1] \o RouteRules(s, Routes(s)[m])
        BY <1>1, <2>3, <2>4 DEF RuleSteps
    <2>6. h[m] \in Seq(S)
        BY <1>4, <2>4, <2>5, ConcatProperties
    <2> QED BY <2>2, <2>6
<1>6. \A i \in DOMAIN h[n] : h[n][i] \in S
    BY <1>5, LenProperties, ElementOfSeq
<1> QED BY <1>2, <1>3, <1>6

LEMMA IngressAtRest ==
    ASSUME IInv, "networking-ingress" \in Controllers, NEW o \in KFor("networking-ingress"),
           Quiescent("networking-ingress", o), live[o].body # None,
           ~TargetMissing(live[o].body.spec), Routes(live[o].body.spec) # <<>>
    PROVE  LET s == live[o].body.spec
               b == live[IngressChild(o)].body
           IN  /\ o \in For("networking-ingress") /\ s \in Specs(o)
               /\ b # None
               /\ "rules" \notin Hatched(s.escapeHatches, "Ingress") => b.spec.rules = IngressRules(s)
<1> DEFINE c == "networking-ingress"
           s == live[o].body.spec
           x == IngressChild(o)
           b == live[x].body
           set == [rules |-> IngressRules(s)]
           kept == Over(IF s.ingress.tlsSecret # "" THEN [tls |-> IngressTLS(s)] ELSE <<>>,
                        Kept(Existing(b.spec), {"rules", "tls"}))
           new == ApplyEscapeHatches(Over(set, kept), s.escapeHatches, "Ingress")
<1>1. KChild(c, o, s) = x /\ (KWanted(c, s) <=> IngressWanted(s)) /\ ~KSkip(c, s)
    BY Kinds DEF KChild, KWanted, KSkip
<1>2. IngressWanted(s)
    BY ConcatEmptySeq, EmptySeq DEF IngressWanted, Routes
<1>3. KRender(c, o, s, b.spec) = new
    BY Kinds DEF KRender, IngressRender
<1>4. \A n : KAdmit(x, n) = n
    BY DEF KAdmit, IngressChild, Derived, Object
<1>5. /\ o \in For(c) /\ s \in Specs(o)
      /\ b # None /\ b.spec = new /\ "error" \notin DOMAIN b.spec
    <2> HIDE DEF new
    <2> QED BY <1>1, <1>2, <1>3, <1>4, RestAgrees
<1>6. ASSUME "rules" \notin Hatched(s.escapeHatches, "Ingress")
      PROVE  b.spec.rules = IngressRules(s)
    <2>1. IsHatches(s.escapeHatches)
        BY <1>5, KalypsoAssumptions DEF ListsAssumption, CapabilityReconcilers
    <2>2. new # Failed
        <3> HIDE DEF new
        <3> QED BY <1>5, FailedHasError
    <2>3. "rules" \in DOMAIN set /\ set["rules"] = IngressRules(s)
        OBVIOUS
    <2> HIDE DEF set, kept
    <2>4. \A f \in DOMAIN set \ Hatched(s.escapeHatches, "Ingress") : new[f] = set[f]
        BY <2>1, <2>2, FieldsKept
    <2> HIDE DEF new
    <2> QED BY <1>5, <1>6, <2>3, <2>4
<1> QED BY <1>5, <1>6

LEMMA BackendsRest == IInv => BackendsAtRest
<1> SUFFICES ASSUME IInv, NEW n \in KFor("networking-ingress"),
                    AtRest({"networking-service", "networking-ingress"}, n), Exposed(n)
             PROVE  Resolves(n)
    BY DEF BackendsAtRest
<1> DEFINE s == live[n].body.spec
           svc == live[ServiceChild(n, s)].body
           ing == live[IngressChild(n)].body
<1>1. /\ "networking-service" \in Controllers /\ Quiescent("networking-service", n)
      /\ "networking-ingress" \in Controllers /\ Quiescent("networking-ingress", n)
    BY DEF AtRest
<1>2. n \in KFor("networking-service")
    BY Kinds DEF KFor
<1>3. /\ live[n].body # None /\ ~TargetMissing(s) /\ ServiceWanted(s) /\ Routes(s) # <<>>
      /\ "ports" \notin Hatched(s.escapeHatches, "Service")
      /\ "rules" \notin Hatched(s.escapeHatches, "Ingress")
    BY DEF Exposed
<1>4. svc # None /\ svc.spec.ports = s.service.ports
    BY <1>1, <1>2, <1>3, ServiceAtRest
<1>5. ing # None /\ ing.spec.rules = IngressRules(s) /\ n \in For("networking-ingress") /\ s \in Specs(n)
    BY <1>1, <1>3, IngressAtRest
<1>6. /\ s.service.ports \in Seq(Nat)
      /\ Len(Routes(s)) \in Nat
      /\ \A i \in 1..Len(Routes(s)) : Len(Routes(s)[i].hostnames) \in Nat
    BY <1>1, <1>5, KalypsoAssumptions DEF ListsAssumption, CapabilityReconcilers
<1>7. 1 \in DOMAIN svc.spec.ports /\ svc.spec.ports[1] = IngressPort(s)
    <2>1. s.service.ports # <<>>
        BY <1>3 DEF ServiceWanted
    <2>2. 1 \in DOMAIN s.service.ports
        BY <1>6, <2>1, EmptySeq, LenProperties
    <2> QED BY <1>4, <2>1, <2>2 DEF IngressPort
<1>8. \A i \in DOMAIN ing.spec.rules : RuleFits(s, ing.spec.rules[i])
    BY <1>3, <1>5, <1>6, RulesFit
<1>9. Object("Service", n.ns, s.targetRef.resource) = ServiceChild(n, s)
    BY DEF ServiceChild
<1> HIDE DEF s, svc, ing
<1>10. \A i \in DOMAIN ing.spec.rules : \A j \in DOMAIN ing.spec.rules[i].paths :
          LET p == ing.spec.rules[i].paths[j]
          IN  /\ Object("Service", n.ns, p.service) = ServiceChild(n, s)
              /\ \E k \in DOMAIN svc.spec.ports : svc.spec.ports[k] = p.port
    BY <1>7, <1>8, <1>9 DEF RuleFits
<1> QED BY <1>4, <1>5, <1>10 DEF Resolves, s, svc, ing

----------------------------------------------------------------------------
(***************************************************************************)
(* Workload, Compute and HPA.                                              *)
(***************************************************************************)
LEMMA ComputeAtRest ==
    ASSUME IInv, "workload-compute" \in Controllers, NEW w \in KFor("workload-compute"),
           Quiescent("workload-compute", w), Active("workload-compute", live[w].body),
           WorkloadWanted(ComputeReconciler, live[w].body.spec)
    PROVE  LET p == live[w].body
               s == p.spec
               x == CapabilityObject(ComputeReconciler, w, s)
               c == live[x].body
           IN  /\ x \in KFor("compute-hpa")
               /\ c # None /\ c.owner = Ref(w, p.uid)
               /\ c.spec.targetRef = s.targetRef
               /\ c.spec.autoscaling = s.Compute.autoscaling
               /\ c.spec.escapeHatches = s.Compute.escapeHatches
<1> DEFINE k == "workload-compute"
           p == live[w].body
           s == p.spec
           x == CapabilityObject(ComputeReconciler, w, s)
           c == live[x].body
           new == Projection(ComputeReconciler, s)
<1>1. KChild(k, w, s) = x /\ KWanted(k, s)
    BY Kinds DEF KChild, KWanted
<1>2. KRender(k, w, s, c.spec) = new
    BY Kinds DEF KRender
<1>3. x.kind = "Compute" /\ \A n : KAdmit(x, n) = n
    BY DEF KAdmit, CapabilityObject, Object, ComputeReconciler
<1>4. /\ w \in For(k) /\ s \in Specs(w) /\ x \in Objects
      /\ c # None /\ c.spec = new /\ c.owner = Ref(w, p.uid)
    <2> HIDE DEF new
    <2> QED BY <1>1, <1>2, <1>3, RestAgrees DEF Active
<1>5. {"targetRef", "autoscaling", "escapeHatches"} \subseteq DOMAIN s.Compute
    BY <1>4, KalypsoAssumptions DEF EmbeddedAssumption
<1>6. new = [s.Compute EXCEPT !.targetRef = s.targetRef]
    BY DEF Projection, ComputeReconciler
<1>7. /\ new.targetRef = s.targetRef
      /\ new.autoscaling = s.Compute.autoscaling
      /\ new.escapeHatches = s.Compute.escapeHatches
    <2> HIDE DEF new
    <2> QED BY <1>5, <1>6
<1>8. x \in KFor("compute-hpa")
    BY <1>3, <1>4, Kinds DEF KFor
<1> QED BY <1>4, <1>7, <1>8

LEMMA HPAAtRest ==
    ASSUME IInv, "compute-hpa" \in Controllers, NEW o \in KFor("compute-hpa"),
           Quiescent("compute-hpa", o), live[o].body # None,
           ~TargetMissing(live[o].body.spec), HPAWanted(live[o].body.spec),
           Hatched(live[o].body.spec.escapeHatches, "HorizontalPodAutoscaler") = {}
    PROVE  LET p == live[o].body
               h == live[HPAChild(o)].body
           IN  /\ h # None /\ h.owner = Ref(o, p.uid)
               /\ h.spec.scaleTargetRef = p.spec.targetRef.resource
               /\ h.spec.maxReplicas = p.spec.autoscaling.maxReplicas
<1> DEFINE c == "compute-hpa"
           p == live[o].body
           s == p.spec
           a == s.autoscaling
           x == HPAChild(o)
           b == live[x].body
           set == [scaleTargetRef |-> s.targetRef.resource, maxReplicas |-> a.maxReplicas]
           kept == (IF a.minReplicas > 0 THEN [minReplicas |-> a.minReplicas] ELSE <<>>)
                   @@ (IF HPAMetrics(a) # <<>> THEN [metrics |-> HPAMetrics(a)] ELSE <<>>)
                   @@ Kept(Existing(b.spec), HPAFields)
           new == ApplyEscapeHatches(Over(set, kept), s.escapeHatches, "HorizontalPodAutoscaler")
<1>1. KChild(c, o, s) = x /\ KWanted(c, s) /\ ~KSkip(c, s)
    BY Kinds DEF KChild, KWanted, KSkip
<1>2. KRender(c, o, s, b.spec) = new
    BY Kinds DEF KRender, HPARender
<1>3. \A n : KAdmit(x, n) = HPAAdmit(n)
    BY DEF KAdmit, HPAChild, Derived, Object
<1>4. /\ o \in For(c) /\ s \in Specs(o)
      /\ b # None /\ b.owner = Ref(o, p.uid)
      /\ b.spec = HPAAdmit(new) /\ "error" \notin DOMAIN b.spec
    <2> HIDE DEF new
    <2> QED BY <1>1, <1>2, <1>3, RestAgrees
<1>5. IsHatches(s.escapeHatches)
    BY <1>4, KalypsoAssumptions DEF ListsAssumption, CapabilityReconcilers
<1>6. /\ DOMAIN new \subseteq DOMAIN HPAAdmit(new)
      /\ \A f \in DOMAIN new : HPAAdmit(new)[f] = new[f]
    <2> HIDE DEF new
    <2> QED BY DEF HPAAdmit, Over
<1>7. new # Failed
    <2> HIDE DEF new
    <2> QED BY <1>4, <1>6, FailedHasError
<1>8. /\ DOMAIN set = {"scaleTargetRef", "maxReplicas"}
      /\ set["scaleTargetRef"] = s.targetRef.resource /\ set["maxReplicas"] = a.maxReplicas
    OBVIOUS
<1> HIDE DEF set, kept
<1>9. \A f \in DOMAIN set \ Hatched(s.escapeHatches, "HorizontalPodAutoscaler") :
          f \in DOMAIN new /\ new[f] = set[f]
    BY <1>5, <1>7, FieldsKept
<1> HIDE DEF new
<1>10. /\ b.spec["scaleTargetRef"] = s.targetRef.resource
       /\ b.spec["maxReplicas"] = a.maxReplicas
    BY <1>4, <1>6, <1>8, <1>9
<1> QED BY <1>4, <1>10

LEMMA ChainRests == IInv => ChainAtRest
<1> SUFFICES ASSUME IInv, NEW w \in KFor("workload-compute"),
                    AtRest({"workload-compute"}, w),
                    Active("workload-compute", live[w].body),
                    WorkloadWanted(ComputeReconciler, live[w].body.spec),
                    ~TargetMissing(live[w].body.spec),
                    AtRest({"compute-hpa"},
                           CapabilityObject(ComputeReconciler, w, live[w].body.spec)),
                    HPAWanted(live[w].body.spec.Compute),
                    Hatched(live[w].body.spec.Compute.escapeHatches,
                            "HorizontalPodAutoscaler") = {}
             PROVE  LET p == live[w].body
                        s == p.spec
                        x == CapabilityObject(ComputeReconciler, w, s)
                        c == live[x].body
                        h == live[HPAChild(x)].body
                    IN  /\ c # None /\ c.owner = Ref(w, p.uid)
                        /\ h # None /\ h.owner = Ref(x, c.uid)
                        /\ h.spec.scaleTargetRef = s.targetRef.resource
                        /\ h.spec.maxReplicas = s.Compute.autoscaling.maxReplicas
    BY DEF ChainAtRest
<1> DEFINE s == live[w].body.spec
           x == CapabilityObject(ComputeReconciler, w, s)
           c == live[x].body
<1>1. /\ "workload-compute" \in Controllers /\ Quiescent("workload-compute", w)
      /\ "compute-hpa" \in Controllers /\ Quiescent("compute-hpa", x)
    BY DEF AtRest
<1>2. /\ x \in KFor("compute-hpa")
      /\ c # None /\ c.owner = Ref(w, live[w].body.uid)
      /\ c.spec.targetRef = s.targetRef
      /\ c.spec.autoscaling = s.Compute.autoscaling
      /\ c.spec.escapeHatches = s.Compute.escapeHatches
    BY <1>1, ComputeAtRest
<1>3. /\ ~TargetMissing(c.spec) /\ HPAWanted(c.spec)
      /\ Hatched(c.spec.escapeHatches, "HorizontalPodAutoscaler") = {}
    BY <1>2 DEF TargetMissing, HPAWanted
<1> HIDE DEF s, x, c
<1>4. LET h == live[HPAChild(x)].body
      IN  /\ h # None /\ h.owner = Ref(x, c.uid)
          /\ h.spec.scaleTargetRef = c.spec.targetRef.resource
          /\ h.spec.maxReplicas = c.spec.autoscaling.maxReplicas
    BY <1>1, <1>2, <1>3, HPAAtRest DEF c
<1> QED BY <1>2, <1>4 DEF s, x, c

----------------------------------------------------------------------------
(***************************************************************************)
(* Role and RoleBinding at rest come in pairs: roleRef is the Role of the  *)
(* same incarnation of the Security object, with the rules it has now, or  *)
(* the object controls neither of the two; whoever leads, and whatever the *)
(* leader before still has on the way.                                     *)
(***************************************************************************)
THEOREM BindingsRestInPairs == Spec \/ HSpec => []BindingsAtRest
<1>1. HandoverInv => IInv
    BY DEF HandoverInv
<1>2. Spec => []BindingsAtRest
    BY BindingsRest, Inductive, PTL
<1>3. HSpec => []BindingsAtRest
    BY <1>1, BindingsRest, HandoverStart, HandoverStep, PTL DEF HSpec
<1> QED BY <1>2, <1>3

(***************************************************************************)
(* Every backend of an Ingress at rest is a port of the Service at rest,   *)
(* for every list of routes, hostnames, paths and ports, though two        *)
(* controllers write the two from copies read at different times.          *)
(***************************************************************************)
THEOREM BackendsRestOnPorts == Spec \/ HSpec => []BackendsAtRest
<1>1. HandoverInv => IInv
    BY DEF HandoverInv
<1>2. Spec => []BackendsAtRest
    BY BackendsRest, Inductive, PTL
<1>3. HSpec => []BackendsAtRest
    BY <1>1, BackendsRest, HandoverStart, HandoverStep, PTL DEF HSpec
<1> QED BY <1>2, <1>3

(***************************************************************************)
(* The chain from a Workload to its HPA never comes to rest with a target  *)
(* or a limit that the Workload does not say now, though neither           *)
(* controller knows of the other.                                          *)
(***************************************************************************)
THEOREM ChainRestsAsAsked == Spec \/ HSpec => []ChainAtRest
<1>1. HandoverInv => IInv
    BY DEF HandoverInv
<1>2. Spec => []ChainAtRest
    BY ChainRests, Inductive, PTL
<1>3. HSpec => []ChainAtRest
    BY <1>1, ChainRests, HandoverStart, HandoverStep, PTL DEF HSpec
<1> QED BY <1>2, <1>3
=============================================================================
