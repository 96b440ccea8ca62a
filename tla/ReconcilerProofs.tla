---------------------------- MODULE ReconcilerProofs ----------------------------
(***************************************************************************)
(* Proofs about the reconcile loop, for every set of controllers and       *)
(* objects and every reconciler that meets Assumptions.                    *)
(***************************************************************************)
EXTENDS Reconciler, ClusterProofs

(***************************************************************************)
(* The parts of TypeOK and IInv that writes, workers and watches disturb   *)
(* separately.                                                             *)
(***************************************************************************)
QueueTyped == DOMAIN queue = Controllers /\ \A c \in Controllers : queue[c] \subseteq For(c)

WorkTyped == DOMAIN work = Controllers /\ \A c \in Controllers : WorkOK(c)

LEMMA TypeParts ==
    TypeOK <=> /\ TypedVersions(live)
               /\ TypedVersions(cache)
               /\ PendTyped
               /\ QueueTyped
               /\ WorkTyped
               /\ budget \in 0..MaxDisturbances
BY DEF TypeOK, ClusterTypeOK, PendTyped, QueueTyped, WorkTyped

----------------------------------------------------------------------------
(***************************************************************************)
(* Where a parent's child and a worker's target are.                       *)
(***************************************************************************)
LEMMA ChildTyped ==
    ASSUME NEW c \in Controllers, NEW o \in For(c), NEW p \in Body(o), ~Skip(c, p.spec)
    PROVE  /\ o \in Objects
           /\ Child(c, o, p.spec) \in Owns(c)
           /\ Child(c, o, p.spec) \in Objects
<1>1. p.spec \in Specs(o)
    BY DEF Body
<1>2. Child(c, o, p.spec) \in Owns(c)
    BY <1>1, Assumptions DEF ChildAssumption
<1> QED BY <1>2, Assumptions DEF ParentsAssumption

LEMMA CachedChild ==
    ASSUME TypedVersions(cache), NEW c \in Controllers, NEW o \in For(c),
           Active(c, cache[o].body)
    PROVE  /\ o \in Objects
           /\ cache[o].body \in Body(o)
           /\ Child(c, o, cache[o].body.spec) \in Owns(c)
           /\ Child(c, o, cache[o].body.spec) \in Objects
<1>1. o \in Objects
    BY Assumptions DEF ParentsAssumption
<1>2. cache[o].body \in Body(o)
    BY <1>1 DEF TypedVersions, Version, Active
<1> QED BY <1>1, <1>2, ChildTyped DEF Active

LEMMA TargetTyped ==
    ASSUME NEW c \in Controllers, WorkOK(c), work[c].step # "idle"
    PROVE  /\ work[c].key \in For(c)
           /\ work[c].key \in Objects
           /\ work[c].parent \in Body(work[c].key)
           /\ ~Skip(c, work[c].parent.spec)
           /\ Target(c) \in Owns(c)
           /\ Target(c) \in Objects
           /\ ParentRef(c) \in [obj : Objects, uid : Nat]
<1>1. /\ work[c].key \in For(c)
      /\ work[c].parent \in Body(work[c].key)
      /\ ~Skip(c, work[c].parent.spec)
    BY DEF WorkOK, Idle
<1>2. /\ work[c].key \in Objects
      /\ Target(c) \in Owns(c)
      /\ Target(c) \in Objects
    BY <1>1, ChildTyped DEF Target
<1>3. work[c].parent.uid \in Nat
    BY <1>1 DEF Body
<1> QED BY <1>1, <1>2, <1>3 DEF ParentRef, Ref

----------------------------------------------------------------------------
(***************************************************************************)
(* How CopyInv and WakeInv survive the steps that do not concern them.     *)
(***************************************************************************)
LEMMA IdleCopy ==
    ASSUME NEW c \in Controllers, work'[c] = Idle
    PROVE  CopyOK(c)'
BY DEF CopyOK, Idle

LEMMA SameCopy ==
    ASSUME NEW c \in Controllers, CopyOK(c), work'[c] = work[c], live' = live, cache' = cache
    PROVE  CopyOK(c)'
BY DEF CopyOK, Target, Mutates, AlreadyOwned

LEMMA WriteCopy ==
    ASSUME TypeOK, CacheInv, NEW c \in Controllers, CopyOK(c), work'[c] = work[c],
           NEW x \in Objects, NEW b \in Body(x) \cup {None}, Write(x, b), cache' = cache
    PROVE  CopyOK(c)'
<1>1. CASE work[c].step # "update"
    BY <1>1 DEF CopyOK, Mutates, AlreadyOwned
<1>2. CASE work[c].step = "update"
    <2> DEFINE t == Target(c)
    <2>1. t \in Objects /\ Target(c)' = t
        BY <1>2, TargetTyped, TypeParts DEF WorkTyped, Target
    <2>2. work[c].base <= cache[t].rv /\ (work[c].base = live[t].rv =>
                                            live[t].body # None /\ Mutates(c, live[t].body))
        BY <1>2 DEF CopyOK
    <2>4. CASE t # x
        <3>1. live'[t] = live[t]
            BY <2>1, <2>4, WriteEffect, TypeParts
        <3> QED BY <1>2, <2>1, <2>2, <3>1 DEF CopyOK, Mutates, AlreadyOwned
    <2>3. CASE t = x
        <3>0. live'[x] = [rv |-> live[x].rv + 1, body |-> b]
            BY WriteEffect, TypeParts
        <3>1. live'[t].rv = live[t].rv + 1
            BY <2>3, <3>0
        <3>2. live[t].rv \in Nat /\ cache[t].rv \in Nat /\ work[c].base \in Nat
            BY <1>2, <2>1 DEF TypeOK, ClusterTypeOK, TypedVersions, Version, WorkOK, Idle
        <3>3. cache[t].rv <= live[t].rv
            BY <2>1 DEF CacheInv, CacheOK
        <3>4. work[c].base # live'[t].rv
            BY <2>2, <3>1, <3>2, <3>3
        <3> QED BY <1>2, <2>1, <2>2, <3>4 DEF CopyOK
    <2> QED BY <2>3, <2>4
<1> QED BY <1>1, <1>2

\* The cache may move on under a worker's feet.
LEMMA CacheMovesOn ==
    ASSUME ClusterTypeOK, ClusterTypeOK', NEW c \in Controllers, WorkOK(c), CopyOK(c),
           work'[c] = work[c], live' = live,
           \A y \in Objects : cache[y].rv <= cache'[y].rv
    PROVE  CopyOK(c)'
<1> DEFINE t == Target(c)
<1>1. Target(c)' = t
    BY DEF Target
<1>2. ASSUME work[c].step = "update" PROVE work[c].base <= cache'[t].rv
    <2>1. t \in Objects /\ work[c].base \in Nat /\ work[c].base <= cache[t].rv
        BY <1>2, TargetTyped DEF WorkOK, Idle, CopyOK
    <2>2. cache[t].rv \in Nat /\ cache'[t].rv \in Nat
        BY <2>1 DEF ClusterTypeOK, TypedVersions, Version
    <2>3. cache[t].rv <= cache'[t].rv
        BY <2>1
    <2> QED BY <2>1, <2>2, <2>3
<1> QED BY <1>1, <1>2 DEF CopyOK, Mutates, AlreadyOwned

\* Covered survives while the cache stays, events and keys only come, and the
\* worker keeps what it attends to.
LEMMA CoveredKept ==
    ASSUME TypedVersions(cache), NEW c \in Controllers, NEW o \in For(c), Covered(c, o),
           cache' = cache,
           \A y \in Objects : pend[y] \subseteq pend'[y],
           queue[c] \subseteq queue'[c],
           Attending(c, o) => work'[c] = work[c] \/ Covered(c, o)'
    PROVE  Covered(c, o)'
<1>1. SUFFICES ASSUME Active(c, cache[o].body) PROVE Covered(c, o)'
    BY DEF Covered, Active
<1> DEFINE x == Child(c, o, cache[o].body.spec)
<1>2. x \in Objects
    BY <1>1, CachedChild
<1>3. pend[x] \subseteq pend'[x]
    BY <1>2
<1>4. CASE Attending(c, o)
    BY <1>4 DEF Attending, Covered
<1>5. CASE ~Attending(c, o)
    BY <1>1, <1>3, <1>5 DEF Covered, Active, Agrees
<1> QED BY <1>4, <1>5

----------------------------------------------------------------------------
(***************************************************************************)
(* The four ways a worker's step ends: the key goes back to the queue, the *)
(* key is dropped, a request is prepared; and steps that are not a         *)
(* worker's.  Each may come with writes to the API server.                 *)
(***************************************************************************)
LEMMA RetryEffect ==
    ASSUME TypeOK, WakeInv, NEW c \in Controllers, work[c].step # "idle", Retry(c),
           cache' = cache, \A y \in Objects : pend[y] \subseteq pend'[y]
    PROVE  /\ QueueTyped' /\ WorkTyped' /\ WakeInv'
           /\ work'[c] = Idle
           /\ \A d \in Controllers : d # c => work'[d] = work[d]
<1>1. DOMAIN queue = Controllers /\ DOMAIN work = Controllers /\ WorkOK(c)
    BY DEF TypeOK, ClusterTypeOK
<1>2. /\ work' = [work EXCEPT ![c] = Idle]
      /\ queue' = [queue EXCEPT ![c] = @ \cup {work[c].key}]
    BY DEF Retry
<1>3. /\ work'[c] = Idle /\ queue'[c] = queue[c] \cup {work[c].key}
      /\ \A d \in Controllers : d # c => work'[d] = work[d] /\ queue'[d] = queue[d]
      /\ DOMAIN work' = Controllers /\ DOMAIN queue' = Controllers
    BY <1>1, <1>2
<1>4. work[c].key \in For(c)
    BY <1>1, TargetTyped
<1>5. QueueTyped'
    BY <1>3, <1>4 DEF QueueTyped, TypeOK, ClusterTypeOK
<1>6. WorkTyped'
    BY <1>3 DEF WorkTyped, TypeOK, ClusterTypeOK, WorkOK
<1>7. WakeInv'
    <2>1. SUFFICES ASSUME NEW d \in Controllers, NEW o \in For(d) PROVE Covered(d, o)'
        BY DEF WakeInv
    <2>2. Attending(d, o) => work'[d] = work[d] \/ Covered(d, o)'
        BY <1>3 DEF Attending, Covered
    <2> QED BY <1>3, <2>2, CoveredKept DEF WakeInv, TypeOK, ClusterTypeOK
<1> QED BY <1>3, <1>5, <1>6, <1>7

LEMMA DoneEffect ==
    ASSUME TypeOK, WakeInv, NEW c \in Controllers, Done(c),
           cache' = cache, \A y \in Objects : pend[y] \subseteq pend'[y],
           \A o \in For(c) : Attending(c, o) => Covered(c, o)'
    PROVE  /\ QueueTyped' /\ WorkTyped' /\ WakeInv'
           /\ work'[c] = Idle
           /\ \A d \in Controllers : d # c => work'[d] = work[d]
<1>1. DOMAIN work = Controllers
    BY DEF TypeOK, ClusterTypeOK
<1>2. work' = [work EXCEPT ![c] = Idle] /\ queue' = queue
    BY DEF Done
<1>3. /\ work'[c] = Idle
      /\ \A d \in Controllers : d # c => work'[d] = work[d]
      /\ DOMAIN work' = Controllers
    BY <1>1, <1>2
<1>4. QueueTyped'
    BY <1>2 DEF QueueTyped, TypeOK, ClusterTypeOK
<1>5. WorkTyped'
    BY <1>3 DEF WorkTyped, TypeOK, ClusterTypeOK, WorkOK
<1>6. WakeInv'
    <2>1. SUFFICES ASSUME NEW d \in Controllers, NEW o \in For(d) PROVE Covered(d, o)'
        BY DEF WakeInv
    <2>2. Attending(d, o) => work'[d] = work[d] \/ Covered(d, o)'
        BY <1>3
    <2> QED BY <1>2, <2>2, CoveredKept DEF WakeInv, TypeOK, ClusterTypeOK
<1> QED BY <1>3, <1>4, <1>5, <1>6

LEMMA SendEffect ==
    ASSUME TypeOK, WakeInv, NEW c \in Controllers, work[c].step = "get",
           NEW k \in {"create", "update", "delete"}, NEW n \in Nat, Send(c, k, n),
           k \in {"create", "update"} => Wanted(c, work[c].parent.spec),
           k = "delete" => ~Wanted(c, work[c].parent.spec),
           cache' = cache, pend' = pend
    PROVE  /\ QueueTyped' /\ WorkTyped' /\ WakeInv'
           /\ work'[c] = [step |-> k, key |-> work[c].key, parent |-> work[c].parent, base |-> n]
           /\ \A d \in Controllers : d # c => work'[d] = work[d]
<1>1. DOMAIN work = Controllers /\ WorkOK(c)
    BY DEF TypeOK, ClusterTypeOK
<1>2. work[c] = [step |-> work[c].step, key |-> work[c].key,
                 parent |-> work[c].parent, base |-> work[c].base]
    BY <1>1 DEF WorkOK, Idle
<1>3. work' = [work EXCEPT ![c].step = k, ![c].base = n] /\ queue' = queue
    BY DEF Send
<1>4. /\ work'[c] = [step |-> k, key |-> work[c].key, parent |-> work[c].parent, base |-> n]
      /\ \A d \in Controllers : d # c => work'[d] = work[d]
      /\ DOMAIN work' = Controllers
    BY <1>1, <1>2, <1>3
<1>5. QueueTyped'
    BY <1>3 DEF QueueTyped, TypeOK, ClusterTypeOK
<1>6. WorkTyped'
    <2>1. WorkOK(c)'
        BY <1>1, <1>4, TargetTyped DEF WorkOK
    <2> QED BY <1>4, <2>1 DEF WorkTyped, TypeOK, ClusterTypeOK, WorkOK
<1>7. WakeInv'
    <2>1. SUFFICES ASSUME NEW d \in Controllers, NEW o \in For(d) PROVE Covered(d, o)'
        BY DEF WakeInv
    <2>2. Attending(d, o) => work'[d] = work[d] \/ Covered(d, o)'
        BY <1>4 DEF Attending, Covered
    <2> QED BY <1>3, <2>2, CoveredKept DEF WakeInv, TypeOK, ClusterTypeOK
<1> QED BY <1>4, <1>5, <1>6, <1>7

----------------------------------------------------------------------------
(***************************************************************************)
(* Putting IInv' together.                                                 *)
(***************************************************************************)
LEMMA QuietStep ==
    ASSUME IInv, NEW c \in Controllers, UNCHANGED <<live, cache, pend>>,
           budget' \in 0..MaxDisturbances,
           QueueTyped', WorkTyped', WakeInv', CopyOK(c)',
           \A d \in Controllers : d # c => work'[d] = work[d]
    PROVE  IInv'
<1>1. TypeOK'
    <2>1. TypedVersions(live)' /\ TypedVersions(cache)' /\ PendTyped'
        BY DEF IInv, TypeOK, ClusterTypeOK, TypedVersions, PendTyped
    <2> QED BY <2>1 DEF TypeOK, ClusterTypeOK, TypedVersions, PendTyped, QueueTyped, WorkTyped
<1>2. CacheInv'
    BY DEF IInv, CacheInv, CacheOK
<1>3. CopyInv'
    <2>1. SUFFICES ASSUME NEW d \in Controllers PROVE CopyOK(d)'
        BY DEF CopyInv
    <2> QED BY <2>1, SameCopy DEF IInv, CopyInv
<1> QED BY <1>1, <1>2, <1>3 DEF IInv

LEMMA WriteStep ==
    ASSUME IInv, NEW x \in Objects, NEW b \in Body(x) \cup {None}, Write(x, b), cache' = cache,
           budget' \in 0..MaxDisturbances,
           QueueTyped', WorkTyped', WakeInv',
           \A d \in Controllers : work'[d] = work[d] \/ work'[d] = Idle
    PROVE  IInv'
<1>1. TypeOK'
    <2>1. TypedVersions(live)' /\ PendTyped'
        BY WriteEffect, TypeParts DEF IInv
    <2>2. TypedVersions(cache)'
        BY DEF IInv, TypeOK, ClusterTypeOK, TypedVersions
    <2> QED BY <2>1, <2>2 DEF TypeOK, ClusterTypeOK, TypedVersions, PendTyped, QueueTyped, WorkTyped
<1>2. CacheInv'
    BY WriteCache DEF IInv, TypeOK
<1>3. CopyInv'
    <2>1. SUFFICES ASSUME NEW d \in Controllers PROVE CopyOK(d)'
        BY DEF CopyInv
    <2>2. CASE work'[d] = work[d]
        BY <2>2, WriteCopy DEF IInv, CopyInv
    <2>3. CASE work'[d] = Idle
        BY <2>3, IdleCopy
    <2> QED BY <2>2, <2>3
<1> QED BY <1>1, <1>2, <1>3 DEF IInv

----------------------------------------------------------------------------
(***************************************************************************)
(* One lemma for each step of a worker.                                    *)
(***************************************************************************)
LEMMA SkippedStep ==
    ASSUME IInv, NEW c \in Controllers, NEW o \in For(c), Skipped(c, o)
    PROVE  IInv'
<1>1. TypeOK /\ WakeInv
    BY DEF IInv
<1>2. /\ queue' = [queue EXCEPT ![c] = @ \ {o}]
      /\ UNCHANGED <<live, cache, pend, work, budget>>
      /\ ~Active(c, cache[o].body)
    BY DEF Skipped
<1>3. /\ queue'[c] = queue[c] \ {o}
      /\ \A d \in Controllers : d # c => queue'[d] = queue[d]
      /\ DOMAIN queue' = Controllers
    BY <1>1, <1>2 DEF TypeOK, ClusterTypeOK
<1>4. QueueTyped'
    BY <1>1, <1>3 DEF QueueTyped, TypeOK, ClusterTypeOK
<1>5. WorkTyped'
    BY <1>1, <1>2 DEF WorkTyped, TypeOK, ClusterTypeOK, WorkOK
<1>6. WakeInv'
    <2>1. SUFFICES ASSUME NEW d \in Controllers, NEW q \in For(d) PROVE Covered(d, q)'
        BY DEF WakeInv
    <2>2. Covered(d, q)
        BY <1>1 DEF WakeInv
    <2>3. CASE d = c /\ q = o
        BY <1>2, <2>3 DEF Covered, Active
    <2>4. CASE ~(d = c /\ q = o)
        <3>1. q \in queue[d] => q \in queue'[d]
            BY <1>3, <2>4
        <3> QED BY <1>2, <2>2, <3>1 DEF Covered, Active, Agrees, Attending
    <2> QED BY <2>3, <2>4
<1>7. CopyOK(c)'
    BY <1>2, SameCopy DEF IInv, CopyInv
<1> QED BY <1>1, <1>2, <1>4, <1>5, <1>6, <1>7, QuietStep DEF TypeOK, ClusterTypeOK

LEMMA BeginStep ==
    ASSUME IInv, NEW c \in Controllers, NEW o \in For(c), Begin(c, o)
    PROVE  IInv'
<1>1. TypeOK /\ WakeInv
    BY DEF IInv
<1>2. /\ work[c] = Idle
      /\ queue' = [queue EXCEPT ![c] = @ \ {o}]
      /\ work' = [work EXCEPT ![c] = [step |-> "get", key |-> o,
                                      parent |-> cache[o].body, base |-> 0]]
      /\ UNCHANGED <<live, cache, pend, budget>>
      /\ Active(c, cache[o].body)
    BY DEF Begin
<1>3. /\ queue'[c] = queue[c] \ {o}
      /\ work'[c] = [step |-> "get", key |-> o, parent |-> cache[o].body, base |-> 0]
      /\ \A d \in Controllers : d # c => queue'[d] = queue[d] /\ work'[d] = work[d]
      /\ DOMAIN queue' = Controllers /\ DOMAIN work' = Controllers
    BY <1>1, <1>2 DEF TypeOK, ClusterTypeOK
<1>4. QueueTyped'
    BY <1>1, <1>3 DEF QueueTyped, TypeOK, ClusterTypeOK
<1>5. WorkTyped'
    <2>1. cache[o].body \in Body(o)
        BY <1>1, <1>2, CachedChild DEF TypeOK, ClusterTypeOK
    <2>2. WorkOK(c)'
        BY <1>2, <1>3, <2>1 DEF WorkOK, Active
    <2> QED BY <1>1, <1>3, <2>2 DEF WorkTyped, TypeOK, ClusterTypeOK, WorkOK
<1>6. WakeInv'
    <2>1. SUFFICES ASSUME NEW d \in Controllers, NEW q \in For(d) PROVE Covered(d, q)'
        BY DEF WakeInv
    <2>2. Covered(d, q)
        BY <1>1 DEF WakeInv
    <2>3. CASE d = c /\ q = o
        BY <1>2, <1>3, <2>3 DEF Covered, Attending
    <2>4. CASE ~(d = c /\ q = o)
        <3>1. q \in queue[d] => q \in queue'[d]
            BY <1>3, <2>4
        <3>2. Attending(d, q) => Attending(d, q)'
            BY <1>2, <1>3 DEF Attending, Idle
        <3> QED BY <1>2, <2>2, <3>1, <3>2 DEF Covered, Active, Agrees
    <2> QED BY <2>3, <2>4
<1>7. CopyOK(c)'
    BY <1>3 DEF CopyOK
<1> QED BY <1>1, <1>2, <1>3, <1>4, <1>5, <1>6, <1>7, QuietStep DEF TypeOK, ClusterTypeOK

LEMMA NothingToDeleteStep ==
    ASSUME IInv, NEW c \in Controllers, NothingToDelete(c)
    PROVE  IInv'
<1>1. TypeOK /\ WakeInv
    BY DEF IInv
<1>2. /\ ~Wanted(c, work[c].parent.spec)
      /\ UNCHANGED <<live, cache, pend, budget>>
      /\ cache[Target(c)].body = None
      /\ Done(c)
    BY DEF NothingToDelete, Reading
<1>3. ASSUME NEW o \in For(c), Attending(c, o)
      PROVE  Covered(c, o)'
    BY <1>2, <1>3 DEF Attending, Covered, Agrees, OwnedBy, Target
<1> QED BY <1>1, <1>2, <1>3, DoneEffect, IdleCopy, QuietStep DEF TypeOK, ClusterTypeOK

LEMMA FoundEqualStep ==
    ASSUME IInv, NEW c \in Controllers, FoundEqual(c)
    PROVE  IInv'
<1> DEFINE x == Target(c)
           b == cache[x].body
<1>1. TypeOK /\ WakeInv
    BY DEF IInv
<1>2. /\ work[c].step = "get"
      /\ UNCHANGED <<live, cache, pend, budget>>
      /\ b # None
      /\ Unchanged(c, b)
      /\ Done(c)
    BY DEF FoundEqual, Reading
<1>3. x \in Objects
    BY <1>1, <1>2, TargetTyped DEF TypeOK, ClusterTypeOK
<1>4. b.spec \in Specs(x)
    BY <1>1, <1>2, <1>3 DEF TypeOK, ClusterTypeOK, TypedVersions, Version, Body
<1>5. Admit(x, b.spec) = b.spec
    BY <1>3, <1>4, Assumptions DEF AdmitAssumption
<1>6. b.owner = Ref(work[c].key, work[c].parent.uid)
    BY <1>2 DEF Unchanged, ParentRef
<1>7. b.owner # None
    BY <1>1, <1>2, <1>6, TargetTyped, Assumptions DEF TypeOK, ClusterTypeOK, ParentRef, NoneAssumption
<1>8. b.spec = Admit(x, Render(c, work[c].key, work[c].parent.spec, b.spec))
    BY <1>2, <1>5 DEF Unchanged, Mutated
<1>9. ASSUME NEW o \in For(c), Attending(c, o)
      PROVE  Covered(c, o)'
    <2>1. /\ o = work[c].key
          /\ cache[o].body = work[c].parent
          /\ x = Child(c, o, cache[o].body.spec)
        BY <1>9 DEF Attending, Target
    <2>2. CASE Wanted(c, work[c].parent.spec)
        BY <1>2, <1>6, <1>8, <2>1, <2>2 DEF Covered, Agrees
    <2>3. CASE ~Wanted(c, work[c].parent.spec)
        BY <2>3 DEF FoundEqual, Reading
    <2> QED BY <2>2, <2>3
<1> QED BY <1>1, <1>2, <1>9, DoneEffect, IdleCopy, QuietStep DEF TypeOK, ClusterTypeOK

LEMMA MutateErrorStep ==
    ASSUME IInv, NEW c \in Controllers, MutateError(c)
    PROVE  IInv'
<1>1. TypeOK /\ WakeInv
    BY DEF IInv
<1>2. /\ work[c].step = "get"
      /\ UNCHANGED <<live, cache, pend, budget>>
      /\ Retry(c)
    BY DEF MutateError, Reading
<1> QED BY <1>1, <1>2, RetryEffect, IdleCopy, QuietStep DEF TypeOK, ClusterTypeOK

LEMMA FoundToDeleteStep ==
    ASSUME IInv, NEW c \in Controllers, FoundToDelete(c)
    PROVE  IInv'
<1>1. TypeOK /\ WakeInv
    BY DEF IInv
<1>2. /\ work[c].step = "get"
      /\ ~Wanted(c, work[c].parent.spec)
      /\ UNCHANGED <<live, cache, pend, budget>>
      /\ Send(c, "delete", 0)
    BY DEF FoundToDelete, Reading
<1>3. /\ QueueTyped' /\ WorkTyped' /\ WakeInv'
      /\ work'[c] = [step |-> "delete", key |-> work[c].key,
                     parent |-> work[c].parent, base |-> 0]
      /\ \A d \in Controllers : d # c => work'[d] = work[d]
    BY <1>1, <1>2, SendEffect
<1>4. CopyOK(c)'
    BY <1>3 DEF CopyOK
<1> QED BY <1>1, <1>2, <1>3, <1>4, QuietStep DEF TypeOK, ClusterTypeOK

LEMMA FoundAbsentStep ==
    ASSUME IInv, NEW c \in Controllers, FoundAbsent(c)
    PROVE  IInv'
<1>1. TypeOK /\ WakeInv
    BY DEF IInv
<1>2. /\ work[c].step = "get"
      /\ Wanted(c, work[c].parent.spec)
      /\ UNCHANGED <<live, cache, pend, budget>>
      /\ Mutates(c, None)
      /\ Send(c, "create", 0)
    BY DEF FoundAbsent, Reading
<1>3. /\ QueueTyped' /\ WorkTyped' /\ WakeInv'
      /\ work'[c] = [step |-> "create", key |-> work[c].key,
                     parent |-> work[c].parent, base |-> 0]
      /\ \A d \in Controllers : d # c => work'[d] = work[d]
    BY <1>1, <1>2, SendEffect
<1>4. CopyOK(c)'
    BY <1>2, <1>3 DEF CopyOK, Mutates, AlreadyOwned
<1> QED BY <1>1, <1>2, <1>3, <1>4, QuietStep DEF TypeOK, ClusterTypeOK

LEMMA FoundDifferentStep ==
    ASSUME IInv, NEW c \in Controllers, FoundDifferent(c)
    PROVE  IInv'
<1> DEFINE x == Target(c)
<1>1. TypeOK /\ WakeInv
    BY DEF IInv
<1>2. /\ work[c].step = "get"
      /\ Wanted(c, work[c].parent.spec)
      /\ UNCHANGED <<live, cache, pend, budget>>
      /\ cache[x].body # None
      /\ Mutates(c, cache[x].body)
      /\ Send(c, "update", cache[x].rv)
    BY DEF FoundDifferent, Reading
<1>3. x \in Objects
    BY <1>1, <1>2, TargetTyped DEF TypeOK, ClusterTypeOK
<1>4. cache[x].rv \in Nat
    BY <1>1, <1>3 DEF TypeOK, ClusterTypeOK, TypedVersions, Version
<1>5. /\ QueueTyped' /\ WorkTyped' /\ WakeInv'
      /\ work'[c] = [step |-> "update", key |-> work[c].key,
                     parent |-> work[c].parent, base |-> cache[x].rv]
      /\ \A d \in Controllers : d # c => work'[d] = work[d]
    BY <1>1, <1>2, <1>4, SendEffect
<1>6. CopyOK(c)'
    <2>1. Target(c)' = x
        BY <1>5 DEF Target
    <2>2. cache[x].rv = live[x].rv => cache[x] = live[x]
        BY <1>1, <1>3, CacheCurrent DEF IInv, TypeOK, CacheInv
    <2> QED BY <1>2, <1>4, <1>5, <2>1, <2>2 DEF CopyOK, Mutates, AlreadyOwned
<1> QED BY <1>1, <1>2, <1>5, <1>6, QuietStep DEF TypeOK, ClusterTypeOK

----------------------------------------------------------------------------
(***************************************************************************)
(* Requests.                                                               *)
(***************************************************************************)
LEMMA AdmittedTyped ==
    ASSUME NEW c \in Controllers, WorkOK(c), work[c].step # "idle",
           Wanted(c, work[c].parent.spec),
           NEW b \in Specs(Target(c)) \cup {None},
           ~MutateFails(c, work[c].key, work[c].parent.spec, b),
           ~Refused(Target(c), Mutated(c, b))
    PROVE  Admit(Target(c), Mutated(c, b)) \in Specs(Target(c))
<1>1. work[c].key \in For(c) /\ work[c].parent.spec \in Specs(work[c].key)
    BY TargetTyped DEF Body
<1>2. ~Skip(c, work[c].parent.spec)
    BY TargetTyped
<1> QED BY <1>1, <1>2, Assumptions DEF RenderAssumption, Target, Mutated

\* A request that is carried out writes the target: a body that the worker's
\* parent controls when the child is wanted, None when it is not.  Otherwise it
\* is an update that found nothing to change.
LEMMA ApplyEffect ==
    ASSUME TypeOK, CacheInv, CopyInv, NEW c \in Controllers, Apply(c)
    PROVE  /\ work[c].step # "idle"
           /\ \/ /\ UNCHANGED <<live, pend>>
                 /\ Agrees(c, work[c].key, work[c].parent, cache[Target(c)].body)
              \/ \E b \in Body(Target(c)) \cup {None} :
                    /\ Write(Target(c), b)
                    /\ Wanted(c, work[c].parent.spec) => OwnedBy(b, work[c].key)
<1> DEFINE x == Target(c)
<1>1. work[c].step \in {"create", "update", "delete"}
    BY DEF Apply, Create, Update, Delete
<1>2. TypeOK /\ WorkOK(c) /\ CopyOK(c) /\ CacheInv
    BY DEF TypeOK, CopyInv
<1>3. /\ x \in Objects
      /\ ParentRef(c) \in [obj : Objects, uid : Nat]
      /\ ParentRef(c) # None
    BY <1>1, <1>2, TargetTyped, Assumptions DEF NoneAssumption
<1>4. ParentRef(c).obj = work[c].key
    BY DEF ParentRef, Ref
<1>5. live[x] \in Version(x) /\ live[x].rv \in Nat
    BY <1>2, <1>3 DEF TypeOK, ClusterTypeOK, TypedVersions, Version
<1>6. ASSUME NEW b \in Body(x), b.owner = ParentRef(c)
      PROVE  OwnedBy(b, work[c].key)
    BY <1>3, <1>4, <1>6, Assumptions DEF OwnedBy, NoneAssumption
<1>7. CASE Create(c)
    <2> DEFINE n == [spec |-> Admit(x, Mutated(c, None)), owner |-> ParentRef(c),
                     uid |-> live[x].rv + 1]
    <2>1. work[c].step = "create" /\ ~Refused(x, Mutated(c, None)) /\ Write(x, n)
        BY <1>7 DEF Create, CreateAccepted
    <2>2. Wanted(c, work[c].parent.spec)
        BY <1>2, <2>1 DEF WorkOK, Idle
    <2>3. ~MutateFails(c, work[c].key, work[c].parent.spec, None)
        BY <1>2, <2>1 DEF CopyOK, Mutates, SpecOf
    <2>4. Admit(x, Mutated(c, None)) \in Specs(x)
        BY <1>1, <1>2, <2>1, <2>2, <2>3, AdmittedTyped
    <2>5. n \in Body(x)
        BY <1>3, <1>5, <2>4 DEF Body
    <2> QED BY <1>1, <1>6, <2>1, <2>5
<1>8. CASE Update(c)
    <2> DEFINE b == live[x].body
               n == [spec |-> Admit(x, Mutated(c, b.spec)), owner |-> ParentRef(c),
                     uid |-> b.uid]
    <2>1. /\ work[c].step = "update" /\ b # None /\ live[x].rv = work[c].base
          /\ ~Refused(x, Mutated(c, b.spec))
          /\ IF n = b THEN UNCHANGED <<live, pend>> ELSE Write(x, n)
        BY <1>8 DEF Update, UpdateAccepted
    <2>2. Wanted(c, work[c].parent.spec)
        BY <1>2, <2>1 DEF WorkOK, Idle
    <2>3. Mutates(c, b)
        BY <1>2, <2>1 DEF CopyOK
    <2>4. ~MutateFails(c, work[c].key, work[c].parent.spec, b.spec)
        BY <2>1, <2>3 DEF Mutates, SpecOf
    <2>5. b \in Body(x)
        BY <1>5, <2>1 DEF Version
    <2>6. b.spec \in Specs(x) /\ b.uid \in Nat
        BY <2>5 DEF Body
    <2>7. Admit(x, Mutated(c, b.spec)) \in Specs(x)
        BY <1>1, <1>2, <2>1, <2>2, <2>4, <2>6, AdmittedTyped
    <2>8. n \in Body(x)
        BY <1>3, <2>6, <2>7 DEF Body
    <2>9. CASE n # b
        BY <1>1, <1>6, <2>1, <2>8, <2>9
    <2>10. CASE n = b
        <3>1. cache[x].rv = live[x].rv
            <4>1. work[c].base <= cache[x].rv /\ cache[x].rv <= live[x].rv
                BY <1>2, <1>3, <2>1 DEF CopyOK, CacheInv, CacheOK
            <4>2. cache[x].rv \in Nat
                BY <1>2, <1>3 DEF TypeOK, ClusterTypeOK, TypedVersions, Version
            <4> QED BY <1>5, <2>1, <4>1, <4>2
        <3>2. cache[x].body = b
            BY <1>2, <1>3, <3>1, CacheCurrent DEF TypeOK, CacheInv
        <3>3. /\ b.spec = Admit(x, Mutated(c, b.spec))
              /\ b.owner = ParentRef(c)
            BY <2>10
        <3>4. Agrees(c, work[c].key, work[c].parent, b)
            BY <2>1, <2>2, <3>3 DEF Agrees, Mutated, ParentRef, Target
        <3> QED BY <1>1, <2>1, <2>10, <3>2, <3>4
    <2> QED BY <2>9, <2>10
<1>9. CASE Delete(c)
    <2>1. work[c].step = "delete" /\ Write(x, None)
        BY <1>9 DEF Delete
    <2>2. ~Wanted(c, work[c].parent.spec)
        BY <1>2, <2>1 DEF WorkOK, Idle
    <2> QED BY <1>1, <2>1, <2>2
<1> QED BY <1>7, <1>8, <1>9 DEF Apply

LEMMA CallSucceedsStep ==
    ASSUME IInv, NEW c \in Controllers, CallSucceeds(c)
    PROVE  IInv'
<1> DEFINE x == Target(c)
<1>1. /\ TypeOK /\ WakeInv /\ CacheInv
      /\ WorkOK(c)
      /\ TypedVersions(live) /\ PendTyped
    BY TypeParts DEF IInv, WorkTyped
<1>2. Apply(c) /\ Done(c) /\ cache' = cache /\ budget' = budget
    BY DEF CallSucceeds
<1>3. work[c].step # "idle" /\ x \in Objects
    BY <1>1, <1>2, ApplyEffect, TargetTyped DEF IInv
<1>4. ASSUME NEW o \in For(c), Attending(c, o)
      PROVE  /\ o = work[c].key
             /\ cache[o].body = work[c].parent
             /\ x = Child(c, o, cache[o].body.spec)
    BY <1>4 DEF Attending, Target
<1>5. CASE /\ UNCHANGED <<live, pend>>
           /\ Agrees(c, work[c].key, work[c].parent, cache[x].body)
    <2>1. ASSUME NEW o \in For(c), Attending(c, o)
          PROVE  Covered(c, o)'
        BY <1>2, <1>4, <1>5, <2>1 DEF Covered, Agrees
    <2> QED BY <1>1, <1>2, <1>5, <2>1, DoneEffect, IdleCopy, QuietStep DEF TypeOK, ClusterTypeOK
<1>6. CASE \E b \in Body(x) \cup {None} :
              /\ Write(x, b)
              /\ Wanted(c, work[c].parent.spec) => OwnedBy(b, work[c].key)
    <2>1. PICK b \in Body(x) \cup {None} :
              /\ Write(x, b)
              /\ Wanted(c, work[c].parent.spec) => OwnedBy(b, work[c].key)
        BY <1>6
    <2>2. /\ \A y \in Objects : pend[y] \subseteq pend'[y]
          /\ [rv |-> live[x].rv + 1, body |-> b] \in pend'[x]
        BY <1>1, <1>3, <2>1, WriteEffect
    <2>3. \E e \in pend'[x] : e.body = b
        BY <2>2
    <2>4. ASSUME NEW o \in For(c), Attending(c, o)
          PROVE  Covered(c, o)'
        <3>1. CASE Wanted(c, work[c].parent.spec)
            BY <1>2, <1>4, <2>1, <2>3, <2>4, <3>1 DEF Covered
        <3>2. CASE ~Wanted(c, work[c].parent.spec)
            BY <1>2, <1>4, <2>2, <2>4, <3>2 DEF Covered, Agrees
        <3> QED BY <3>1, <3>2
    <2>5. /\ QueueTyped' /\ WorkTyped' /\ WakeInv'
          /\ work'[c] = Idle
          /\ \A d \in Controllers : d # c => work'[d] = work[d]
        BY <1>1, <1>2, <2>2, <2>4, DoneEffect
    <2> QED BY <1>1, <1>2, <1>3, <2>1, <2>5, WriteStep DEF TypeOK, ClusterTypeOK
<1> QED BY <1>2, <1>5, <1>6, ApplyEffect DEF IInv

LEMMA AnswerLostStep ==
    ASSUME IInv, NEW c \in Controllers, AnswerLost(c)
    PROVE  IInv'
<1> DEFINE x == Target(c)
<1>1. /\ TypeOK /\ WakeInv
      /\ WorkOK(c)
      /\ TypedVersions(live) /\ PendTyped
      /\ budget \in 0..MaxDisturbances
    BY TypeParts DEF IInv, WorkTyped
<1>2. Apply(c) /\ Retry(c) /\ cache' = cache /\ budget' \in 0..MaxDisturbances
    BY <1>1, BudgetTyped DEF AnswerLost
<1>3. work[c].step # "idle" /\ x \in Objects
    BY <1>1, <1>2, ApplyEffect, TargetTyped DEF IInv
<1>4. CASE UNCHANGED <<live, pend>>
    BY <1>1, <1>2, <1>3, <1>4, RetryEffect, IdleCopy, QuietStep
<1>5. CASE \E b \in Body(x) \cup {None} : Write(x, b)
    <2>1. PICK b \in Body(x) \cup {None} : Write(x, b)
        BY <1>5
    <2>2. \A y \in Objects : pend[y] \subseteq pend'[y]
        BY <1>1, <1>3, <2>1, WriteEffect
    <2>3. /\ QueueTyped' /\ WorkTyped' /\ WakeInv'
          /\ work'[c] = Idle
          /\ \A d \in Controllers : d # c => work'[d] = work[d]
        BY <1>1, <1>2, <1>3, <2>2, RetryEffect
    <2> QED BY <1>2, <1>3, <2>1, <2>3, WriteStep
<1> QED BY <1>2, <1>4, <1>5, ApplyEffect DEF IInv

LEMMA RefusedOrLostStep ==
    ASSUME IInv, NEW c \in Controllers, CallRefused(c) \/ RequestLost(c)
    PROVE  IInv'
<1>1. TypeOK /\ WakeInv /\ budget \in 0..MaxDisturbances
    BY DEF IInv, TypeOK, ClusterTypeOK
<1>2. /\ work[c].step # "idle"
      /\ UNCHANGED <<live, cache, pend>>
      /\ Retry(c)
    BY DEF CallRefused, RequestLost
<1>3. budget' \in 0..MaxDisturbances
    BY <1>1, BudgetTyped DEF CallRefused, RequestLost
<1> QED BY <1>1, <1>2, <1>3, RetryEffect, IdleCopy, QuietStep

----------------------------------------------------------------------------
(***************************************************************************)
(* The rest of the cluster.                                                *)
(***************************************************************************)
LEMMA OutsideWrite ==
    ASSUME IInv, NEW x \in Objects, NEW b \in Body(x) \cup {None}, Write(x, b),
           UNCHANGED <<cache, queue, work>>, budget' \in 0..MaxDisturbances
    PROVE  IInv'
<1>1. /\ TypeOK /\ WakeInv
      /\ TypedVersions(live) /\ TypedVersions(cache) /\ PendTyped
    BY TypeParts DEF IInv
<1>2. \A y \in Objects : pend[y] \subseteq pend'[y]
    BY <1>1, WriteEffect
<1>3. WakeInv'
    <2>1. SUFFICES ASSUME NEW d \in Controllers, NEW o \in For(d) PROVE Covered(d, o)'
        BY DEF WakeInv
    <2> QED BY <1>1, <1>2, CoveredKept DEF WakeInv
<1>4. QueueTyped' /\ WorkTyped'
    BY <1>1 DEF TypeOK, ClusterTypeOK, QueueTyped, WorkTyped, WorkOK
<1> QED BY <1>3, <1>4, WriteStep

LEMMA GarbageCollectStep ==
    ASSUME IInv, NEW x \in Objects, GarbageCollect(x)
    PROVE  IInv'
BY CollectWrites, OutsideWrite DEF GarbageCollect, IInv, TypeOK

LEMMA UserStep ==
    ASSUME IInv, NEW x \in Objects, User(x)
    PROVE  IInv'
BY UserWrites, OutsideWrite DEF User, IInv, TypeOK

LEMMA DeliverStep ==
    ASSUME IInv, NEW x \in Objects, Deliver(x)
    PROVE  IInv'
<1>1. TypeOK /\ CacheInv /\ CopyInv /\ WakeInv
    BY DEF IInv
<1>2. PICK e \in pend[x] :
        /\ Receive(x, e)
        /\ queue' = [c \in Controllers |-> queue[c] \cup Woken(c, x, cache[x].body, e.body)]
        /\ work' = work
    BY DEF Deliver
<1>3. /\ ClusterTypeOK' /\ CacheInv'
      /\ live' = live
      /\ pend'[x] = pend[x] \ {e} /\ cache'[x] = e
      /\ cache[x].rv < e.rv
      /\ \A y \in Objects : y # x => pend'[y] = pend[y] /\ cache'[y] = cache[y]
    BY <1>1, <1>2, ReceiveEffect DEF TypeOK
<1>4. TypeOK'
    <2>1. QueueTyped'
        BY <1>1, <1>2 DEF TypeOK, QueueTyped, Woken
    <2>2. WorkTyped'
        BY <1>1, <1>2 DEF TypeOK, WorkTyped, WorkOK
    <2> QED BY <1>3, <2>1, <2>2 DEF TypeOK, QueueTyped, WorkTyped
<1>5. \A y \in Objects : cache[y].rv <= cache'[y].rv
    <2>1. /\ e.rv \in Nat
          /\ \A y \in Objects : cache[y].rv \in Nat
        BY <1>1, VersionsTyped DEF TypeOK
    <2> QED BY <1>3, <2>1
<1>9. CopyInv'
    BY <1>1, <1>2, <1>3, <1>4, <1>5, CacheMovesOn DEF CopyInv, TypeOK
<1>10. WakeInv'
    <2>1. SUFFICES ASSUME NEW c \in Controllers, NEW o \in For(c), Active(c, cache'[o].body)
                   PROVE  Covered(c, o)'
        BY DEF WakeInv, Covered, Active
    <2>2. o \in Objects
        BY Assumptions DEF ParentsAssumption
    <2>3. queue'[c] = queue[c] \cup Woken(c, x, cache[x].body, e.body)
        BY <1>2
    <2>4. CASE o = x
        BY <2>3, <2>4 DEF Woken, Covered
    <2>5. CASE o # x
        <3> DEFINE p == cache[o].body
                   y == Child(c, o, p.spec)
        <3>1. cache'[o] = cache[o]
            BY <1>3, <2>2, <2>5
        <3>2. Covered(c, o) /\ Active(c, p)
            BY <1>1, <2>1, <3>1 DEF WakeInv
        <3>3. y \in Objects /\ y \in Owns(c)
            BY <1>1, <3>2, CachedChild DEF TypeOK, ClusterTypeOK
        <3>4. Attending(c, o)' <=> Attending(c, o)
            BY <1>2, <3>1 DEF Attending
        <3>5. CASE y # x
            <4>1. cache'[y] = cache[y] /\ pend'[y] = pend[y]
                BY <1>3, <3>3, <3>5
            <4> QED BY <2>3, <3>1, <3>2, <3>4, <4>1 DEF Covered, Active, Agrees
        <3>6. CASE y = x /\ (OwnedBy(cache[x].body, o) \/ OwnedBy(e.body, o))
            <4>1. o \in queue'[c]
                BY <2>3, <3>3, <3>6 DEF Woken
            <4> QED BY <4>1 DEF Covered
        <3>7. CASE y = x /\ ~OwnedBy(cache[x].body, o) /\ ~OwnedBy(e.body, o)
            <4>1. CASE Agrees(c, o, p, cache[x].body)
                <5>1. ~Wanted(c, p.spec)
                    <6>1. SUFFICES ASSUME Wanted(c, p.spec) PROVE FALSE
                        OBVIOUS
                    <6>2. cache[x].body # None /\ cache[x].body.owner = Ref(o, p.uid)
                        BY <4>1, <6>1 DEF Agrees
                    <6>3. p.uid \in Nat
                        BY <1>1, <2>2, <3>2 DEF Active, TypeOK, ClusterTypeOK, TypedVersions, Version, Body
                    <6>4. Ref(o, p.uid) # None
                        BY <2>2, <6>3, Assumptions DEF Ref, NoneAssumption
                    <6> QED BY <3>7, <6>2, <6>4 DEF OwnedBy, Ref
                <5> QED BY <1>3, <3>1, <3>7, <5>1 DEF Covered, Agrees
            <4>2. CASE o \in queue[c]
                BY <2>3, <4>2 DEF Covered
            <4>3. CASE Attending(c, o)
                BY <3>4, <4>3 DEF Covered
            <4>4. CASE \E f \in pend[x] : OwnedBy(f.body, o)
                <5>1. \E f \in pend'[x] : OwnedBy(f.body, o)
                    BY <1>3, <3>7, <4>4
                <5> QED BY <3>1, <3>7, <5>1 DEF Covered
            <4> QED BY <3>2, <3>7, <4>1, <4>2, <4>3, <4>4 DEF Covered
        <3> QED BY <3>5, <3>6, <3>7
    <2> QED BY <2>4, <2>5
<1> QED BY <1>3, <1>4, <1>9, <1>10 DEF IInv

LEMMA RestartStep ==
    ASSUME IInv, Restart
    PROVE  IInv'
<1>1. /\ ClusterTypeOK' /\ CacheInv'
      /\ cache' = live /\ live' = live
    BY RelistEffect DEF IInv, TypeOK, Restart
<1>2. /\ queue' = [c \in Controllers |-> Listed(c, live)]
      /\ work' = [c \in Controllers |-> Idle]
    BY DEF Restart
<1>3. TypeOK'
    <2>1. QueueTyped' /\ WorkTyped'
        BY <1>2 DEF QueueTyped, WorkTyped, WorkOK, Listed
    <2> QED BY <1>1, <2>1 DEF TypeOK, QueueTyped, WorkTyped
<1>5. CopyInv'
    BY <1>2, IdleCopy DEF CopyInv
<1>6. WakeInv'
    <2>1. SUFFICES ASSUME NEW c \in Controllers, NEW o \in For(c), Active(c, live[o].body)
                   PROVE  o \in queue'[c]
        BY <1>1 DEF WakeInv, Covered, Active
    <2>2. o \in Objects /\ live[o].body # None
        BY <2>1, Assumptions DEF ParentsAssumption, Active
    <2> QED BY <1>2, <2>2 DEF Listed, Woken
<1> QED BY <1>1, <1>3, <1>5, <1>6 DEF IInv

LEMMA ResyncStep ==
    ASSUME IInv, Resync
    PROVE  IInv'
<1>1. TypeOK /\ WakeInv /\ budget' \in 0..MaxDisturbances
    BY BudgetTyped DEF IInv, TypeOK, ClusterTypeOK, Resync
<1>2. /\ queue' = [c \in Controllers |-> queue[c] \cup Listed(c, cache)]
      /\ UNCHANGED <<live, cache, pend, work>>
    BY DEF Resync
<1>3. QueueTyped' /\ WorkTyped'
    BY <1>1, <1>2 DEF TypeOK, ClusterTypeOK, QueueTyped, WorkTyped, WorkOK, Listed
<1>4. WakeInv'
    <2>1. SUFFICES ASSUME NEW c \in Controllers, NEW o \in For(c) PROVE Covered(c, o)'
        BY DEF WakeInv
    <2> QED BY <1>1, <1>2, CoveredKept DEF WakeInv, TypeOK, ClusterTypeOK
<1>5. TypeOK'
    BY <1>1, <1>2, <1>3 DEF TypeOK, ClusterTypeOK, TypedVersions, QueueTyped, WorkTyped
<1>6. CacheInv'
    BY <1>2 DEF IInv, CacheInv, CacheOK
<1>7. CopyInv'
    BY <1>2, SameCopy DEF IInv, CopyInv
<1> QED BY <1>4, <1>5, <1>6, <1>7 DEF IInv

----------------------------------------------------------------------------
LEMMA InitIInv == Init => IInv
<1> SUFFICES ASSUME Init PROVE IInv
    OBVIOUS
<1>1. /\ cache = live
      /\ queue = [c \in Controllers |-> Listed(c, live)]
      /\ work = [c \in Controllers |-> Idle]
    BY DEF Init, ClusterInit
<1>2. ClusterTypeOK /\ CacheInv
    BY ClusterStart DEF Init
<1>3. TypeOK
    <2>1. QueueTyped /\ WorkTyped
        BY <1>1 DEF QueueTyped, WorkTyped, WorkOK, Listed
    <2> QED BY <1>2, <2>1 DEF TypeOK, QueueTyped, WorkTyped
<1>5. CopyInv
    BY <1>1 DEF CopyInv, CopyOK, Idle
<1>6. WakeInv
    <2>1. SUFFICES ASSUME NEW c \in Controllers, NEW o \in For(c), Active(c, live[o].body)
                   PROVE  o \in queue[c]
        BY <1>1 DEF WakeInv, Covered, Active
    <2>2. o \in Objects /\ live[o].body # None
        BY <2>1, Assumptions DEF ParentsAssumption, Active
    <2> QED BY <1>1, <2>2 DEF Listed, Woken
<1> QED BY <1>2, <1>3, <1>5, <1>6 DEF IInv

LEMMA NextIInv == IInv /\ [Next]_vars => IInv'
<1> SUFFICES ASSUME IInv, [Next]_vars PROVE IInv'
    OBVIOUS
<1>1. ASSUME NEW c \in Controllers, NEW o \in For(c), Skipped(c, o) \/ Begin(c, o)
      PROVE  IInv'
    BY <1>1, SkippedStep, BeginStep
<1>2. ASSUME NEW c \in Controllers, Read(c)
      PROVE  IInv'
    BY <1>2, NothingToDeleteStep, FoundToDeleteStep, MutateErrorStep, FoundAbsentStep,
       FoundEqualStep, FoundDifferentStep DEF Read
<1>3. ASSUME NEW c \in Controllers, Answer(c) \/ RequestLost(c) \/ AnswerLost(c)
      PROVE  IInv'
    BY <1>3, CallSucceedsStep, RefusedOrLostStep, AnswerLostStep DEF Answer
<1>4. ASSUME NEW x \in Objects, Deliver(x) \/ GarbageCollect(x) \/ User(x)
      PROVE  IInv'
    BY <1>4, DeliverStep, GarbageCollectStep, UserStep
<1>5. CASE Restart \/ Resync
    BY <1>5, RestartStep, ResyncStep
<1>6. CASE UNCHANGED vars
    BY <1>6 DEF vars, IInv, TypeOK, ClusterTypeOK, TypedVersions, WorkOK, CacheInv, CacheOK, CopyInv, CopyOK,
                Target, Mutates, AlreadyOwned, WakeInv, Covered, Active, Agrees, Attending
<1> QED BY <1>1, <1>2, <1>3, <1>4, <1>5, <1>6 DEF Next

(***************************************************************************)
(* The inductive invariant: whatever disagrees with the parent that the    *)
(* cache shows has a key queued, a worker on it or an event under way.     *)
(***************************************************************************)
THEOREM Inductive == Spec => []IInv
BY InitIInv, NextIInv, PTL DEF Spec, Safety

(***************************************************************************)
(* Type correctness.                                                       *)
(***************************************************************************)
THEOREM TypeCorrect == Spec => []TypeOK
<1>1. IInv => TypeOK
    BY DEF IInv
<1> QED BY <1>1, Inductive, PTL

LEMMA RestIsSettled == IInv => NoLostWakeup
<1> SUFFICES ASSUME IInv, NEW c \in Controllers, NEW o \in For(c), Quiescent(c, o),
                    Active(c, live[o].body)
             PROVE  Agrees(c, o, live[o].body, live[Child(c, o, live[o].body.spec)].body)
    BY DEF NoLostWakeup, Settled
<1> DEFINE p == live[o].body
           x == Child(c, o, p.spec)
<1>1. /\ TypedVersions(cache) /\ CacheInv
      /\ Covered(c, o)
      /\ o \in Objects
    BY Assumptions DEF IInv, TypeOK, ClusterTypeOK, WakeInv, ParentsAssumption
<1>2. /\ o \notin queue[c] /\ work[c].key # o
      /\ pend[o] = {} /\ pend[x] = {}
    BY DEF Quiescent
<1>3. cache[o] = live[o]
    BY <1>1, <1>2 DEF CacheInv, CacheOK
<1>4. x \in Objects
    BY <1>1, <1>3, CachedChild
<1>5. cache[x] = live[x]
    BY <1>1, <1>2, <1>4 DEF CacheInv, CacheOK
<1> QED BY <1>1, <1>2, <1>3, <1>5 DEF Covered, Attending

(***************************************************************************)
(* No reconciler of this shape loses a wakeup, however its operators are   *)
(* chosen, as long as the child is an object it watches (Owns).            *)
(***************************************************************************)
THEOREM NoWakeupIsLost == Spec => []NoLostWakeup
BY RestIsSettled, Inductive, PTL

----------------------------------------------------------------------------
\* A step leaves x with the parent that controls it, or with none.
OwnerKept(x) ==
    LET b == live[x].body
        n == live'[x].body
    IN  b # None /\ n # None /\ b.owner # None
          => n.owner = None \/ n.owner.obj = b.owner.obj

LEMMA ApplyKeepsOwner ==
    ASSUME TypeOK, CopyInv, NEW c \in Controllers, Apply(c), NEW x \in Objects
    PROVE  OwnerKept(x)
<1>1. SUFFICES ASSUME live[x].body # None, live'[x].body # None, live[x].body.owner # None,
                      live'[x] # live[x]
               PROVE  live'[x].body.owner.obj = live[x].body.owner.obj
    BY DEF OwnerKept
<1>2. DOMAIN live = Objects
    BY DEF TypeOK, ClusterTypeOK, TypedVersions
<1>3. Target(c) = x
    BY <1>1, <1>2 DEF Apply, Create, Update, Delete, Write
<1>4. ~Create(c)
    BY <1>1, <1>3 DEF Create, CreateAccepted
<1>5. ~Delete(c)
    BY <1>1, <1>2, <1>3 DEF Delete, Write
<1>6. Update(c)
    BY <1>4, <1>5 DEF Apply
<1>7. Mutates(c, live[x].body)
    BY <1>3, <1>6 DEF Update, UpdateAccepted, CopyInv, CopyOK
<1>8. live[x].body.owner.obj = work[c].key
    BY <1>1, <1>7 DEF Mutates, AlreadyOwned
<1>9. live'[x].body.owner = ParentRef(c)
    BY <1>1, <1>2, <1>3, <1>6 DEF Update, Write
<1> QED BY <1>8, <1>9 DEF ParentRef, Ref

LEMMA NextKeepsOwner ==
    ASSUME IInv, [Next]_vars, NEW x \in Objects
    PROVE  OwnerKept(x)
<1>1. TypeOK /\ ClusterTypeOK /\ CopyInv
    BY DEF IInv, TypeOK
<1>2. CASE live' = live
    BY <1>2 DEF OwnerKept
<1>3. ASSUME NEW y \in Objects, GarbageCollect(y) \/ User(y)
      PROVE  OwnerKept(x)
    BY <1>1, <1>3, OutsideKeepsOwner DEF GarbageCollect, User, OwnerKept
<1>4. \/ live' = live
      \/ \E c \in Controllers : Apply(c)
      \/ \E y \in Objects : GarbageCollect(y) \/ User(y)
    BY DEF Next, vars, Skipped, Begin, Read, Reading, NothingToDelete, FoundToDelete,
           MutateError, FoundAbsent, FoundEqual, FoundDifferent, Answer, CallSucceeds,
           CallRefused, RequestLost, AnswerLost, Deliver, Receive, Restart, Relist, Resync
<1> QED BY <1>1, <1>2, <1>3, <1>4, ApplyKeepsOwner

(***************************************************************************)
(* No reconcile takes a child away from the parent that controls it: the   *)
(* check of SetControllerReference on a copy from the cache is enough,     *)
(* because the update carries that copy's resource version.                *)
(***************************************************************************)
THEOREM ControllerIsKept == Spec => ControllerKept
<1>1. IInv /\ [Next]_vars => \A x \in Objects : OwnerKept(x)
    BY NextKeepsOwner
<1>2. ControllerKept <=> [][\A x \in Objects : OwnerKept(x)]_vars
    BY DEF ControllerKept, OwnerKept
<1> QED BY <1>1, <1>2, Inductive, PTL DEF Spec, Safety
=============================================================================
