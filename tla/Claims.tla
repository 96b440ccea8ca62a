--------------------------------- MODULE Claims ---------------------------------
(***************************************************************************)
(* The storage-pvc controller (internal/controller/storage/                *)
(* pvc_controller.go): one Storage object, one PersistentVolumeClaim for   *)
(* each of its volumes.  Reconcile goes through the volumes in order with  *)
(* a CreateOrUpdate each and returns at the first error; claims of volumes *)
(* that are gone from the list are left alone.                             *)
(***************************************************************************)
EXTENDS Cluster, Resources, PatchEngine

CONSTANTS
    ParseQuantity(_),   \* the value of a size, None if it cannot be parsed
    DefaultClass        \* the cluster's default storage class, "" if it has none

VARIABLES
    queue,   \* the keys in the controller's work queue
    work     \* what its worker is doing

vars == <<live, cache, pend, budget, queue, work>>

Storages == {o \in Objects : o.kind = "Storage"}

----------------------------------------------------------------------------
(***************************************************************************)
(* What the mutate function writes, and what the API server makes of it.   *)
(***************************************************************************)
Claim(o, vol) == Object("PersistentVolumeClaim", o.ns, ClaimName(o, vol))

AccessModes(vol) == IF vol.accessModes = {} THEN {"ReadWriteOnce"} ELSE vol.accessModes

ClaimFields == {"accessModes", "size", "storageClassName"}

\* The claim's spec, b the one that was found (None: a new claim); a class that
\* the Storage does not name is nil.
Render(s, vol, b) ==
    IF ParseQuantity(vol.size) = None THEN Failed
    ELSE ApplyEscapeHatches(
            [accessModes |-> AccessModes(vol), size |-> ParseQuantity(vol.size)]
                @@ (IF s.storageClassName # "" THEN "storageClassName" :> s.storageClassName ELSE <<>>)
                @@ Kept(IF b = None THEN <<>> ELSE b, ClaimFields),
            s.escapeHatches, "PersistentVolumeClaim")

\* The admission plugin that fills in the default class of a new claim.
Admit(s) == s @@ (IF DefaultClass # "" THEN "storageClassName" :> DefaultClass ELSE <<>>)

\* A claim's spec may not change, but that its size may grow.
ClaimImmutable(x, b, s) ==
    /\ x.kind = "PersistentVolumeClaim"
    /\ Kept(b, {"size"}) # Kept(s, {"size"}) \/ s.size < b.size

\* The volumes are a list, whose claims are objects of the cluster.
VolumesAssumption ==
    \A o \in Storages : \A s \in Specs(o) : ~TargetMissing(s) =>
        /\ Len(s.volumes) \in Nat /\ DOMAIN s.volumes = 1..Len(s.volumes)
        /\ \A i \in DOMAIN s.volumes : Claim(o, s.volumes[i]) \in Objects

\* What passes the mutate function and the API server's validation is stored.
StoredAssumption ==
    \A o \in Storages : \A s \in Specs(o) : ~TargetMissing(s) =>
        \A i \in DOMAIN s.volumes :
            LET x == Claim(o, s.volumes[i])
                Made(b) == Render(s, s.volumes[i], b)
            IN  /\ ~MutationRefused(Made(None)) => Admit(Made(None)) \in Specs(x)
                /\ \A b \in Specs(x) :
                      ~MutationRefused(Made(b)) /\ ~ClaimImmutable(x, b, Made(b))
                          => Made(b) \in Specs(x)

ASSUME ClaimsAssumptions == VolumesAssumption /\ StoredAssumption

----------------------------------------------------------------------------
(***************************************************************************)
(* The worker.  "get": the claim of volume number index is next; "create"  *)
(* and "update" are requests about to be sent, with the spec arg and, for  *)
(* an update, the resource version base.                                   *)
(***************************************************************************)
Idle == [step |-> "idle", key |-> None, parent |-> None, index |-> 0, arg |-> None, base |-> 0]

Volumes == work.parent.spec.volumes

Target == Claim(work.key, Volumes[work.index])

ParentRef == Ref(work.key, work.parent.uid)

\* Mutant of AlreadyOwned: the owner reference is overwritten.
OwnedByNobody(b) == FALSE

AlreadyOwned(b) == b # None /\ b.owner # None /\ b.owner.obj # work.key

Mutated(b) == Render(work.parent.spec, Volumes[work.index], SpecOf(b))

WorkOK ==
    \/ work = Idle
    \/ /\ work.step \in {"get", "create", "update"}
       /\ work.key \in Storages
       /\ work.parent \in Body(work.key)
       /\ ~TargetMissing(work.parent.spec)
       /\ work.index \in 1..Len(Volumes) + (IF work.step = "get" THEN 1 ELSE 0)
       /\ work.base \in Nat
       /\ work = [step |-> work.step, key |-> work.key, parent |-> work.parent,
                  index |-> work.index, arg |-> work.arg, base |-> work.base]

(***************************************************************************)
(* Every variable has its type.                                            *)
(***************************************************************************)
TypeOK == ClusterTypeOK /\ queue \subseteq Storages /\ WorkOK

Woken(x, old, new) ==
    {o \in Storages :
        o = x \/ (x.kind = "PersistentVolumeClaim" /\ (OwnedBy(old, o) \/ OwnedBy(new, o)))}

Listed(versions) ==
    {o \in Storages : \E x \in Objects :
        versions[x].body # None /\ o \in Woken(x, None, versions[x].body)}

Init == ClusterInit /\ queue = Listed(live) /\ work = Idle

----------------------------------------------------------------------------
(***************************************************************************)
(* Reconcile.                                                              *)
(***************************************************************************)
\* Mutant of Active: the check of the target reference is missing.
ActiveAnyTarget(p) == p # None

Active(p) == p # None /\ ~TargetMissing(p.spec)

Skipped(o) ==
    /\ work = Idle
    /\ o \in queue
    /\ ~Active(cache[o].body)
    /\ queue' = queue \ {o}
    /\ UNCHANGED <<live, cache, pend, budget, work>>

Begin(o) ==
    /\ work = Idle
    /\ o \in queue
    /\ Active(cache[o].body)
    /\ queue' = queue \ {o}
    /\ work' = [step |-> "get", key |-> o, parent |-> cache[o].body, index |-> 1,
                arg |-> None, base |-> 0]
    /\ UNCHANGED <<live, cache, pend, budget>>

\* Mutant of Retry: the error is logged and nil returned.
RetryForgotten == work' = Idle /\ UNCHANGED queue

\* The error ends the loop; the key goes back into the queue.
Retry == work' = Idle /\ queue' = queue \cup {work.key}

NextVolume ==
    /\ work' = [work EXCEPT !.step = "get", !.arg = None, !.base = 0, !.index = @ + 1]
    /\ UNCHANGED queue

\* Mutant of LoopEnds: the last volume is passed over.
LoopEndsEarly ==
    /\ work.step = "get"
    /\ work.index >= Len(Volumes)
    /\ work' = Idle
    /\ UNCHANGED <<live, cache, pend, budget, queue>>

LoopEnds ==
    /\ work.step = "get"
    /\ work.index > Len(Volumes)
    /\ work' = Idle
    /\ UNCHANGED <<live, cache, pend, budget, queue>>

\* CreateOrUpdate gets the claim, mutates it and compares.
Reading ==
    /\ work.step = "get"
    /\ work.index <= Len(Volumes)
    /\ UNCHANGED <<live, cache, pend, budget>>

MutateFails(b) == AlreadyOwned(b) \/ MutationRefused(Mutated(b))

Send(step, v) ==
    /\ work' = [work EXCEPT !.step = step, !.arg = Mutated(v.body), !.base = v.rv]
    /\ UNCHANGED queue

MutateError == Reading /\ MutateFails(cache[Target].body) /\ Retry

FoundAbsent ==
    /\ Reading
    /\ cache[Target].body = None
    /\ ~MutateFails(None)
    /\ Send("create", cache[Target])

Unchanged(b) == b.spec = Mutated(b) /\ b.owner = ParentRef

FoundEqual ==
    /\ Reading
    /\ LET b == cache[Target].body IN b # None /\ ~MutateFails(b) /\ Unchanged(b)
    /\ NextVolume

FoundDifferent ==
    /\ Reading
    /\ LET b == cache[Target].body IN b # None /\ ~MutateFails(b) /\ ~Unchanged(b)
    /\ Send("update", cache[Target])

----------------------------------------------------------------------------
\* The API server's side: AlreadyExists, Conflict, NotFound or Invalid.
Accepted ==
    LET v == live[Target]
    IN  \/ work.step = "create" /\ v.body = None
        \/ /\ work.step = "update" /\ v.body # None /\ v.rv = work.base
           /\ ~ClaimImmutable(Target, v.body.spec, work.arg)

Apply ==
    LET v == live[Target]
    IN  /\ Accepted
        /\ Write(Target,
                 IF work.step = "create"
                 THEN [spec |-> Admit(work.arg), owner |-> ParentRef, uid |-> v.rv + 1]
                 ELSE [spec |-> work.arg, owner |-> ParentRef, uid |-> v.body.uid])

CallSucceeds == Apply /\ NextVolume /\ UNCHANGED <<cache, budget>>

Calling == work.step \in {"create", "update"}

CallRefused ==
    /\ Calling
    /\ ~Accepted
    /\ Retry
    /\ UNCHANGED <<live, cache, pend, budget>>

RequestLost == Calling /\ Retry /\ Disturb /\ UNCHANGED <<live, cache, pend>>

AnswerLost == Apply /\ Retry /\ Disturb /\ UNCHANGED cache

----------------------------------------------------------------------------
Deliver(x) ==
    \E e \in pend[x] :
        /\ Receive(x, e)
        /\ queue' = queue \cup Woken(x, cache[x].body, e.body)
        /\ UNCHANGED work

GarbageCollect(x) == Collect(x) /\ UNCHANGED <<queue, work>>

User(x) == UserWrite(x) /\ UNCHANGED <<queue, work>>

Restart == Relist /\ queue' = Listed(live) /\ work' = Idle

Read == LoopEnds \/ MutateError \/ FoundAbsent \/ FoundEqual \/ FoundDifferent

Answer == CallSucceeds \/ CallRefused

Next ==
    \/ \E o \in Storages : Skipped(o) \/ Begin(o)
    \/ Read \/ Answer \/ RequestLost \/ AnswerLost
    \/ \E x \in Objects : Deliver(x) \/ GarbageCollect(x) \/ User(x)
    \/ Restart

\* As in Reconciler: queue, worker, watches and garbage collector progress.
Fairness ==
    /\ WF_vars(Read \/ Answer)
    /\ \A o \in Storages : SF_vars(Skipped(o) \/ Begin(o))
    /\ \A x \in Objects : WF_vars(Deliver(x)) /\ WF_vars(GarbageCollect(x))

Spec == Init /\ [][Next]_vars /\ Fairness

----------------------------------------------------------------------------
(***************************************************************************)
(* Properties.                                                             *)
(***************************************************************************)
\* The claim of o's volume number i is what Reconcile would make of it.
Provided(o, i) ==
    LET p == live[o].body
        b == live[Claim(o, p.spec.volumes[i])].body
    IN  /\ b # None
        /\ b.spec = Render(p.spec, p.spec.volumes[i], b.spec)
        /\ b.owner = Ref(o, p.uid)

AtRest(o) ==
    LET p == live[o].body
    IN  /\ o \notin queue /\ work.key # o /\ pend[o] = {}
        /\ p # None => \A i \in DOMAIN p.spec.volumes : pend[Claim(o, p.spec.volumes[i])] = {}

(***************************************************************************)
(* The loop is left at its first error and begun again from the start, on  *)
(* copies of the Storage that may be old, with every claim's own event     *)
(* waking it.  It does not come to rest with a volume left out: whenever   *)
(* nothing is queued, running or under way, every volume has its claim.    *)
(***************************************************************************)
NoClaimForgotten ==
    \A o \in Storages : Active(live[o].body) /\ AtRest(o) =>
        \A i \in DOMAIN live[o].body.spec.volumes : Provided(o, i)

\* The claim of volume i cannot be made: it is another Storage's (the names
\* "<storage>-<volume>" may meet), its size cannot be parsed, or the API server
\* refuses the change.
ClaimBlocked(o, i) ==
    LET p == live[o].body
        vol == p.spec.volumes[i]
        b == live[Claim(o, vol)].body
        r == Render(p.spec, vol, SpecOf(b))
    IN  \/ b # None /\ b.owner # None /\ b.owner.obj # o
        \/ MutationRefused(r)
        \/ b # None /\ r # Failed /\ ClaimImmutable(Claim(o, vol), b.spec, r)

(***************************************************************************)
(* Once the disturbances end, every volume has its claim for good, unless  *)
(* it, or one before it in the list, is blocked.                           *)
(***************************************************************************)
ClaimsProvided ==
    <>[](\A o \in Storages : Active(live[o].body) =>
            \A i \in DOMAIN live[o].body.spec.volumes :
                Provided(o, i) \/ \E j \in 1..i : ClaimBlocked(o, j))

(***************************************************************************)
(* Two Storages whose names and volumes make the same claim name do not    *)
(* take the claim from each other.                                         *)
(***************************************************************************)
ClaimsKept ==
    [][\A x \in Objects :
          LET b == live[x].body
              n == live'[x].body
          IN  b # None /\ n # None /\ b.owner # None
                => n.owner = None \/ n.owner.obj = b.owner.obj]_vars

----------------------------------------------------------------------------
(***************************************************************************)
(* The inductive invariant behind NoClaimForgotten and ClaimsKept.         *)
(***************************************************************************)
\* A request carries what the mutate function made of a version that the cache
\* has shown, and passed its checks if that version still is the present one.
CopyOK ==
    LET v == live[Target]
    IN  /\ work.step = "create" => ~MutateFails(None) /\ work.arg = Mutated(None)
        /\ work.step = "update" =>
              /\ work.base <= cache[Target].rv
              /\ work.base = v.rv => /\ v.body # None
                                    /\ ~MutateFails(v.body)
                                    /\ work.arg = Mutated(v.body)

\* The worker holds the cached copy of o and has volume number i before it.
Ahead(o, i) ==
    work.step # "idle" /\ work.key = o /\ work.parent = cache[o].body /\ work.index <= i

\* b is what Reconcile would make of the claim of p's volume number i.
Fits(o, p, i, b) ==
    /\ b # None
    /\ b.spec = Render(p.spec, p.spec.volumes[i], b.spec)
    /\ b.owner = Ref(o, p.uid)

\* A claim that does not fit the cached Storage has somebody awake for it: its
\* key is queued, the worker has still to come to it, or an event is under way
\* that will queue the key.
Covered(o, i) ==
    LET p == cache[o].body
        x == Claim(o, p.spec.volumes[i])
        b == cache[x].body
    IN  \/ Fits(o, p, i, b)
        \/ o \in queue
        \/ Ahead(o, i)
        \/ OwnedBy(b, o) /\ pend[x] # {}
        \/ \E e \in pend[x] : OwnedBy(e.body, o)

WakeInv ==
    \A o \in Storages : Active(cache[o].body) =>
        \A i \in DOMAIN cache[o].body.spec.volumes : Covered(o, i)

ClaimsInv == TypeOK /\ CacheInv /\ CopyOK /\ WakeInv
=============================================================================
