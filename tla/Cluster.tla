-------------------------------- MODULE Cluster --------------------------------
(***************************************************************************)
(* What surrounds a controller: the API server's store, the manager's      *)
(* informer cache and the watch between them, the garbage collector and    *)
(* users.  The modules of the controllers extend this one and add queues   *)
(* and workers; their actions say what a step here does to those.          *)
(***************************************************************************)
EXTENDS Naturals

CONSTANTS
    Objects,              \* every API object a controller or a user names
    None,                 \* no object, no owner
    Specs(_),             \* Specs(x): what the API server may store for x
    UserSpecs(_),         \* UserSpecs(x): what a user may write into x
    Immutable(_, _, _),   \* Immutable(x, b, s): x's spec b may not become s
    MaxDisturbances,      \* how often users, failures and restarts interfere
    MaxVersion            \* see Collect

(***************************************************************************)
(* An object's body is its specification, its controller owner reference   *)
(* and its uid; a version is a body (None: deleted) with the resource      *)
(* version of the write that made it.  A uid is the resource version of    *)
(* the creating write, so no two incarnations of a name share one.         *)
(***************************************************************************)
Ref(o, u) == [obj |-> o, uid |-> u]

Body(x) == [spec : Specs(x), owner : [obj : Objects, uid : Nat] \cup {None}, uid : Nat]

Version(x) == [rv : Nat, body : Body(x) \cup {None}]

OwnedBy(b, o) == b # None /\ b.owner # None /\ b.owner.obj = o

SpecOf(b) == IF b = None THEN None ELSE b.spec

UserAssumption == \A x \in Objects : UserSpecs(x) \subseteq Specs(x)

NoneAssumption ==
    /\ None \notin Objects
    /\ \A x \in Objects : None \notin Specs(x) /\ None \notin Body(x)
    /\ None \notin [obj : Objects, uid : Nat]

BoundAssumption == MaxDisturbances \in Nat /\ MaxVersion \in Nat

ASSUME ClusterAssumptions == UserAssumption /\ NoneAssumption /\ BoundAssumption

VARIABLES
    live,    \* live[x]: the current version of x in the API server
    cache,   \* cache[x]: the version of x in the manager's informer cache
    pend,    \* pend[x]: versions of x the watch has not delivered yet
    budget   \* disturbances still to come

TypedVersions(f) == DOMAIN f = Objects /\ \A x \in Objects : f[x] \in Version(x)

ClusterTypeOK ==
    /\ TypedVersions(live)
    /\ TypedVersions(cache)
    /\ DOMAIN pend = Objects
    /\ \A x \in Objects : \A e \in pend[x] : e \in Version(x)
    /\ budget \in 0..MaxDisturbances

----------------------------------------------------------------------------
InitialVersions(x) ==
    {[rv |-> 0, body |-> None]} \cup
    {[rv |-> 1, body |-> [spec |-> s, owner |-> None, uid |-> 1]] : s \in UserSpecs(x)}

\* The manager starts in a cluster in which users have made some objects.
ClusterInit ==
    /\ live \in {f \in [Objects -> UNION {InitialVersions(x) : x \in Objects}] :
                    \A x \in Objects : f[x] \in InitialVersions(x)}
    /\ cache = live
    /\ pend = [x \in Objects |-> {}]
    /\ budget = MaxDisturbances

\* A write to the API server: a new version, which every watch will see.
Write(x, b) ==
    LET v == [rv |-> live[x].rv + 1, body |-> b]
    IN  /\ live' = [live EXCEPT ![x] = v]
        /\ pend' = [pend EXCEPT ![x] = @ \cup {v}]

Disturb == budget > 0 /\ budget' = budget - 1

\* The watch delivers e, the oldest version of x it has not delivered.
Receive(x, e) ==
    /\ \A f \in pend[x] : e.rv <= f.rv
    /\ pend' = [pend EXCEPT ![x] = @ \ {e}]
    /\ cache' = [cache EXCEPT ![x] = e]
    /\ UNCHANGED <<live, budget>>

\* A new process lists the cluster afresh.
Relist ==
    /\ Disturb
    /\ cache' = live
    /\ pend' = [x \in Objects |-> {}]
    /\ UNCHANGED live

OwnerAlive(r) == live[r.obj].body # None /\ live[r.obj].body.uid = r.uid

\* The garbage collector removes an object whose owner (by uid) is gone.  A
\* controller that has not seen its parent go makes the child again, and this
\* may repeat for as long as the watch lags: MaxVersion bounds the repetition
\* by letting the owner's events through first.
Collect(x) ==
    /\ live[x].body # None
    /\ live[x].body.owner # None
    /\ ~OwnerAlive(live[x].body.owner)
    /\ live[x].rv < MaxVersion \/ pend[live[x].body.owner.obj] = {}
    /\ Write(x, None)
    /\ UNCHANGED <<cache, budget>>

UserCreate(x) ==
    /\ live[x].body = None
    /\ \E s \in UserSpecs(x) :
          Write(x, [spec |-> s, owner |-> None, uid |-> live[x].rv + 1])
    /\ Disturb
    /\ UNCHANGED cache

\* A user edits the spec, or removes the owner reference, or both.
UserUpdate(x) ==
    /\ live[x].body # None
    /\ UserSpecs(x) # {}
    /\ \E s \in UserSpecs(x) \cup {live[x].body.spec} :
       \E r \in {live[x].body.owner, None} :
          /\ s # live[x].body.spec \/ r # live[x].body.owner
          /\ ~Immutable(x, live[x].body.spec, s)
          /\ Write(x, [spec |-> s, owner |-> r, uid |-> live[x].body.uid])
    /\ Disturb
    /\ UNCHANGED cache

UserDelete(x) ==
    /\ live[x].body # None
    /\ Write(x, None)
    /\ Disturb
    /\ UNCHANGED cache

UserWrite(x) == UserCreate(x) \/ UserUpdate(x) \/ UserDelete(x)

----------------------------------------------------------------------------
\* The cache is an earlier version of the object, or the present one; what lies
\* between the two is exactly what the watch has still to deliver.
CacheOK(x) ==
    /\ cache[x].rv <= live[x].rv
    /\ \A e \in pend[x] : cache[x].rv < e.rv /\ e.rv <= live[x].rv
    /\ \A e, f \in pend[x] : e.rv = f.rv => e = f
    /\ pend[x] # {} => live[x] \in pend[x]
    /\ pend[x] = {} => cache[x] = live[x]

CacheInv == \A x \in Objects : CacheOK(x)
=============================================================================
