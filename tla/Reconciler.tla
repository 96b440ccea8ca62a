------------------------------- MODULE Reconciler -------------------------------
(***************************************************************************)
(* The reconcile loop that every "get or delete, else CreateOrUpdate"      *)
(* controller of kalypso runs: a watch-fed cache, a work queue, one worker *)
(* per controller, and an API server that other clients write to as well.  *)
(*                                                                         *)
(* What a controller manages is a parameter: the object it reconciles      *)
(* (the parent, "For" in SetupWithManager), the object it derives from it  *)
(* (the child, "Owns"), when the child is wanted and what is written into  *)
(* it.  Workload, Compute, Networking and Security define those operators  *)
(* from the source; Kalypso dispatches on the controller.                  *)
(***************************************************************************)
EXTENDS Cluster

CONSTANTS
    Controllers,          \* the controllers cmd/main.go registers
    For(_),               \* For(c): the parents c reconciles
    Owns(_),              \* Owns(c): the objects whose owner c is woken for
    Skip(_, _),           \* Skip(c, s): Reconcile returns early on parent spec s
    Wanted(_, _),         \* Wanted(c, s): the child must exist
    Child(_, _, _),       \* Child(c, o, s): the object c derives from parent o
    Render(_, _, _, _),   \* Render(c, o, s, b): what the mutate function makes
                          \* of the child's spec b (None: a new object)
    MutateFails(_, _, _, _), \* the mutate function returns an error
    Admit(_, _),          \* Admit(x, s): s after the API server's defaulting
    Refused(_, _)         \* Refused(x, s): the schema refuses what a controller
                          \* sends as x when it means s

ParentsAssumption ==
    \A c \in Controllers : For(c) \subseteq Objects /\ Owns(c) \subseteq Objects

ChildAssumption ==
    \A c \in Controllers : \A o \in For(c) : \A s \in Specs(o) :
        ~Skip(c, s) => Child(c, o, s) \in Owns(c)

RenderAssumption ==
    \A c \in Controllers : \A o \in For(c) : \A s \in Specs(o) :
        ~Skip(c, s) /\ Wanted(c, s) =>
            LET x == Child(c, o, s)
            IN  \A b \in Specs(x) \cup {None} :
                    ~MutateFails(c, o, s, b) /\ ~Refused(x, Render(c, o, s, b))
                        => Admit(x, Render(c, o, s, b)) \in Specs(x)

\* The API server stores nothing that its own defaulting would change.
AdmitAssumption == \A x \in Objects : \A s \in Specs(x) : Admit(x, s) = s

ASSUME Assumptions ==
    /\ ParentsAssumption
    /\ ChildAssumption
    /\ RenderAssumption
    /\ AdmitAssumption
    /\ UserAssumption
    /\ NoneAssumption
    /\ BoundAssumption

VARIABLES
    queue,   \* queue[c]: the keys in c's work queue
    work     \* work[c]: what c's worker is doing

vars == <<live, cache, pend, queue, work, budget>>

----------------------------------------------------------------------------
(***************************************************************************)
(* State of a worker.  "get": the parent has been read, the child not yet; *)
(* "create", "update", "delete": that request is about to be sent.  base   *)
(* is the resource version an update carries.                              *)
(***************************************************************************)
Idle == [step |-> "idle", key |-> None, parent |-> None, base |-> 0]

Target(c) == Child(c, work[c].key, work[c].parent.spec)

\* Mutant of ParentRef: the mutate function sets no controller reference.
ParentRefForgotten(c) == None

\* The child's owner reference as SetControllerReference leaves it.
ParentRef(c) == Ref(work[c].key, work[c].parent.uid)

\* The child's spec as the mutate function leaves it, b the spec it found.
Mutated(c, b) == Render(c, work[c].key, work[c].parent.spec, b)

\* Mutant of AlreadyOwned: the owner reference is overwritten.
OwnedByNobody(c, b) == FALSE

\* SetControllerReference returns AlreadyOwnedError: the object found has a
\* controller that is not (by kind and name) the one being set.
AlreadyOwned(c, b) == b # None /\ b.owner # None /\ b.owner.obj # work[c].key

WorkOK(c) ==
    \/ work[c] = Idle
    \/ /\ work[c].step \in {"get", "create", "update", "delete"}
       /\ work[c].key \in For(c)
       /\ work[c].parent \in Body(work[c].key)
       /\ work[c].base \in Nat
       /\ ~Skip(c, work[c].parent.spec)
       /\ work[c].step \in {"create", "update"} => Wanted(c, work[c].parent.spec)
       /\ work[c].step = "delete" => ~Wanted(c, work[c].parent.spec)
       /\ work[c] = [step |-> work[c].step, key |-> work[c].key,
                     parent |-> work[c].parent, base |-> work[c].base]

(***************************************************************************)
(* Every variable has its type.                                            *)
(***************************************************************************)
TypeOK ==
    /\ ClusterTypeOK
    /\ DOMAIN queue = Controllers
    /\ \A c \in Controllers : queue[c] \subseteq For(c)
    /\ DOMAIN work = Controllers
    /\ \A c \in Controllers : WorkOK(c)

----------------------------------------------------------------------------
(***************************************************************************)
(* Watches.  An event for a parent enqueues it; an event for a child       *)
(* enqueues the controller owner of its old and of its new version.        *)
(***************************************************************************)
\* Mutant of Woken: only the new version's owner is enqueued.
WokenByNew(c, x, old, new) ==
    {o \in For(c) : o = x \/ (x \in Owns(c) /\ OwnedBy(new, o))}

\* Mutant of Woken: the kind of an event's object is not compared with For.
WokenAnyKind(c, x, old, new) ==
    {o \in Objects : o = x \/ (x \in Owns(c) /\ (OwnedBy(old, o) \/ OwnedBy(new, o)))}

Woken(c, x, old, new) ==
    {o \in For(c) : o = x \/ (x \in Owns(c) /\ (OwnedBy(old, o) \/ OwnedBy(new, o)))}

\* What c's queue holds once the caches of a new process have synced.
Listed(c, versions) ==
    {o \in For(c) : \E x \in Objects :
        versions[x].body # None /\ o \in Woken(c, x, None, versions[x].body)}

Init ==
    /\ ClusterInit
    /\ queue = [c \in Controllers |-> Listed(c, live)]
    /\ work = [c \in Controllers |-> Idle]

----------------------------------------------------------------------------
(***************************************************************************)
(* Reconcile.                                                              *)
(***************************************************************************)

\* The parent is there and Reconcile does not return early on it.
Active(c, p) == p # None /\ ~Skip(c, p.spec)

Skipped(c, o) ==
    /\ work[c] = Idle
    /\ o \in queue[c]
    /\ ~Active(c, cache[o].body)
    /\ queue' = [queue EXCEPT ![c] = @ \ {o}]
    /\ UNCHANGED <<live, cache, pend, work, budget>>

\* The worker takes o from the queue and reads it from the cache.
Begin(c, o) ==
    /\ work[c] = Idle
    /\ o \in queue[c]
    /\ Active(c, cache[o].body)
    /\ queue' = [queue EXCEPT ![c] = @ \ {o}]
    /\ work' = [work EXCEPT ![c] =
                    [step |-> "get", key |-> o, parent |-> cache[o].body, base |-> 0]]
    /\ UNCHANGED <<live, cache, pend, budget>>

\* Reconcile returns nil / returns an error, which puts the key back.
Done(c) ==
    /\ work' = [work EXCEPT ![c] = Idle]
    /\ UNCHANGED queue

\* Mutant of Retry: the error is logged and nil returned.
RetryForgotten(c) ==
    /\ work' = [work EXCEPT ![c] = Idle]
    /\ UNCHANGED queue

Retry(c) ==
    /\ work' = [work EXCEPT ![c] = Idle]
    /\ queue' = [queue EXCEPT ![c] = @ \cup {work[c].key}]

Reading(c, wanted) ==
    /\ work[c].step = "get"
    /\ Wanted(c, work[c].parent.spec) = wanted
    /\ UNCHANGED <<live, cache, pend, budget>>

Send(c, step, rv) ==
    /\ work' = [work EXCEPT ![c].step = step, ![c].base = rv]
    /\ UNCHANGED queue

\* The child is not wanted: Get it, and Delete it when it is there.
NothingToDelete(c) ==
    /\ Reading(c, FALSE)
    /\ cache[Target(c)].body = None
    /\ Done(c)

FoundToDelete(c) ==
    /\ Reading(c, FALSE)
    /\ cache[Target(c)].body # None
    /\ Send(c, "delete", 0)

\* The child is wanted: CreateOrUpdate gets it, mutates it and compares.
MutateError(c) ==
    /\ Reading(c, TRUE)
    /\ LET b == cache[Target(c)].body
       IN  \/ AlreadyOwned(c, b)
           \/ MutateFails(c, work[c].key, work[c].parent.spec, SpecOf(b))
    /\ Retry(c)

Mutates(c, b) ==
    /\ ~AlreadyOwned(c, b)
    /\ ~MutateFails(c, work[c].key, work[c].parent.spec, SpecOf(b))

\* Mutant of Unchanged: the owner reference is set after the comparison.
UnchangedSpec(c, b) == b.spec = Mutated(c, b.spec)

Unchanged(c, b) == b.spec = Mutated(c, b.spec) /\ b.owner = ParentRef(c)

FoundAbsent(c) ==
    /\ Reading(c, TRUE)
    /\ cache[Target(c)].body = None
    /\ Mutates(c, None)
    /\ Send(c, "create", 0)

FoundEqual(c) ==
    /\ Reading(c, TRUE)
    /\ LET b == cache[Target(c)].body
       IN  b # None /\ Mutates(c, b) /\ Unchanged(c, b)
    /\ Done(c)

FoundDifferent(c) ==
    /\ Reading(c, TRUE)
    /\ LET b == cache[Target(c)].body
       IN  b # None /\ Mutates(c, b) /\ ~Unchanged(c, b)
    /\ Send(c, "update", cache[Target(c)].rv)

----------------------------------------------------------------------------
(***************************************************************************)
(* The API server's side of the worker's request.  A create meets an       *)
(* existing object, an update a newer resource version, a delete a missing *)
(* object, any write the schema's validation: the request is refused.      *)
(***************************************************************************)
CreateAccepted(c) ==
    /\ live[Target(c)].body = None
    /\ ~Refused(Target(c), Mutated(c, None))

UpdateAccepted(c) ==
    LET v == live[Target(c)]
    IN  /\ v.body # None
        /\ v.rv = work[c].base
        /\ ~Refused(Target(c), Mutated(c, v.body.spec))
        /\ ~Immutable(Target(c), v.body.spec, Mutated(c, v.body.spec))

DeleteAccepted(c) == live[Target(c)].body # None

Create(c) ==
    LET x == Target(c)
    IN  /\ work[c].step = "create"
        /\ CreateAccepted(c)
        /\ Write(x, [spec |-> Admit(x, Mutated(c, None)), owner |-> ParentRef(c),
                     uid |-> live[x].rv + 1])

\* An update that leaves the stored object as it is makes no new version.
Update(c) ==
    LET x == Target(c)
        b == live[x].body
        n == [spec |-> Admit(x, Mutated(c, b.spec)), owner |-> ParentRef(c), uid |-> b.uid]
    IN  /\ work[c].step = "update"
        /\ UpdateAccepted(c)
        /\ IF n = b THEN UNCHANGED <<live, pend>> ELSE Write(x, n)

Delete(c) ==
    /\ work[c].step = "delete"
    /\ DeleteAccepted(c)
    /\ Write(Target(c), None)

Apply(c) == Create(c) \/ Update(c) \/ Delete(c)

CallSucceeds(c) == Apply(c) /\ Done(c) /\ UNCHANGED <<cache, budget>>

CallRefused(c) ==
    /\ \/ work[c].step = "create" /\ ~CreateAccepted(c)
       \/ work[c].step = "update" /\ ~UpdateAccepted(c)
       \/ work[c].step = "delete" /\ ~DeleteAccepted(c)
    /\ Retry(c)
    /\ UNCHANGED <<live, cache, pend, budget>>

\* The request never reaches the API server.
RequestLost(c) ==
    /\ work[c].step \in {"create", "update", "delete"}
    /\ Retry(c)
    /\ Disturb
    /\ UNCHANGED <<live, cache, pend>>

\* The request is carried out and its answer is lost.
AnswerLost(c) == Apply(c) /\ Retry(c) /\ Disturb /\ UNCHANGED cache

----------------------------------------------------------------------------
(***************************************************************************)
(* The rest of the cluster.                                                *)
(***************************************************************************)

Deliver(x) ==
    \E e \in pend[x] :
        /\ Receive(x, e)
        /\ queue' = [c \in Controllers |->
                        queue[c] \cup Woken(c, x, cache[x].body, e.body)]
        /\ UNCHANGED work

GarbageCollect(x) == Collect(x) /\ UNCHANGED <<queue, work>>

User(x) == UserWrite(x) /\ UNCHANGED <<queue, work>>

\* The manager stops at any point and a new one lists the cluster afresh.
Restart ==
    /\ Relist
    /\ queue' = [c \in Controllers |-> Listed(c, live)]
    /\ work' = [c \in Controllers |-> Idle]

\* The informers' periodic resync replays the cache to the handlers.
Resync ==
    /\ Disturb
    /\ queue' = [c \in Controllers |-> queue[c] \cup Listed(c, cache)]
    /\ UNCHANGED <<live, cache, pend, work>>

----------------------------------------------------------------------------
Read(c) ==
    \/ NothingToDelete(c) \/ FoundToDelete(c) \/ MutateError(c)
    \/ FoundAbsent(c) \/ FoundEqual(c) \/ FoundDifferent(c)

Answer(c) == CallSucceeds(c) \/ CallRefused(c)

Next ==
    \/ \E c \in Controllers :
          \/ \E o \in For(c) : Skipped(c, o) \/ Begin(c, o)
          \/ Read(c) \/ Answer(c) \/ RequestLost(c) \/ AnswerLost(c)
    \/ \E x \in Objects : Deliver(x) \/ GarbageCollect(x) \/ User(x)
    \/ Restart
    \/ Resync

Safety == Init /\ [][Next]_vars

(***************************************************************************)
(* The work queue is first in first out, so a key that is queued again and *)
(* again is taken (strong fairness: other keys make the worker busy in     *)
(* between); a worker that has begun goes on; watches and the garbage      *)
(* collector make progress.  Users, failures and resyncs owe us nothing.   *)
(***************************************************************************)
Fairness ==
    /\ \A c \in Controllers : WF_vars(Read(c) \/ Answer(c))
    /\ \A c \in Controllers : \A o \in For(c) : SF_vars(Skipped(c, o) \/ Begin(c, o))
    /\ \A x \in Objects : WF_vars(Deliver(x)) /\ WF_vars(GarbageCollect(x))

Spec == Safety /\ Fairness

----------------------------------------------------------------------------
(***************************************************************************)
(* Properties.                                                             *)
(***************************************************************************)

\* What Reconcile makes true of the child's body b: a wanted child carries
\* what the parent p renders and p's owner reference; an unwanted one is not
\* (or no longer) controlled by o.
Agrees(c, o, p, b) ==
    IF Wanted(c, p.spec)
    THEN /\ b # None
         /\ b.spec = Admit(Child(c, o, p.spec), Render(c, o, p.spec, b.spec))
         /\ b.owner = Ref(o, p.uid)
    ELSE ~OwnedBy(b, o)

Settled(c, o) ==
    LET p == live[o].body
    IN  Active(c, p) => Agrees(c, o, p, live[Child(c, o, p.spec)].body)

\* Nothing is under way for o in c: no key queued, no worker on it, no event
\* outstanding for o or for its child.
Quiescent(c, o) ==
    LET p == live[o].body
    IN  /\ o \notin queue[c]
        /\ work[c].key # o
        /\ pend[o] = {}
        /\ Active(c, p) => pend[Child(c, o, p.spec)] = {}

(***************************************************************************)
(* No lost wakeup: whatever order events, failures, restarts and foreign   *)
(* writes come in, a controller never comes to rest on a parent whose      *)
(* child is not what Reconcile would make of it.                           *)
(***************************************************************************)
NoLostWakeup ==
    \A c \in Controllers : \A o \in For(c) : Quiescent(c, o) => Settled(c, o)

(***************************************************************************)
(* A living object's controller reference never passes from one parent to  *)
(* another: SetControllerReference refuses on the copy it read, and the    *)
(* resource version makes sure that copy was current.                      *)
(***************************************************************************)
ControllerKept ==
    [][\A x \in Objects :
          LET b == live[x].body
              n == live'[x].body
          IN  b # None /\ n # None /\ b.owner # None
                => n.owner = None \/ n.owner.obj = b.owner.obj]_vars

\* Reconcile cannot succeed for o: the object is another parent's, or the
\* mutate function or the API server refuses what o asks for.
Blocked(c, o) ==
    LET p == live[o].body
        x == Child(c, o, p.spec)
        b == live[x].body
    IN  /\ Wanted(c, p.spec)
        /\ \/ b # None /\ b.owner # None /\ b.owner.obj # o
           \/ MutateFails(c, o, p.spec, SpecOf(b))
           \/ Refused(x, Render(c, o, p.spec, SpecOf(b)))
           \/ b # None /\ Immutable(x, b.spec, Render(c, o, p.spec, b.spec))

(***************************************************************************)
(* Convergence: once the disturbances end, every parent that is not        *)
(* blocked gets its child right, for good.                                 *)
(***************************************************************************)
Convergence ==
    <>[](\A c \in Controllers : \A o \in For(c) :
            Active(c, live[o].body) => Settled(c, o) \/ Blocked(c, o))

(***************************************************************************)
(* Nothing is abandoned: in the end every object that no user makes has an *)
(* owner that exists, so that deleting a parent leaves nothing behind of   *)
(* what was derived from it, at any depth.                                 *)
(***************************************************************************)
NothingAbandoned ==
    <>[](\A x \in Objects :
            UserSpecs(x) = {} /\ live[x].body # None
                => live[x].body.owner # None /\ OwnerAlive(live[x].body.owner))

----------------------------------------------------------------------------
(***************************************************************************)
(* The inductive invariant behind NoLostWakeup and ControllerKept.         *)
(***************************************************************************)

\* A worker about to send an update holds a version the cache has shown; if it
\* still is the present one, it was found fit to be written by this worker.
CopyOK(c) ==
    LET v == live[Target(c)]
    IN  /\ work[c].step = "create" => Mutates(c, None)
        /\ work[c].step = "update" =>
              /\ work[c].base <= cache[Target(c)].rv
              /\ work[c].base = v.rv => v.body # None /\ Mutates(c, v.body)

CopyInv == \A c \in Controllers : CopyOK(c)

\* c's worker is on o with the parent the cache shows.
Attending(c, o) ==
    work[c].step # "idle" /\ work[c].key = o /\ work[c].parent = cache[o].body

\* Whatever disagrees with the parent in the cache is being looked after: the
\* key is queued or taken, or an event is under way that will queue it.
Covered(c, o) ==
    LET p == cache[o].body
        x == Child(c, o, p.spec)
        b == cache[x].body
    IN  Active(c, p) =>
            \/ Agrees(c, o, p, b)
            \/ o \in queue[c]
            \/ Attending(c, o)
            \/ OwnedBy(b, o) /\ pend[x] # {}
            \/ \E e \in pend[x] : OwnedBy(e.body, o)

WakeInv == \A c \in Controllers : \A o \in For(c) : Covered(c, o)

(***************************************************************************)
(* Every disagreement between a child and its parent has somebody awake    *)
(* for it, whatever the caches lag behind.                                 *)
(***************************************************************************)
IInv == TypeOK /\ CacheInv /\ CopyInv /\ WakeInv
=============================================================================
