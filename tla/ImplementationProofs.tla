-------------------------- MODULE ImplementationProofs --------------------------
(***************************************************************************)
(* The proof that the reconcile loop implements Promise: first the         *)
(* invariant about the history, then the simulation step by step.          *)
(***************************************************************************)
EXTENDS Implementation, ReconcilerProofs

rvars == <<vars, history>>

----------------------------------------------------------------------------
(***************************************************************************)
(* What a step may do to a worker, to the cache and to the store.          *)
(***************************************************************************)

\* c's worker takes a key and keeps the copy of the parent that it reads.
Takes(c) ==
    /\ work[c] = Idle
    /\ UNCHANGED <<live, cache>>
    /\ \E o \in For(c) :
          /\ cache[o].body # None
          /\ work'[c] = [step |-> "get", key |-> o, parent |-> cache[o].body, base |-> 0]

\* c's worker has read the child and goes on with the same parent.
GoesOn(c) ==
    /\ work[c] # Idle
    /\ UNCHANGED <<live, cache>>
    /\ work'[c].key = work[c].key
    /\ work'[c].parent = work[c].parent

WorkMoves(c) == work'[c] = work[c] \/ work'[c] = Idle \/ Takes(c) \/ GoesOn(c)

LEMMA WorkersMove ==
    ASSUME TypeOK, Next
    PROVE  \A c \in Controllers : WorkMoves(c)
<1>1. DOMAIN work = Controllers /\ \A c \in Controllers : WorkOK(c)
    BY DEF TypeOK
<1>2. ASSUME NEW d \in Controllers, Done(d) \/ Retry(d)
      PROVE  \A c \in Controllers : WorkMoves(c)
    BY <1>1, <1>2 DEF Done, Retry, WorkMoves
<1>3. ASSUME NEW d \in Controllers, NEW k, NEW n, work[d].step = "get", Send(d, k, n),
             UNCHANGED <<live, cache>>
      PROVE  \A c \in Controllers : WorkMoves(c)
    <2>1. work[d] # Idle
        BY <1>3 DEF Idle
    <2>2. work[d] = [step |-> work[d].step, key |-> work[d].key,
                     parent |-> work[d].parent, base |-> work[d].base]
        BY <1>1, <2>1 DEF WorkOK
    <2>3. work'[d] = [work[d] EXCEPT !.step = k, !.base = n]
        BY <1>1, <1>3 DEF Send
    <2>4. work'[d].key = work[d].key /\ work'[d].parent = work[d].parent
        BY <2>2, <2>3
    <2>5. \A c \in Controllers : c # d => work'[c] = work[c]
        BY <1>1, <1>3 DEF Send
    <2> QED BY <1>3, <2>1, <2>4, <2>5 DEF WorkMoves, GoesOn
<1>4. ASSUME NEW d \in Controllers, NEW o \in For(d), Begin(d, o)
      PROVE  \A c \in Controllers : WorkMoves(c)
    <2>1. /\ work'[d] = [step |-> "get", key |-> o, parent |-> cache[o].body, base |-> 0]
          /\ \A c \in Controllers : c # d => work'[c] = work[c]
        BY <1>1, <1>4 DEF Begin
    <2> QED BY <1>4, <2>1 DEF WorkMoves, Takes, Begin, Active
<1>5. ASSUME NEW d \in Controllers, Read(d)
      PROVE  \A c \in Controllers : WorkMoves(c)
    BY <1>2, <1>3, <1>5 DEF Read, Reading, NothingToDelete, FoundToDelete, MutateError,
       FoundAbsent, FoundEqual, FoundDifferent
<1>6. ASSUME NEW d \in Controllers, Answer(d) \/ RequestLost(d) \/ AnswerLost(d)
      PROVE  \A c \in Controllers : WorkMoves(c)
    BY <1>2, <1>6 DEF Answer, CallSucceeds, CallRefused, RequestLost, AnswerLost
<1>7. ASSUME work' = work
      PROVE  \A c \in Controllers : WorkMoves(c)
    BY <1>7 DEF WorkMoves
<1>8. ASSUME Restart
      PROVE  \A c \in Controllers : WorkMoves(c)
    BY <1>8 DEF Restart, WorkMoves
<1> QED BY <1>4, <1>5, <1>6, <1>7, <1>8 DEF Next, Skipped, Deliver, GarbageCollect, User, Resync

\* The cache moves on to a version that the store has, or had and the watch holds.
CacheMoves(x) ==
    /\ cache'[x] \in {cache[x], live[x]} \cup pend[x]
    /\ cache[x].rv <= cache'[x].rv
    /\ pend'[x] \subseteq pend[x] \cup {live'[x]}

LEMMA CachesMove ==
    ASSUME IInv, Next
    PROVE  \A x \in Objects : CacheMoves(x)
<1>1. ClusterTypeOK /\ CacheInv /\ TypeOK
    BY DEF IInv, TypeOK
<1>2. \A x \in Objects : live[x].rv \in Nat /\ cache[x].rv \in Nat
    BY <1>1, VersionsTyped
<1>3. ASSUME UNCHANGED <<live, cache, pend>>
      PROVE  \A x \in Objects : CacheMoves(x)
    BY <1>2, <1>3 DEF CacheMoves
<1>4. ASSUME NEW y \in Objects, NEW b \in Body(y) \cup {None}, Write(y, b), cache' = cache
      PROVE  \A x \in Objects : CacheMoves(x)
    <2>1. \A x \in Objects : pend'[x] \subseteq pend[x] \cup {live'[x]}
        BY <1>1, <1>4, ClusterTypeParts, WriteEffect
    <2> QED BY <1>2, <1>4, <2>1 DEF CacheMoves
<1>5. ASSUME NEW c \in Controllers, Apply(c), cache' = cache
      PROVE  \A x \in Objects : CacheMoves(x)
    <2>1. Target(c) \in Objects
        BY <1>1, <1>5, ApplyEffect, TargetTyped DEF IInv, TypeOK
    <2> QED BY <1>1, <1>3, <1>4, <1>5, <2>1, ApplyEffect DEF IInv
<1>6. ASSUME NEW y \in Objects, Deliver(y)
      PROVE  \A x \in Objects : CacheMoves(x)
    <2>1. PICK e \in pend[y] : Receive(y, e)
        BY <1>6 DEF Deliver
    <2>2. e.rv \in Nat
        BY <1>1, VersionsTyped
    <2>3. /\ live' = live /\ cache'[y] = e /\ pend'[y] = pend[y] \ {e} /\ cache[y].rv < e.rv
          /\ \A x \in Objects : x # y => pend'[x] = pend[x] /\ cache'[x] = cache[x]
        BY <1>1, <2>1, ReceiveEffect
    <2> QED BY <1>2, <2>2, <2>3 DEF CacheMoves
<1>7. ASSUME NEW y \in Objects, GarbageCollect(y) \/ User(y)
      PROVE  \A x \in Objects : CacheMoves(x)
    BY <1>1, <1>4, <1>7, CollectWrites, UserWrites DEF GarbageCollect, User
<1>8. ASSUME Restart
      PROVE  \A x \in Objects : CacheMoves(x)
    BY <1>1, <1>2, <1>8, RelistEffect DEF Restart, CacheMoves, CacheInv, CacheOK
<1>9. ASSUME NEW c \in Controllers, Read(c) \/ Answer(c) \/ RequestLost(c) \/ AnswerLost(c)
      PROVE  \A x \in Objects : CacheMoves(x)
    BY <1>3, <1>5, <1>9 DEF Read, Reading, NothingToDelete, FoundToDelete, MutateError,
       FoundAbsent, FoundEqual, FoundDifferent, Answer, CallSucceeds, CallRefused,
       RequestLost, AnswerLost
<1> QED BY <1>3, <1>6, <1>7, <1>8, <1>9 DEF Next, Skipped, Begin, Resync

\* Only a request that is carried out, a user and the garbage collector write.
LEMMA Writers ==
    ASSUME [Next]_vars
    PROVE  \/ live' = live
           \/ /\ \E c \in Controllers : Apply(c) /\ work' = [work EXCEPT ![c] = Idle]
              /\ cache' = cache
           \/ /\ \E x \in Objects : UserWrite(x) \/ Collect(x)
              /\ UNCHANGED <<cache, work>>
BY DEF Next, vars, Skipped, Begin, Read, Reading, NothingToDelete, FoundToDelete,
       MutateError, FoundAbsent, FoundEqual, FoundDifferent, Answer, CallSucceeds,
       CallRefused, RequestLost, AnswerLost, Done, Retry, Deliver, Receive, Restart, Relist,
       Resync, GarbageCollect, Collect, User, UserWrite, UserCreate, UserUpdate, UserDelete

\* A worker that Recorded takes for the writer is the writer.
LEMMA WroteApplied ==
    ASSUME TypeOK, [Next]_vars, NEW c \in Controllers, Wrote(c)
    PROVE  Apply(c) /\ work[c] # Idle /\ work'[c] = Idle
<1>1. DOMAIN work = Controllers
    BY DEF TypeOK
<1>2. live' # live /\ work'[c] # work[c]
    BY DEF Wrote
<1>3. PICK d \in Controllers : Apply(d) /\ work' = [work EXCEPT ![d] = Idle]
    BY <1>2, Writers
<1>4. d = c
    BY <1>1, <1>2, <1>3
<1> QED BY <1>1, <1>2, <1>3, <1>4

----------------------------------------------------------------------------
(***************************************************************************)
(* The invariant about the history.                                        *)
(***************************************************************************)
LEMMA HistoryStart == RInit => HistoryInv
<1> SUFFICES ASSUME RInit PROVE HistoryInv
    OBVIOUS
<1>1. /\ ClusterTypeOK
      /\ cache = live
      /\ pend = [x \in Objects |-> {}]
      /\ work = [c \in Controllers |-> Idle]
    BY ClusterStart DEF RInit, Init, ClusterInit
<1>2. /\ past = [x \in Objects |-> {live[x]}]
      /\ from = [c \in Controllers |-> 0]
      /\ last = [c \in Controllers |-> [o \in For(c) |-> 0]]
    BY DEF RInit
<1>3. HistoryTypeOK
    BY <1>2 DEF HistoryTypeOK
<1>4. PastInv
    BY <1>1, <1>2 DEF PastInv
<1>5. FromInv
    BY <1>1 DEF FromInv
<1>6. LastInv
    <2>1. SUFFICES ASSUME NEW c \in Controllers, NEW o \in For(c) PROVE last[c][o] <= cache[o].rv
        BY DEF LastInv
    <2>2. o \in Objects
        BY Assumptions DEF ParentsAssumption
    <2>3. cache[o].rv \in Nat
        BY <1>1, <2>2, VersionsTyped
    <2> QED BY <1>2, <2>3
<1> QED BY <1>3, <1>4, <1>5, <1>6 DEF HistoryInv

\* Recorded, controller by controller.
LEMMA Records ==
    ASSUME TypeOK, HistoryTypeOK, [Next]_vars, Recorded
    PROVE  /\ HistoryTypeOK'
           /\ \A x \in Objects : past'[x] = past[x] \cup {live'[x]}
           /\ \A c \in Controllers :
                 /\ work[c] # Idle /\ work'[c] # Idle => from'[c] = from[c]
                 /\ work[c] = Idle /\ work'[c] # Idle => from'[c] = cache[work'[c].key].rv
                 /\ ~Wrote(c) => last'[c] = last[c]
                 /\ Wrote(c) => last'[c] = [last[c] EXCEPT ![work[c].key] = from[c]]
<1>1. /\ past' = [x \in Objects |-> past[x] \cup {live'[x]}]
      /\ from' = [c \in Controllers |->
                    CASE work'[c] = Idle -> 0
                      [] work[c] = Idle /\ work'[c] # Idle -> cache[work'[c].key].rv
                      [] OTHER -> from[c]]
      /\ last' = [c \in Controllers |->
                    IF Wrote(c) THEN [last[c] EXCEPT ![work[c].key] = from[c]] ELSE last[c]]
    BY DEF Recorded
<1>2. \A c \in Controllers :
          /\ work[c] # Idle /\ work'[c] # Idle => from'[c] = from[c]
          /\ work[c] = Idle /\ work'[c] # Idle => from'[c] = cache[work'[c].key].rv
          /\ work'[c] = Idle => from'[c] = 0
    BY <1>1
<1>3. \A c \in Controllers :
          /\ ~Wrote(c) => last'[c] = last[c]
          /\ Wrote(c) => last'[c] = [last[c] EXCEPT ![work[c].key] = from[c]]
    BY <1>1
<1>4. ASSUME NEW c \in Controllers PROVE from'[c] \in Nat
    <2>1. CASE work[c] = Idle /\ work'[c] # Idle
        <3>1. CASE [Next]_vars /\ work' = work
            BY <2>1, <3>1
        <3>2. CASE Next
            <4>1. Takes(c)
                BY <2>1, <3>2, WorkersMove DEF WorkMoves, GoesOn
            <4>2. work'[c].key \in Objects
                BY <4>1, Assumptions DEF Takes, ParentsAssumption
            <4> QED BY <1>2, <2>1, <4>2, VersionsTyped DEF TypeOK
        <3> QED BY <3>1, <3>2 DEF vars
    <2>2. CASE ~(work[c] = Idle /\ work'[c] # Idle)
        BY <1>2, <2>2 DEF HistoryTypeOK
    <2> QED BY <2>1, <2>2
<1>5. ASSUME NEW c \in Controllers PROVE last'[c] \in [For(c) -> Nat]
    BY <1>3 DEF HistoryTypeOK
<1>6. HistoryTypeOK'
    BY <1>1, <1>4, <1>5 DEF HistoryTypeOK
<1> QED BY <1>1, <1>2, <1>3, <1>6

LEMMA PastKept ==
    ASSUME IInv, HistoryInv, Next, Recorded
    PROVE  PastInv'
<1>1. SUFFICES ASSUME NEW x \in Objects
               PROVE  live'[x] \in past'[x] /\ cache'[x] \in past'[x] /\ pend'[x] \subseteq past'[x]
    BY DEF PastInv
<1>2. past'[x] = past[x] \cup {live'[x]}
    BY Records DEF IInv, HistoryInv
<1>3. CacheMoves(x)
    BY CachesMove
<1>4. live[x] \in past[x] /\ cache[x] \in past[x] /\ pend[x] \subseteq past[x]
    BY DEF HistoryInv, PastInv
<1> QED BY <1>2, <1>3, <1>4 DEF CacheMoves

LEMMA FromKept ==
    ASSUME IInv, HistoryInv, Next, Recorded, TypeOK', NEW c \in Controllers, work'[c] # Idle
    PROVE  /\ [rv |-> from'[c], body |-> work'[c].parent] \in past'[work'[c].key]
           /\ last'[c][work'[c].key] <= from'[c]
           /\ from'[c] <= cache'[work'[c].key].rv
<1> DEFINE k == work'[c].key
<1>1. TypeOK /\ HistoryTypeOK /\ PastInv /\ FromInv /\ LastInv
    BY DEF IInv, HistoryInv
<1>2. k \in For(c) /\ k \in Objects
    BY Assumptions DEF TypeOK, WorkOK, ParentsAssumption
<1>3. ~Wrote(c) /\ last'[c] = last[c]
    BY <1>1, WroteApplied, Records
<1>4. past[k] \subseteq past'[k] /\ cache[k].rv <= cache'[k].rv
    BY <1>1, <1>2, Records, CachesMove DEF CacheMoves
<1>5. cache[k].rv \in Nat /\ cache'[k].rv \in Nat
    BY <1>1, <1>2 DEF TypeOK, ClusterTypeOK, TypedVersions, Version
<1>6. from[c] \in Nat
    BY <1>1 DEF HistoryTypeOK
<1>7. CASE work[c] # Idle
    <2>1. k = work[c].key /\ work'[c].parent = work[c].parent
        BY <1>1, <1>7, WorkersMove DEF WorkMoves, Takes, GoesOn
    <2>2. from'[c] = from[c]
        BY <1>1, <1>7, Records
    <2> QED BY <1>1, <1>3, <1>4, <1>5, <1>6, <1>7, <2>1, <2>2 DEF FromInv
<1>8. CASE work[c] = Idle
    <2>1. Takes(c)
        BY <1>1, <1>8, WorkersMove DEF WorkMoves, GoesOn
    <2>2. work'[c].parent = cache[k].body
        BY <2>1 DEF Takes
    <2>3. from'[c] = cache[k].rv
        BY <1>1, <1>8, Records
    <2>4. cache[k] = [rv |-> cache[k].rv, body |-> cache[k].body]
        BY <1>1, <1>2 DEF TypeOK, ClusterTypeOK, TypedVersions, Version
    <2>5. cache[k] \in past[k] /\ last[c][k] <= cache[k].rv
        BY <1>1, <1>2 DEF PastInv, LastInv
    <2> QED BY <1>3, <1>4, <1>5, <2>2, <2>3, <2>4, <2>5
<1> QED BY <1>7, <1>8

LEMMA LastKept ==
    ASSUME IInv, HistoryInv, Next, Recorded, TypeOK'
    PROVE  LastInv'
<1>1. SUFFICES ASSUME NEW c \in Controllers, NEW o \in For(c)
               PROVE  last'[c][o] <= cache'[o].rv
    BY DEF LastInv
<1>2. o \in Objects
    BY Assumptions DEF ParentsAssumption
<1>3. TypeOK /\ HistoryTypeOK /\ FromInv /\ LastInv
    BY DEF IInv, HistoryInv
<1>4. cache[o].rv \in Nat /\ cache'[o].rv \in Nat /\ from[c] \in Nat /\ last[c] \in [For(c) -> Nat]
    BY <1>2, <1>3 DEF TypeOK, ClusterTypeOK, TypedVersions, Version, HistoryTypeOK
<1>5. last[c][o] <= cache[o].rv /\ cache[o].rv <= cache'[o].rv
    BY <1>2, <1>3, CachesMove DEF LastInv, CacheMoves
<1>6. CASE ~Wrote(c)
    <2>1. last'[c] = last[c]
        BY <1>3, <1>6, Records
    <2>2. last[c][o] \in Nat
        BY <1>4
    <2> QED BY <1>4, <1>5, <2>1, <2>2
<1>7. CASE Wrote(c)
    <2>1. work[c] # Idle
        BY <1>3, <1>7, WroteApplied
    <2>2. from[c] <= cache[work[c].key].rv
        BY <1>3, <2>1 DEF FromInv
    <2>3. last'[c] = [last[c] EXCEPT ![work[c].key] = from[c]]
        BY <1>3, <1>7, Records
    <2>4. CASE o = work[c].key
        BY <1>4, <1>5, <2>2, <2>3, <2>4
    <2>5. CASE o # work[c].key
        BY <1>4, <1>5, <2>3, <2>5
    <2> QED BY <2>4, <2>5
<1> QED BY <1>6, <1>7

LEMMA HistoryNext == IInv /\ HistoryInv /\ [Next /\ Recorded]_rvars => IInv' /\ HistoryInv'
<1> SUFFICES ASSUME IInv, HistoryInv, [Next /\ Recorded]_rvars PROVE IInv' /\ HistoryInv'
    OBVIOUS
<1>1. CASE Next /\ Recorded
    <2>1. IInv' /\ TypeOK'
        BY <1>1, NextIInv DEF IInv
    <2>2. HistoryTypeOK'
        BY <1>1, Records DEF IInv, HistoryInv
    <2>3. FromInv'
        BY <1>1, <2>1, FromKept DEF FromInv
    <2> QED BY <1>1, <2>1, <2>2, <2>3, PastKept, LastKept DEF HistoryInv
<1>2. CASE UNCHANGED rvars
    <2>1. IInv'
        BY <1>2, NextIInv DEF rvars
    <2> QED BY <1>2, <2>1 DEF rvars, vars, history, HistoryInv, HistoryTypeOK, PastInv, FromInv, LastInv
<1> QED BY <1>1, <1>2

----------------------------------------------------------------------------
(***************************************************************************)
(* The simulation.                                                         *)
(***************************************************************************)
LEMMA PromiseInit == RInit => P!Init
<1> SUFFICES ASSUME RInit PROVE P!Init
    OBVIOUS
<1>1. ASSUME NEW x \in Objects, live[x].body # None PROVE live[x].body.owner = None
    <2>1. live[x] \in InitialVersions(x)
        BY DEF RInit, Init, ClusterInit
    <2> QED BY <1>1, <2>1 DEF InitialVersions
<1> QED BY <1>1 DEF P!Init, RInit

\* A step that leaves the store alone leaves all that Promise sees.
LEMMA QuietSimulates ==
    ASSUME HistoryInv, Recorded, live' = live
    PROVE  UNCHANGED P!vars
<1>1. HistoryTypeOK /\ PastInv
    BY DEF HistoryInv
<1>2. past' = [x \in Objects |-> past[x] \cup {live[x]}]
    BY DEF Recorded
<1>3. \A x \in Objects : past[x] \cup {live[x]} = past[x]
    BY <1>1 DEF PastInv
<1>4. past' = past
    BY <1>1, <1>2, <1>3 DEF HistoryTypeOK
<1>5. \A c \in Controllers : ~Wrote(c)
    BY DEF Wrote
<1>6. last' = [c \in Controllers |-> last[c]]
    BY <1>5 DEF Recorded
<1>7. last' = last
    BY <1>1, <1>6 DEF HistoryTypeOK
<1> QED BY <1>4, <1>7 DEF P!vars

\* A write is what Promise calls Becomes.
LEMMA WriteBecomes ==
    ASSUME ClusterTypeOK, HistoryInv, Recorded, NEW x \in Objects, NEW b \in Body(x) \cup {None},
           Write(x, b)
    PROVE  P!Becomes(x, b)
<1>1. HistoryTypeOK /\ PastInv
    BY DEF HistoryInv
<1>2. /\ live'[x] = [rv |-> live[x].rv + 1, body |-> b]
      /\ \A y \in Objects : y # x => live'[y] = live[y]
    BY ClusterTypeParts, WriteEffect
<1>3. live' = [live EXCEPT ![x] = [rv |-> @.rv + 1, body |-> b]]
    BY DEF Write
<1>4. past' = [y \in Objects |-> past[y] \cup {live'[y]}]
    BY DEF Recorded
<1>5. \A y \in Objects : y # x => past[y] \cup {live'[y]} = past[y]
    BY <1>1, <1>2 DEF PastInv
<1>6. past' = [past EXCEPT ![x] = @ \cup {live'[x]}]
    BY <1>1, <1>4, <1>5 DEF HistoryTypeOK
<1> QED BY <1>3, <1>6 DEF P!Becomes

LEMMA OutsideSimulates ==
    ASSUME IInv, HistoryInv, Recorded, NEW x \in Objects, UserWrite(x) \/ Collect(x),
           work' = work
    PROVE  P!Foreign(x)
<1> DEFINE b == live[x].body
           n == live'[x].body
<1>1. ClusterTypeOK /\ HistoryTypeOK
    BY DEF IInv, TypeOK, HistoryInv
<1>2. PICK m \in Body(x) \cup {None} : Write(x, m)
    BY <1>1, UserWrites, CollectWrites
<1>3. live'[x] = [rv |-> live[x].rv + 1, body |-> m]
    BY <1>1, <1>2, ClusterTypeParts, WriteEffect
<1>4. n = m
    BY <1>3
<1>5. P!Becomes(x, n)
    BY <1>1, <1>2, <1>4, WriteBecomes
<1>6. last' = last
    <2>1. last' = [c \in Controllers |-> last[c]]
        BY DEF Recorded, Wrote
    <2> QED BY <1>1, <2>1 DEF HistoryTypeOK
<1>7. /\ b # n
      /\ b # None /\ n # None => n.uid = b.uid /\ n.owner \in {None, b.owner}
      /\ b = None => n.owner = None /\ n.uid = live[x].rv + 1
    <2>1. DOMAIN live = Objects
        BY <1>1 DEF ClusterTypeOK, TypedVersions
    <2>2. CASE UserCreate(x)
        <3>1. PICK s \in UserSpecs(x) :
                  Write(x, [spec |-> s, owner |-> None, uid |-> live[x].rv + 1])
            BY <2>2 DEF UserCreate
        <3>2. n = [spec |-> s, owner |-> None, uid |-> live[x].rv + 1] /\ b = None
            BY <2>1, <2>2, <3>1 DEF Write, UserCreate
        <3>3. n \in Body(x)
            <4>1. s \in Specs(x) /\ live[x].rv \in Nat
                BY <1>1, VersionsTyped, Assumptions DEF UserAssumption
            <4> QED BY <3>2, <4>1 DEF Body
        <3> QED BY <3>2, <3>3, Assumptions DEF NoneAssumption
    <2>3. CASE UserUpdate(x)
        <3>1. PICK s \in UserSpecs(x) \cup {b.spec}, r \in {b.owner, None} :
                  /\ s # b.spec \/ r # b.owner
                  /\ Write(x, [spec |-> s, owner |-> r, uid |-> b.uid])
            BY <2>3 DEF UserUpdate
        <3>2. n = [spec |-> s, owner |-> r, uid |-> b.uid] /\ b # None
            BY <2>1, <2>3, <3>1 DEF Write, UserUpdate
        <3> QED BY <3>1, <3>2
    <2>4. CASE UserDelete(x) \/ Collect(x)
        BY <2>1, <2>4 DEF Write, UserDelete, Collect
    <2> QED BY <2>2, <2>3, <2>4 DEF UserWrite
<1> QED BY <1>5, <1>6, <1>7 DEF P!Foreign

\* The history says which version of the parent a request was made from.
LEMMA ApplySimulates ==
    ASSUME IInv, HistoryInv, Recorded, NEW c \in Controllers, Apply(c),
           work' = [work EXCEPT ![c] = Idle], live' # live
    PROVE  P!Reconciled(c, work[c].key)
<1> DEFINE o == work[c].key
           x == Target(c)
           v == [rv |-> from[c], body |-> work[c].parent]
           b == live[x].body
<1>1. /\ TypeOK /\ ClusterTypeOK /\ CacheInv /\ CopyInv /\ WorkOK(c) /\ CopyOK(c)
      /\ HistoryTypeOK /\ FromInv
    BY DEF IInv, TypeOK, CopyInv, HistoryInv
<1>2. work[c].step # "idle" /\ work[c] # Idle
    BY <1>1, ApplyEffect DEF Idle
<1>3. /\ o \in For(c) /\ x \in Objects
      /\ work[c].parent \in Body(o) /\ work[c].parent # None
      /\ ~Skip(c, work[c].parent.spec)
    BY <1>1, <1>2, TargetTyped, Assumptions DEF NoneAssumption
<1>4. v \in past[o] /\ v.rv >= last[c][o] /\ v.body # None /\ ~Skip(c, v.body.spec)
    BY <1>1, <1>2, <1>3 DEF FromInv
<1>5. x = Child(c, o, v.body.spec)
    BY DEF Target
<1>6. last' = [last EXCEPT ![c][o] = v.rv]
    <2>1. DOMAIN work = Controllers
        BY <1>1 DEF TypeOK
    <2>2. Wrote(c) /\ \A d \in Controllers : d # c => ~Wrote(d)
        BY <1>2, <2>1 DEF Wrote
    <2>3. last' = [d \in Controllers |->
                     IF d = c THEN [last[c] EXCEPT ![o] = from[c]] ELSE last[d]]
        BY <2>2 DEF Recorded
    <2> QED BY <1>1, <2>3 DEF HistoryTypeOK
<1>7. PICK n \in Body(x) \cup {None} : Write(x, n)
    BY <1>1, ApplyEffect
<1>8. P!Becomes(x, n) /\ live'[x].body = n
    <2>1. live'[x] = [rv |-> live[x].rv + 1, body |-> n]
        BY <1>1, <1>3, <1>7, ClusterTypeParts, WriteEffect
    <2> QED BY <1>1, <1>3, <1>7, <2>1, WriteBecomes
<1>9. DOMAIN live = Objects
    BY <1>1 DEF ClusterTypeOK, TypedVersions
<1>10. CASE Create(c)
    <2>1. work[c].step = "create" /\ b = None
        BY <1>10 DEF Create, CreateAccepted
    <2>2. n = [spec |-> Admit(x, Mutated(c, None)), owner |-> ParentRef(c), uid |-> live[x].rv + 1]
        BY <1>3, <1>8, <1>9, <1>10 DEF Create, Write
    <2>3. n = P!Desired(c, o, v.body, b, live[x].rv + 1)
        BY <1>5, <2>1, <2>2 DEF P!Desired, P!SpecOf, Mutated, ParentRef, Ref
    <2>4. Wanted(c, v.body.spec)
        BY <1>1, <1>2, <2>1 DEF WorkOK
    <2> QED BY <1>4, <1>5, <1>6, <1>8, <2>1, <2>3, <2>4 DEF P!Reconciled
<1>11. CASE Update(c)
    <2>1. work[c].step = "update" /\ b # None /\ live[x].rv = work[c].base
        BY <1>11 DEF Update, UpdateAccepted
    <2>2. n = [spec |-> Admit(x, Mutated(c, b.spec)), owner |-> ParentRef(c), uid |-> b.uid]
        BY <1>3, <1>8, <1>9, <1>11 DEF Update, Write
    <2>3. n = P!Desired(c, o, v.body, b, b.uid)
        BY <1>5, <2>1, <2>2 DEF P!Desired, P!SpecOf, Mutated, ParentRef, Ref
    <2>4. Wanted(c, v.body.spec)
        BY <1>1, <1>2, <2>1 DEF WorkOK
    <2>5. b.owner = None \/ b.owner.obj = o
        BY <1>1, <2>1 DEF CopyOK, Mutates, AlreadyOwned
    <2> QED BY <1>4, <1>5, <1>6, <1>8, <2>1, <2>3, <2>4, <2>5 DEF P!Reconciled
<1>12. CASE Delete(c)
    <2>1. work[c].step = "delete" /\ b # None
        BY <1>12 DEF Delete, DeleteAccepted
    <2>2. n = None
        BY <1>3, <1>8, <1>9, <1>12 DEF Delete, Write
    <2>3. ~Wanted(c, v.body.spec)
        BY <1>1, <1>2, <2>1 DEF WorkOK
    <2> QED BY <1>4, <1>5, <1>6, <1>8, <2>1, <2>2, <2>3 DEF P!Reconciled
<1> QED BY <1>10, <1>11, <1>12 DEF Apply

LEMMA PromiseNext == IInv /\ HistoryInv /\ [Next /\ Recorded]_rvars => [P!Next]_(P!vars)
<1> SUFFICES ASSUME IInv, HistoryInv, [Next /\ Recorded]_rvars PROVE [P!Next]_(P!vars)
    OBVIOUS
<1>1. CASE UNCHANGED rvars
    BY <1>1 DEF rvars, vars, history, P!vars
<1>2. CASE Next /\ Recorded
    <2>1. CASE live' = live
        BY <1>2, <2>1, QuietSimulates
    <2>2. CASE /\ live' # live
               /\ \E c \in Controllers : Apply(c) /\ work' = [work EXCEPT ![c] = Idle]
        <3>1. PICK c \in Controllers : Apply(c) /\ work' = [work EXCEPT ![c] = Idle]
            BY <2>2
        <3>2. P!Reconciled(c, work[c].key)
            BY <1>2, <2>2, <3>1, ApplySimulates
        <3>3. work[c].key \in For(c)
            BY <3>1, ApplyEffect, TargetTyped DEF IInv, TypeOK
        <3> QED BY <3>2, <3>3 DEF P!Next
    <2>3. CASE (\E x \in Objects : UserWrite(x) \/ Collect(x)) /\ work' = work
        BY <1>2, <2>3, OutsideSimulates DEF P!Next
    <2> QED BY <1>2, <2>1, <2>2, <2>3, Writers
<1> QED BY <1>1, <1>2

(***************************************************************************)
(* The history is what it is said to be: a worker's copy of its parent is  *)
(* a version the parent has had, not older than the one its controller     *)
(* last wrote from and not newer than the one in the cache.                *)
(***************************************************************************)
THEOREM HistoryIsKept == RSpec => [](IInv /\ HistoryInv)
<1>1. RInit => IInv /\ HistoryInv
    BY InitIInv, HistoryStart DEF RInit
<1> QED BY <1>1, HistoryNext, PTL DEF RSpec, rvars

(***************************************************************************)
(* The reconcile loop implements Promise, for any controllers: whatever    *)
(* is read from caches, whatever comes in between, each write of a         *)
(* controller is one atomic step from a version of the parent that does    *)
(* not go back, onto the child as it is in the API server.                 *)
(***************************************************************************)
THEOREM PromiseIsKept == RSpec => KeepsPromise
<1>1. RInit => P!Init
    BY PromiseInit
<1>2. IInv /\ HistoryInv /\ [Next /\ Recorded]_rvars => [P!Next]_(P!vars)
    BY PromiseNext
<1>3. RSpec => RInit /\ [][Next /\ Recorded]_rvars
    BY PTL DEF RSpec, rvars
<1>4. KeepsPromise <=> P!Init /\ [][P!Next]_(P!vars)
    BY DEF KeepsPromise, P!Spec
<1> QED BY <1>1, <1>2, <1>3, <1>4, HistoryIsKept, PTL
=============================================================================
