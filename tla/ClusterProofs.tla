----------------------------- MODULE ClusterProofs -----------------------------
(***************************************************************************)
(* Facts about the API server, the watch and the cache that the proofs     *)
(* about every kind of controller share.                                   *)
(***************************************************************************)
EXTENDS Cluster, TLAPS

PendTyped == DOMAIN pend = Objects /\ \A x \in Objects : \A e \in pend[x] : e \in Version(x)

LEMMA ClusterTypeParts ==
    ClusterTypeOK <=> /\ TypedVersions(live)
                      /\ TypedVersions(cache)
                      /\ PendTyped
                      /\ budget \in 0..MaxDisturbances
BY DEF ClusterTypeOK, PendTyped

\* Resource versions are numbers.
LEMMA VersionsTyped ==
    ASSUME ClusterTypeOK, NEW x \in Objects
    PROVE  /\ live[x] \in Version(x) /\ live[x].rv \in Nat
           /\ cache[x] \in Version(x) /\ cache[x].rv \in Nat
           /\ \A e \in pend[x] : e \in Version(x) /\ e.rv \in Nat
BY DEF ClusterTypeOK, TypedVersions, Version

\* A present version in the cache is the live one.
LEMMA CacheCurrent ==
    ASSUME ClusterTypeOK, NEW x \in Objects, CacheOK(x), cache[x].rv = live[x].rv
    PROVE  cache[x] = live[x] /\ pend[x] = {}
<1>1. pend[x] = {}
    BY VersionsTyped DEF CacheOK
<1> QED BY <1>1 DEF CacheOK

----------------------------------------------------------------------------
\* What a write does to the API server's state and to the events under way.
LEMMA WriteEffect ==
    ASSUME TypedVersions(live), PendTyped, NEW x \in Objects, NEW b \in Body(x) \cup {None},
           Write(x, b)
    PROVE  /\ TypedVersions(live)'
           /\ PendTyped'
           /\ \A y \in Objects : pend[y] \subseteq pend'[y]
           /\ \A y \in Objects : y # x => live'[y] = live[y] /\ pend'[y] = pend[y]
           /\ live'[x] = [rv |-> live[x].rv + 1, body |-> b]
           /\ pend'[x] = pend[x] \cup {live'[x]}
<1> DEFINE v == [rv |-> live[x].rv + 1, body |-> b]
<1>1. live[x].rv \in Nat
    BY DEF TypedVersions, Version
<1>2. v \in Version(x)
    BY <1>1 DEF Version
<1>3. live' = [live EXCEPT ![x] = v] /\ pend' = [pend EXCEPT ![x] = @ \cup {v}]
    BY DEF Write
<1>4. DOMAIN live = Objects /\ DOMAIN pend = Objects
    BY DEF TypedVersions, PendTyped
<1>5. live'[x] = v /\ pend'[x] = pend[x] \cup {v}
    BY <1>3, <1>4
<1>6. \A y \in Objects : y # x => live'[y] = live[y] /\ pend'[y] = pend[y]
    BY <1>3, <1>4
<1>7. TypedVersions(live)'
    BY <1>2, <1>3, <1>4, <1>5, <1>6 DEF TypedVersions
<1>8. PendTyped'
    BY <1>2, <1>3, <1>4, <1>5, <1>6 DEF PendTyped
<1> QED BY <1>5, <1>6, <1>7, <1>8

LEMMA WriteCache ==
    ASSUME ClusterTypeOK, CacheInv, NEW x \in Objects, NEW b \in Body(x) \cup {None},
           Write(x, b), cache' = cache
    PROVE  CacheInv'
<1>1. SUFFICES ASSUME NEW y \in Objects PROVE CacheOK(y)'
    BY DEF CacheInv
<1>2. /\ TypedVersions(live) /\ PendTyped
      /\ \A z \in Objects : z # x => live'[z] = live[z] /\ pend'[z] = pend[z]
      /\ live'[x] = [rv |-> live[x].rv + 1, body |-> b]
      /\ pend'[x] = pend[x] \cup {live'[x]}
    BY ClusterTypeParts, WriteEffect
<1>3. CacheOK(y)
    BY DEF CacheInv
<1>4. CASE y # x
    BY <1>2, <1>3, <1>4 DEF CacheOK
<1>5. CASE y = x
    <2>1. /\ live[x].rv \in Nat
          /\ cache[x].rv \in Nat
          /\ \A e \in pend[x] : e.rv \in Nat
        BY VersionsTyped
    <2>2. live'[x].rv = live[x].rv + 1
        BY <1>2
    <2>3. CacheOK(x)
        BY <1>3, <1>5
    <2>4. cache'[x].rv <= live'[x].rv
        BY <2>1, <2>2, <2>3 DEF CacheOK
    <2>5. \A e \in pend'[x] : cache'[x].rv < e.rv /\ e.rv <= live'[x].rv
        BY <1>2, <2>1, <2>2, <2>3 DEF CacheOK
    <2>6. \A e, f \in pend'[x] : e.rv = f.rv => e = f
        BY <1>2, <2>1, <2>2, <2>3 DEF CacheOK
    <2>7. live'[x] \in pend'[x]
        BY <1>2
    <2> QED BY <1>5, <2>4, <2>5, <2>6, <2>7 DEF CacheOK
<1> QED BY <1>4, <1>5

\* A write keeps the types and the cache's bond with the API server.
LEMMA WriteKeeps ==
    ASSUME ClusterTypeOK, CacheInv, NEW x \in Objects, NEW b \in Body(x) \cup {None},
           Write(x, b), cache' = cache, budget' \in 0..MaxDisturbances
    PROVE  ClusterTypeOK' /\ CacheInv'
<1>1. TypedVersions(live)' /\ PendTyped'
    BY ClusterTypeParts, WriteEffect
<1>2. TypedVersions(cache)'
    BY DEF ClusterTypeOK, TypedVersions
<1>3. ClusterTypeOK'
    BY <1>1, <1>2 DEF ClusterTypeOK, TypedVersions, PendTyped
<1> QED BY <1>3, WriteCache

LEMMA BudgetTyped ==
    ASSUME budget \in 0..MaxDisturbances, Disturb
    PROVE  budget' \in 0..MaxDisturbances
BY ClusterAssumptions DEF Disturb, BoundAssumption

----------------------------------------------------------------------------
\* Users and the garbage collector make ordinary writes.
LEMMA UserWrites ==
    ASSUME ClusterTypeOK, NEW x \in Objects, UserWrite(x)
    PROVE  /\ cache' = cache
           /\ budget' \in 0..MaxDisturbances
           /\ \E b \in Body(x) \cup {None} : Write(x, b)
<1>1. budget \in 0..MaxDisturbances /\ live[x] \in Version(x) /\ live[x].rv \in Nat
    BY VersionsTyped DEF ClusterTypeOK
<1>2. cache' = cache /\ budget' \in 0..MaxDisturbances
    BY <1>1, BudgetTyped DEF UserWrite, UserCreate, UserUpdate, UserDelete
<1>3. UserSpecs(x) \subseteq Specs(x)
    BY ClusterAssumptions DEF UserAssumption
<1>4. CASE UserCreate(x)
    <2>1. PICK s \in UserSpecs(x) :
              Write(x, [spec |-> s, owner |-> None, uid |-> live[x].rv + 1])
        BY <1>4 DEF UserCreate
    <2>2. [spec |-> s, owner |-> None, uid |-> live[x].rv + 1] \in Body(x)
        BY <1>1, <1>3, <2>1 DEF Body
    <2> QED BY <1>2, <2>1, <2>2
<1>5. CASE UserUpdate(x)
    <2>1. live[x].body \in Body(x)
        BY <1>1, <1>5 DEF UserUpdate, Version
    <2>2. PICK s \in UserSpecs(x) \cup {live[x].body.spec}, r \in {live[x].body.owner, None} :
              Write(x, [spec |-> s, owner |-> r, uid |-> live[x].body.uid])
        BY <1>5 DEF UserUpdate
    <2>3. [spec |-> s, owner |-> r, uid |-> live[x].body.uid] \in Body(x)
        BY <1>3, <2>1, <2>2 DEF Body
    <2> QED BY <1>2, <2>2, <2>3
<1>6. CASE UserDelete(x)
    BY <1>2, <1>6 DEF UserDelete
<1> QED BY <1>4, <1>5, <1>6 DEF UserWrite

LEMMA CollectWrites ==
    ASSUME ClusterTypeOK, NEW x \in Objects, Collect(x)
    PROVE  /\ cache' = cache
           /\ budget' \in 0..MaxDisturbances
           /\ \E b \in Body(x) \cup {None} : Write(x, b)
BY DEF Collect, ClusterTypeOK

\* Neither hands a living object to another controller.
LEMMA OutsideKeepsOwner ==
    ASSUME ClusterTypeOK, NEW y \in Objects, UserWrite(y) \/ Collect(y),
           NEW x \in Objects, live[x].body # None, live'[x].body # None
    PROVE  live'[x].body.owner \in {None, live[x].body.owner}
<1>1. DOMAIN live = Objects
    BY DEF ClusterTypeOK, TypedVersions
<1> QED BY <1>1 DEF UserWrite, UserCreate, UserUpdate, UserDelete, Collect, Write

----------------------------------------------------------------------------
\* The watch delivers: the cache moves on to the next version.
LEMMA ReceiveEffect ==
    ASSUME ClusterTypeOK, CacheInv, NEW x \in Objects, NEW e \in pend[x], Receive(x, e)
    PROVE  /\ ClusterTypeOK' /\ CacheInv'
           /\ live' = live
           /\ cache'[x] = e /\ pend'[x] = pend[x] \ {e}
           /\ cache[x].rv < e.rv
           /\ \A y \in Objects : y # x => pend'[y] = pend[y] /\ cache'[y] = cache[y]
<1>1. /\ \A f \in pend[x] : e.rv <= f.rv
      /\ pend' = [pend EXCEPT ![x] = @ \ {e}]
      /\ cache' = [cache EXCEPT ![x] = e]
      /\ UNCHANGED <<live, budget>>
    BY DEF Receive
<1>2. /\ pend'[x] = pend[x] \ {e} /\ cache'[x] = e
      /\ \A y \in Objects : y # x => pend'[y] = pend[y] /\ cache'[y] = cache[y]
      /\ DOMAIN pend' = Objects /\ DOMAIN cache' = Objects
    BY <1>1 DEF ClusterTypeOK, TypedVersions
<1>3. /\ e \in Version(x) /\ e.rv \in Nat
      /\ live[x].rv \in Nat /\ cache[x].rv \in Nat
      /\ \A f \in pend[x] : f.rv \in Nat
    BY VersionsTyped
<1>4. CacheOK(x)
    BY DEF CacheInv
<1>5. cache[x].rv < e.rv
    BY <1>4 DEF CacheOK
<1>6. ClusterTypeOK'
    <2>1. TypedVersions(cache)' /\ PendTyped'
        BY <1>2, <1>3 DEF ClusterTypeOK, TypedVersions, PendTyped
    <2>2. TypedVersions(live)' /\ budget' \in 0..MaxDisturbances
        BY <1>1 DEF ClusterTypeOK, TypedVersions
    <2> QED BY <2>1, <2>2 DEF ClusterTypeOK, TypedVersions, PendTyped
<1>7. CacheInv'
    <2>1. SUFFICES ASSUME NEW y \in Objects PROVE CacheOK(y)'
        BY DEF CacheInv
    <2>2. CASE y # x
        BY <1>1, <1>2, <2>2 DEF CacheInv, CacheOK
    <2>3. CASE y = x
        <3>1. e.rv <= live[x].rv
            BY <1>4 DEF CacheOK
        <3>2. \A f \in pend'[x] : e.rv < f.rv /\ f.rv <= live[x].rv
            <4>1. SUFFICES ASSUME NEW f \in pend[x], f # e
                           PROVE  e.rv < f.rv /\ f.rv <= live[x].rv
                BY <1>2
            <4>2. e.rv <= f.rv /\ e.rv # f.rv /\ f.rv <= live[x].rv
                BY <1>1, <1>4, <4>1 DEF CacheOK
            <4> QED BY <1>3, <4>2
        <3>3. pend'[x] # {} => live[x] \in pend'[x]
            <4>1. SUFFICES ASSUME NEW f \in pend'[x] PROVE live[x] \in pend'[x]
                OBVIOUS
            <4>2. e # live[x]
                BY <1>3, <3>2, <4>1, <1>2
            <4> QED BY <1>2, <1>4, <4>2 DEF CacheOK
        <3>4. pend'[x] = {} => e = live[x]
            BY <1>2, <1>4 DEF CacheOK
        <3>5. \A f, g \in pend'[x] : f.rv = g.rv => f = g
            BY <1>2, <1>4 DEF CacheOK
        <3> QED BY <1>1, <1>2, <2>3, <3>1, <3>2, <3>3, <3>4, <3>5 DEF CacheOK
    <2> QED BY <2>2, <2>3
<1> QED BY <1>1, <1>2, <1>5, <1>6, <1>7

LEMMA RelistEffect ==
    ASSUME ClusterTypeOK, Relist
    PROVE  /\ ClusterTypeOK' /\ CacheInv'
           /\ cache' = live /\ live' = live
           /\ \A x \in Objects : pend'[x] = {}
<1>1. /\ cache' = live /\ live' = live
      /\ pend' = [x \in Objects |-> {}]
      /\ budget' \in 0..MaxDisturbances
    BY BudgetTyped DEF Relist, ClusterTypeOK
<1>2. ClusterTypeOK'
    BY <1>1 DEF ClusterTypeOK, TypedVersions
<1>3. \A x \in Objects : live[x].rv \in Nat
    BY VersionsTyped
<1>4. CacheInv'
    BY <1>1, <1>3 DEF CacheInv, CacheOK
<1> QED BY <1>1, <1>2, <1>4

LEMMA ClusterStart == ClusterInit => ClusterTypeOK /\ CacheInv
<1> SUFFICES ASSUME ClusterInit PROVE ClusterTypeOK /\ CacheInv
    OBVIOUS
<1>1. /\ DOMAIN live = Objects
      /\ \A x \in Objects : live[x] \in InitialVersions(x)
      /\ cache = live
      /\ pend = [x \in Objects |-> {}]
      /\ budget = MaxDisturbances
    BY DEF ClusterInit
<1>2. TypedVersions(live)
    <2>1. SUFFICES ASSUME NEW x \in Objects PROVE live[x] \in Version(x)
        BY <1>1 DEF TypedVersions
    <2>2. live[x] \in InitialVersions(x)
        BY <1>1
    <2>3. UserSpecs(x) \subseteq Specs(x)
        BY ClusterAssumptions DEF UserAssumption
    <2> QED BY <2>2, <2>3 DEF InitialVersions, Version, Body
<1>3. ClusterTypeOK
    BY <1>1, <1>2, ClusterAssumptions DEF ClusterTypeOK, TypedVersions, BoundAssumption
<1>4. CacheInv
    <2>1. SUFFICES ASSUME NEW x \in Objects PROVE CacheOK(x)
        BY DEF CacheInv
    <2>2. live[x].rv \in Nat /\ pend[x] = {} /\ cache[x] = live[x]
        BY <1>1, <1>3, VersionsTyped
    <2> QED BY <2>2 DEF CacheOK
<1> QED BY <1>3, <1>4
=============================================================================
