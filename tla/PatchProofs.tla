------------------------------ MODULE PatchProofs ------------------------------
(***************************************************************************)
(* Proofs about the escape hatches: what ApplyEscapeHatches may do to an   *)
(* object, for every list of hatches and every patch in them.              *)
(***************************************************************************)
EXTENDS PatchEngine, WellFoundedInduction, TLAPS

\* Every set of natural numbers has a least element: what the inductions below
\* rest on.
LEMMA LeastNat ==
    ASSUME NEW T \in SUBSET Nat, T # {}
    PROVE  \E n \in T : \A m \in T : n <= m
<1> DEFINE R == {ss \in Nat \X Nat : ss[1] < ss[2]}
<1>1. IsWellFoundedOn(R, Nat)
    BY NatLessThanWellFounded DEF OpToRel
<1>2. PICK n \in T : \A m \in T : ~(<<m, n>> \in R)
    <2> HIDE DEF R
    <2> QED BY <1>1, WFMin
<1>3. \A m \in T : ~(m < n)
    <2> TAKE m \in T
    <2>1. m \in Nat /\ n \in Nat
        OBVIOUS
    <2>2. <<m, n>> \in R <=> m < n
        BY <2>1
    <2> QED BY <1>2, <2>2
<1> QED BY <1>3

----------------------------------------------------------------------------
(***************************************************************************)
(* JSON patches.                                                           *)
(***************************************************************************)
\* g holds what the first n operations make of doc, one after the other.
JSONSteps(g, doc, patch, n) ==
    g = [i \in 0..n |-> IF i = 0 THEN doc ELSE JSONPatchOp(g[i - 1], patch[i])]

LEMMA JSONStepsExist ==
    ASSUME NEW doc, NEW patch
    PROVE  \A n \in Nat : \E g : JSONSteps(g, doc, patch, n)
<1> DEFINE T == {n \in Nat : ~\E g : JSONSteps(g, doc, patch, n)}
<1>1. SUFFICES ASSUME T # {} PROVE FALSE
    OBVIOUS
<1>2. PICK n \in T : \A m \in T : n <= m
    <2> HIDE DEF T
    <2>1. T \in SUBSET Nat
        BY DEF T
    <2> QED BY <1>1, <2>1, LeastNat
<1>3. CASE n = 0
    <2>1. JSONSteps([i \in 0..0 |-> doc], doc, patch, 0)
        BY DEF JSONSteps
    <2> QED BY <1>3, <2>1
<1>4. CASE n # 0
    <2>1. n - 1 \in Nat /\ n - 1 \notin T
        BY <1>2, <1>4
    <2>2. PICK g : JSONSteps(g, doc, patch, n - 1)
        BY <2>1
    <2> DEFINE h == [i \in 0..n |-> IF i = n THEN JSONPatchOp(g[n - 1], patch[n]) ELSE g[i]]
    <2>3. \A i \in 0..n : h[i] = IF i = 0 THEN doc ELSE JSONPatchOp(h[i - 1], patch[i])
        BY <1>4, <2>1, <2>2 DEF JSONSteps
    <2>4. JSONSteps(h, doc, patch, n)
        BY <2>3 DEF JSONSteps
    <2> QED BY <2>4
<1> QED BY <1>3, <1>4

\* JSONPatch is the last of its steps.
LEMMA JSONPatchSteps ==
    ASSUME NEW doc, NEW patch, Len(patch) \in Nat
    PROVE  \E g : /\ JSONSteps(g, doc, patch, Len(patch))
                  /\ JSONPatch(doc, patch) = g[Len(patch)]
<1> DEFINE h == CHOOSE g : g = [i \in 0..Len(patch) |->
                                   IF i = 0 THEN doc ELSE JSONPatchOp(g[i - 1], patch[i])]
<1>1. JSONSteps(h, doc, patch, Len(patch))
    BY JSONStepsExist DEF JSONSteps
<1>2. JSONPatch(doc, patch) = h[Len(patch)]
    BY DEF JSONPatch
<1> QED BY <1>1, <1>2

IsObject(o) == o = [f \in DOMAIN o |-> o[f]]

\* new is an object whose fields outside F are fields of old, unchanged.
Within(new, old, F) ==
    /\ IsObject(new)
    /\ \A f \in DOMAIN new \ F : f \in DOMAIN old /\ new[f] = old[f]

LEMMA JSONOpWithin ==
    ASSUME NEW old, NEW doc, NEW F, Within(doc, old, F), NEW op, op.op # "remove" => op.path \in F,
           JSONPatchOp(doc, op) # Failed
    PROVE  Within(JSONPatchOp(doc, op), old, F)
<1> DEFINE n == JSONPatchOp(doc, op)
<1>1. doc # Failed /\ ~(op.op # "add" /\ op.path \notin DOMAIN doc)
    BY DEF JSONPatchOp
<1>2. CASE op.op = "remove"
    <2>1. n = [f \in DOMAIN doc \ {op.path} |-> doc[f]]
        BY <1>1, <1>2 DEF JSONPatchOp
    <2> QED BY <2>1 DEF Within, IsObject
<1>3. CASE op.op = "append"
    <2>1. n = [doc EXCEPT ![op.path] = Append(@, op.value)]
        BY <1>1, <1>3 DEF JSONPatchOp
    <2>2. n = [f \in DOMAIN doc |-> IF f = op.path THEN Append(doc[f], op.value) ELSE doc[f]]
        BY <2>1
    <2>3. op.path \in F
        BY <1>3
    <2> QED BY <2>2, <2>3 DEF Within, IsObject
<1>4. CASE op.op \notin {"remove", "append"}
    <2>1. n = Over([f \in {op.path} |-> op.value], doc)
        BY <1>1, <1>4 DEF JSONPatchOp
    <2>2. op.path \in F
        BY <1>4
    <2> QED BY <2>1, <2>2 DEF Over, Within, IsObject
<1> QED BY <1>2, <1>3, <1>4

\* A JSON patch changes only fields that one of its operations sets or removes.
LEMMA JSONPatchWithin ==
    ASSUME NEW doc, IsObject(doc), NEW patch, Len(patch) \in Nat, NEW F,
           \A i \in 1..Len(patch) : patch[i].op # "remove" => patch[i].path \in F,
           JSONPatch(doc, patch) # Failed
    PROVE  Within(JSONPatch(doc, patch), doc, F)
<1>1. PICK g : /\ JSONSteps(g, doc, patch, Len(patch))
               /\ JSONPatch(doc, patch) = g[Len(patch)]
    BY JSONPatchSteps
<1> DEFINE T == {i \in 0..Len(patch) : g[i] # Failed /\ ~Within(g[i], doc, F)}
<1>2. SUFFICES ASSUME T # {} PROVE FALSE
    BY <1>1
<1>3. PICK n \in T : \A m \in T : n <= m
    <2> HIDE DEF T
    <2>1. T \in SUBSET Nat
        BY DEF T
    <2> QED BY <1>2, <2>1, LeastNat
<1>4. n # 0
    <2>1. g[0] = doc
        BY <1>1 DEF JSONSteps
    <2> QED BY <1>3, <2>1 DEF Within
<1>5. g[n] = JSONPatchOp(g[n - 1], patch[n]) /\ n - 1 \in 0..Len(patch) /\ n \in 1..Len(patch)
    BY <1>1, <1>3, <1>4 DEF JSONSteps
<1>6. g[n - 1] # Failed
    BY <1>3, <1>5 DEF JSONPatchOp
<1>7. Within(g[n - 1], doc, F)
    BY <1>3, <1>5, <1>6
<1>8. patch[n].op # "remove" => patch[n].path \in F
    BY <1>5
<1> QED BY <1>3, <1>5, <1>7, <1>8, JSONOpWithin

----------------------------------------------------------------------------
(***************************************************************************)
(* Escape hatches.                                                         *)
(***************************************************************************)
\* What one hatch patches, before it is decoded into the object.
LEMMA PatchedWithin ==
    ASSUME NEW o, IsObject(o), NEW hatch, Patched(o, hatch) # Failed,
           hatch.patchType = "JSONPatch" => Len(hatch.patch) \in Nat
    PROVE  Within(Patched(o, hatch), o, FieldsSet(hatch))
<1>1. CASE hatch.patchType = "JSONPatch"
    <2>1. Patched(o, hatch) = JSONPatch(o, hatch.patch)
        BY <1>1 DEF Patched
    <2>2. \A i \in 1..Len(hatch.patch) :
              hatch.patch[i].op # "remove" => hatch.patch[i].path \in FieldsSet(hatch)
        BY <1>1 DEF FieldsSet
    <2> QED BY <1>1, <2>1, <2>2, JSONPatchWithin
<1>2. CASE hatch.patchType = "JSONMergePatch"
    <2>1. Patched(o, hatch) = JSONMergePatch(o, hatch.patch)
        BY <1>2 DEF Patched
    <2>2. FieldsSet(hatch) = DOMAIN hatch.patch.set
        BY <1>2 DEF FieldsSet
    <2> QED BY <2>1, <2>2 DEF JSONMergePatch, Within, IsObject
<1>3. CASE hatch.patchType \notin {"JSONPatch", "JSONMergePatch"}
    BY <1>3 DEF Patched
<1> QED BY <1>1, <1>2, <1>3

\* new has every field of old, and is as old outside F.
Extends(new, old, F) == Within(new, old, F) /\ DOMAIN old \subseteq DOMAIN new

LEMMA HatchExtends ==
    ASSUME NEW obj, NEW o, NEW F, Extends(o, obj, F), NEW hatch, NEW kind,
           hatch.patchType = "JSONPatch" => Len(hatch.patch) \in Nat,
           hatch.kind = kind => FieldsSet(hatch) \subseteq F,
           ApplyEscapeHatch(o, hatch, kind) # Failed
    PROVE  Extends(ApplyEscapeHatch(o, hatch, kind), obj, F)
<1>1. CASE o = Failed \/ hatch.kind # kind
    BY <1>1 DEF ApplyEscapeHatch
<1>2. CASE ~(o = Failed \/ hatch.kind # kind)
    <2> DEFINE json == Patched(o, hatch)
    <2>1. ApplyEscapeHatch(o, hatch, kind) = Over(json, o) /\ json # Failed
        BY <1>2 DEF ApplyEscapeHatch, Unmarshal
    <2>2. IsObject(o)
        BY DEF Extends, Within
    <2>3. Within(json, o, F)
        BY <1>2, <2>1, <2>2, PatchedWithin DEF Within
    <2> HIDE DEF json
    <2> QED BY <2>1, <2>3 DEF Over, Extends, Within, IsObject
<1> QED BY <1>1, <1>2

\* g holds what the first n hatches make of obj.
HatchSteps(g, obj, hatches, kind, n) ==
    g = [i \in 0..n |-> IF i = 0 THEN obj ELSE ApplyEscapeHatch(g[i - 1], hatches[i], kind)]

LEMMA HatchStepsExist ==
    ASSUME NEW obj, NEW hatches, NEW kind
    PROVE  \A n \in Nat : \E g : HatchSteps(g, obj, hatches, kind, n)
<1> DEFINE T == {n \in Nat : ~\E g : HatchSteps(g, obj, hatches, kind, n)}
<1>1. SUFFICES ASSUME T # {} PROVE FALSE
    OBVIOUS
<1>2. PICK n \in T : \A m \in T : n <= m
    <2> HIDE DEF T
    <2>1. T \in SUBSET Nat
        BY DEF T
    <2> QED BY <1>1, <2>1, LeastNat
<1>3. CASE n = 0
    <2>1. HatchSteps([i \in 0..0 |-> obj], obj, hatches, kind, 0)
        BY DEF HatchSteps
    <2> QED BY <1>3, <2>1
<1>4. CASE n # 0
    <2>1. n - 1 \in Nat /\ n - 1 \notin T
        BY <1>2, <1>4
    <2>2. PICK g : HatchSteps(g, obj, hatches, kind, n - 1)
        BY <2>1
    <2> DEFINE h == [i \in 0..n |-> IF i = n THEN ApplyEscapeHatch(g[n - 1], hatches[n], kind)
                                             ELSE g[i]]
    <2>3. \A i \in 0..n :
              h[i] = IF i = 0 THEN obj ELSE ApplyEscapeHatch(h[i - 1], hatches[i], kind)
        BY <1>4, <2>1, <2>2 DEF HatchSteps
    <2>4. HatchSteps(h, obj, hatches, kind, n)
        BY <2>3 DEF HatchSteps
    <2> QED BY <2>4
<1> QED BY <1>3, <1>4

\* ApplyEscapeHatches is the last of its steps.
LEMMA ApplySteps ==
    ASSUME NEW obj, NEW hatches, NEW kind, Len(hatches) \in Nat
    PROVE  \E g : /\ HatchSteps(g, obj, hatches, kind, Len(hatches))
                  /\ ApplyEscapeHatches(obj, hatches, kind) = g[Len(hatches)]
<1> DEFINE h == CHOOSE g : g = [i \in 0..Len(hatches) |->
                      IF i = 0 THEN obj ELSE ApplyEscapeHatch(g[i - 1], hatches[i], kind)]
<1>1. HatchSteps(h, obj, hatches, kind, Len(hatches))
    BY HatchStepsExist DEF HatchSteps
<1>2. ApplyEscapeHatches(obj, hatches, kind) = h[Len(hatches)]
    BY DEF ApplyEscapeHatches
<1> QED BY <1>1, <1>2

(***************************************************************************)
(* Hatches only add to an object: whatever they remove is decoded into the *)
(* object that still has it, so every field stays, and a field to which no *)
(* hatch for the object's kind gives a value keeps the one it had.         *)
(***************************************************************************)
THEOREM HatchesExtend ==
    ASSUME NEW obj, IsObject(obj), NEW hatches, IsHatches(hatches), NEW kind,
           ApplyEscapeHatches(obj, hatches, kind) # Failed
    PROVE  Extends(ApplyEscapeHatches(obj, hatches, kind), obj, Hatched(hatches, kind))
<1> DEFINE F == Hatched(hatches, kind)
<1>1. PICK g : /\ HatchSteps(g, obj, hatches, kind, Len(hatches))
               /\ ApplyEscapeHatches(obj, hatches, kind) = g[Len(hatches)]
    BY ApplySteps DEF IsHatches
<1> DEFINE T == {i \in 0..Len(hatches) : g[i] # Failed /\ ~Extends(g[i], obj, F)}
<1>2. SUFFICES ASSUME T # {} PROVE FALSE
    BY <1>1 DEF IsHatches
<1>3. PICK n \in T : \A m \in T : n <= m
    <2> HIDE DEF T
    <2>1. T \in SUBSET Nat
        BY DEF T
    <2> QED BY <1>2, <2>1, LeastNat
<1> HIDE DEF F
<1>4. n # 0
    <2>1. g[0] = obj
        BY <1>1 DEF HatchSteps, IsHatches
    <2> QED BY <1>3, <2>1 DEF Extends, Within
<1>5. /\ g[n] = ApplyEscapeHatch(g[n - 1], hatches[n], kind)
      /\ n - 1 \in 0..Len(hatches) /\ n \in 1..Len(hatches)
    BY <1>1, <1>3, <1>4 DEF HatchSteps, IsHatches
<1>6. g[n - 1] # Failed
    BY <1>3, <1>5 DEF ApplyEscapeHatch
<1>7. Extends(g[n - 1], obj, F)
    BY <1>3, <1>5, <1>6
<1>8. hatches[n].kind = kind => FieldsSet(hatches[n]) \subseteq F
    BY <1>5 DEF F, Hatched
<1>9. hatches[n].patchType = "JSONPatch" => Len(hatches[n].patch) \in Nat
    BY <1>5 DEF IsHatches
<1> QED BY <1>3, <1>5, <1>7, <1>8, <1>9, HatchExtends

(***************************************************************************)
(* Hatches for other kinds do nothing, a list without any for this one     *)
(* cannot fail.                                                            *)
(***************************************************************************)
THEOREM OtherKindsIgnored ==
    ASSUME NEW obj, NEW hatches, Len(hatches) \in Nat, NEW kind,
           \A i \in 1..Len(hatches) : hatches[i].kind # kind
    PROVE  ApplyEscapeHatches(obj, hatches, kind) = obj
<1>1. PICK g : /\ HatchSteps(g, obj, hatches, kind, Len(hatches))
               /\ ApplyEscapeHatches(obj, hatches, kind) = g[Len(hatches)]
    BY ApplySteps
<1> DEFINE T == {i \in 0..Len(hatches) : g[i] # obj}
<1>2. SUFFICES ASSUME T # {} PROVE FALSE
    BY <1>1
<1>3. PICK n \in T : \A m \in T : n <= m
    <2> HIDE DEF T
    <2>1. T \in SUBSET Nat
        BY DEF T
    <2> QED BY <1>2, <2>1, LeastNat
<1>4. n # 0
    BY <1>1, <1>3 DEF HatchSteps
<1>5. /\ g[n] = ApplyEscapeHatch(g[n - 1], hatches[n], kind)
      /\ n - 1 \in 0..Len(hatches) /\ n \in 1..Len(hatches)
    BY <1>1, <1>3, <1>4 DEF HatchSteps
<1>6. g[n - 1] = obj
    BY <1>3, <1>5
<1> QED BY <1>3, <1>5, <1>6 DEF ApplyEscapeHatch
=============================================================================
