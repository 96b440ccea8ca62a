------------------------------ MODULE PatchEngine ------------------------------
(***************************************************************************)
(* Escape hatches (pkg/patch/patch_engine.go).  An object is a function    *)
(* from the fields its JSON holds to their values.  A hatch names a kind,  *)
(* a patch type and a patch: the fields set and the fields removed by a    *)
(* merge patch, a sequence of [op, path, value] for a JSON patch.          *)
(***************************************************************************)
EXTENDS Naturals, Sequences, SequencesExt, TLC

\* What ApplyEscapeHatches returns for every error of its own.
Failed == [error |-> "escape hatch"]

\* The fields of f, and those of g that f lacks (f @@ g, spelled out for the
\* proofs).
Over(f, g) == [x \in DOMAIN f \cup DOMAIN g |-> IF x \in DOMAIN f THEN f[x] ELSE g[x]]

\* RFC 7386: null removes a field, any other value replaces it.
JSONMergePatch(doc, patch) ==
    [f \in (DOMAIN doc \cup DOMAIN patch.set) \ patch.remove |->
        IF f \in DOMAIN patch.set THEN patch.set[f] ELSE doc[f]]

\* RFC 6902, one operation; all but "add" need the field to be there.  "append"
\* stands for an "add" at the end of a list (a path that ends in "/-").
JSONPatchOp(doc, op) ==
    IF doc = Failed \/ (op.op # "add" /\ op.path \notin DOMAIN doc)
    THEN Failed
    ELSE CASE op.op = "remove" -> [f \in DOMAIN doc \ {op.path} |-> doc[f]]
           [] op.op = "append" -> [doc EXCEPT ![op.path] = Append(@, op.value)]
           [] OTHER -> Over([f \in {op.path} |-> op.value], doc)

\* Folds from the left are written as functions of the number of elements, from
\* whose equations the proofs start.
JSONPatch(doc, patch) ==
    LET after[i \in 0..Len(patch)] ==
            IF i = 0 THEN doc ELSE JSONPatchOp(after[i - 1], patch[i])
    IN  after[Len(patch)]

Patched(doc, hatch) ==
    CASE hatch.patchType = "JSONPatch" -> JSONPatch(doc, hatch.patch)
      [] hatch.patchType = "JSONMergePatch" -> JSONMergePatch(doc, hatch.patch)
      [] OTHER -> Failed

\* json.Unmarshal decodes into the object it is given: a field that the JSON
\* lacks keeps the value the object had.
Unmarshal(json, obj) == IF json = Failed THEN Failed ELSE Over(json, obj)

\* One hatch; those of another kind are passed over.
ApplyEscapeHatch(obj, hatch, targetKind) ==
    IF obj = Failed \/ hatch.kind # targetKind THEN obj
                                              ELSE Unmarshal(Patched(obj, hatch), obj)

ApplyEscapeHatches(obj, hatches, targetKind) ==
    LET patchedObj[i \in 0..Len(hatches)] ==
            IF i = 0 THEN obj ELSE ApplyEscapeHatch(patchedObj[i - 1], hatches[i], targetKind)
    IN  patchedObj[Len(hatches)]

\* A list of hatches, the JSON patches among which are lists.
IsHatches(hatches) ==
    /\ Len(hatches) \in Nat
    /\ \A i \in 1..Len(hatches) :
          hatches[i].patchType = "JSONPatch" => Len(hatches[i].patch) \in Nat

\* The fields that a hatch gives a value.
FieldsSet(hatch) ==
    IF hatch.patchType = "JSONPatch"
    THEN {hatch.patch[i].path : i \in {j \in 1..Len(hatch.patch) : hatch.patch[j].op # "remove"}}
    ELSE DOMAIN hatch.patch.set

\* Those that the hatches for a kind give a value.
Hatched(hatches, targetKind) ==
    UNION {FieldsSet(hatches[i]) : i \in {j \in 1..Len(hatches) : hatches[j].kind = targetKind}}

\* CreateOrUpdate refuses a mutate function that returned an error and one that
\* renamed the object.
MutationRefused(obj) == obj = Failed \/ "name" \in DOMAIN obj
=============================================================================
