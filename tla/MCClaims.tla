-------------------------------- MODULE MCClaims --------------------------------
(***************************************************************************)
(* Two Storages, a and a-b, whose volumes b-c and c have the same claim    *)
(* a-b-c; a also has a volume c, with the claim a-c.                       *)
(***************************************************************************)
EXTENDS Claims

A == Object("Storage", "ns1", <<"a">>)

AB == Object("Storage", "ns1", <<"a", "b">>)

Vol(name, size) == [name |-> name, size |-> size, accessModes |-> {}]

StorageOf(class, volumes) ==
    [targetRef |-> ResourceRef(<<"app">>, "ns1"), storageClassName |-> class,
     volumes |-> volumes, escapeHatches |-> <<>>]

NoTarget == [StorageOf("fast", <<Vol(<<"c">>, "1Gi")>>) EXCEPT !.targetRef = NoRef]

MCParseQuantity(size) ==
    CASE size \in {"1Gi", "1024Mi"} -> 1024
      [] size = "2Gi" -> 2048
      [] OTHER -> None

ClaimABC == Claim(A, Vol(<<"b", "c">>, "1Gi"))

ClaimAC == Claim(A, Vol(<<"c">>, "1Gi"))

MCObjects == {A, AB, ClaimABC, ClaimAC}

MCUserSpecs(x) ==
    CASE x = A -> {StorageOf("fast", <<Vol(<<"b", "c">>, "1Gi"), Vol(<<"c">>, "2Gi")>>),
                   StorageOf("fast", <<Vol(<<"b", "c">>, "ten"), Vol(<<"c">>, "1024Mi")>>),
                   NoTarget}
      [] x = AB -> {StorageOf("fast", <<Vol(<<"c">>, "1024Mi")>>)}
      [] OTHER -> {}

ClaimSpecs ==
    [accessModes : {{"ReadWriteOnce"}}, size : {1024, 2048}, storageClassName : {"fast", "standard"}]

MCSpecs(x) == IF x.kind = "Storage" THEN MCUserSpecs(x) ELSE ClaimSpecs

----------------------------------------------------------------------------
\* A Storage that leaves the class to the cluster, and gets a second volume.
PlainObjects == {A, ClaimABC, ClaimAC}

PlainUserSpecs(x) ==
    IF x = A THEN {StorageOf("", <<Vol(<<"b", "c">>, "1Gi")>>),
                   StorageOf("", <<Vol(<<"b", "c">>, "1Gi"), Vol(<<"c">>, "1Gi")>>)}
             ELSE {}

PlainSpecs(x) == IF x = A THEN PlainUserSpecs(x) ELSE ClaimSpecs

(***************************************************************************)
(* storageClassName is optional and the volumes are a list of claims to    *)
(* manage: in the end every volume of a Storage without a class has its    *)
(* claim.                                                                  *)
(***************************************************************************)
ClassOptional ==
    <>[](live[A].body # None =>
            \A i \in DOMAIN live[A].body.spec.volumes :
                live[Claim(A, live[A].body.spec.volumes[i])].body # None)
=============================================================================
