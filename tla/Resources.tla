------------------------------- MODULE Resources -------------------------------
(***************************************************************************)
(* Naming and referring to API objects (api/v1alpha1/types_shared.go).     *)
(*                                                                         *)
(* A name is the sequence of its dash-free words, so that                  *)
(* fmt.Sprintf("%s-%s", a, b) is Append or concatenation and "" is the     *)
(* empty sequence.  A reference leaves out the API version, which no       *)
(* controller tests, and the kind where no controller tests it.            *)
(***************************************************************************)
EXTENDS Sequences, TLC

Object(kind, ns, name) == [kind |-> kind, ns |-> ns, name |-> name]

ResourceRef(resource, namespace) == [resource |-> resource, namespace |-> namespace]

KindRef(kind, resource) == [kind |-> kind, resource |-> resource]

NoRef == ResourceRef(<<>>, "")

\* The object "<o>-<word>" in o's namespace.
Derived(o, kind, word) == Object(kind, o.ns, Append(o.name, word))

\* Both storage controllers name a volume's claim "<storage>-<volume>".
ClaimName(o, vol) == o.name \o vol.name

\* Every capability controller returns early when targetRef.resource is "".
TargetMissing(s) == s.targetRef.resource = <<>>

\* The fields an object keeps when a mutate function assigns the fields in
\* managed: all the others.  b is <<>>, no fields, for a new object.  A field
\* assigned nil is a member of managed that the assigned record lacks.
Kept(b, managed) == [f \in DOMAIN b \ managed |-> b[f]]
=============================================================================
