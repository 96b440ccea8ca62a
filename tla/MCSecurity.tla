------------------------------- MODULE MCSecurity -------------------------------
(***************************************************************************)
(* One Security object, its Role and its RoleBinding, which a user may     *)
(* have made beforehand with another roleRef.  The targetRef may be        *)
(* removed, and the Role with it.                                          *)
(***************************************************************************)
EXTENDS Kalypso

S == Object("Security", "ns1", <<"s">>)

TheRole == Object("Role", "ns1", <<"s", "role">>)

UserRole == Object("Role", "ns1", <<"s">>)

TheBinding == Object("RoleBinding", "ns1", <<"s", "rb">>)

MCObjects == {S, TheRole, UserRole, TheBinding}

SecuritySpec(create, rules, hatches) ==
    [targetRef |-> ResourceRef(<<"app">>, "ns1"), escapeHatches |-> hatches,
     rbac |-> [createRole |-> create, rules |-> rules]]

\* A hatch that fails, since a binding has no such field to remove.
RemoveLabels ==
    [kind |-> "RoleBinding", patchType |-> "JSONPatch",
     patch |-> <<[op |-> "remove", path |-> "labels"]>>]

BindingSpec(role) ==
    [roleRef |-> role, subjects |-> <<ResourceRef(<<"app">>, "ns1")>>]

MCUserSpecs(x) ==
    CASE x = S -> {SecuritySpec(TRUE, <<"get">>, <<>>),
                   SecuritySpec(TRUE, <<>>, <<RemoveLabels>>),
                   SecuritySpec(FALSE, <<>>, <<>>),
                   [SecuritySpec(TRUE, <<"get">>, <<>>) EXCEPT !.targetRef = NoRef]}
      [] x = TheBinding -> {BindingSpec(UserRole.name)}
      [] OTHER -> {}

MCSpecs(x) ==
    CASE x = S -> MCUserSpecs(x)
      [] x = TheBinding -> {BindingSpec(TheRole.name), BindingSpec(UserRole.name)}
      [] OTHER -> {[rules |-> <<"get">>], [rules |-> <<>>]}
=============================================================================
