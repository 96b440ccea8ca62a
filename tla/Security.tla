-------------------------------- MODULE Security --------------------------------
(***************************************************************************)
(* The Security capability (api/v1alpha1/security_types.go): a Role and a  *)
(* RoleBinding made by two controllers of internal/controller/security     *)
(* from the same Security object.                                          *)
(***************************************************************************)
EXTENDS Resources, PatchEngine

RoleReconciler == [for |-> "Security", owns |-> "Role"]

RoleChild(o) == Derived(o, "Role", "role")

RoleWanted(s) == s.rbac.createRole

RoleRender(s, b) ==
    ApplyEscapeHatches(Over([rules |-> s.rbac.rules], Kept(b, {"rules"})),
                       s.escapeHatches, "Role")

RoleBindingReconciler == [for |-> "Security", owns |-> "RoleBinding"]

RoleBindingChild(o) == Derived(o, "RoleBinding", "rb")

RoleBindingWanted(s) == s.rbac.createRole

\* Mutant of RoleBindingRender: the role is named like the Security object.
RoleBindingToParent(o, s, b) ==
    ApplyEscapeHatches(
        Over([roleRef |-> o.name,
              subjects |-> <<ResourceRef(s.targetRef.resource, o.ns)>>],
             Kept(b, {"roleRef", "subjects"})),
        s.escapeHatches, "RoleBinding")

\* The subject is the service account named like the target.
RoleBindingRender(o, s, b) ==
    ApplyEscapeHatches(
        Over([roleRef |-> Append(o.name, "role"),
              subjects |-> <<ResourceRef(s.targetRef.resource, o.ns)>>],
             Kept(b, {"roleRef", "subjects"})),
        s.escapeHatches, "RoleBinding")

\* rbac/v1 validation: a binding's roleRef never changes.
RoleRefChanged(b, s) == b.roleRef # s.roleRef
=============================================================================
