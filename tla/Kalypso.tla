-------------------------------- MODULE Kalypso --------------------------------
(***************************************************************************)
(* The manager of cmd/main.go: the reconcile loop of Reconciler with the   *)
(* controllers of Workload, Compute, Networking and Security in it.  The   *)
(* operators below are the values of Reconciler's operator constants; each *)
(* dispatches on the name SetupWithManager gives a controller.             *)
(***************************************************************************)
EXTENDS Reconciler, Workload, Compute, Networking, Security

\* The controllers of the capabilities, under the names SetupWithManager gives.
CapabilityReconcilers ==
    [c \in {"compute-hpa", "networking-service", "networking-ingress",
            "security-role", "security-rolebinding"} |->
        CASE c = "compute-hpa" -> HPAReconciler
          [] c = "networking-service" -> ServiceReconciler
          [] c = "networking-ingress" -> IngressReconciler
          [] c = "security-role" -> RoleReconciler
          [] c = "security-rolebinding" -> RoleBindingReconciler]

ParentKind(c) ==
    IF c \in DOMAIN WorkloadReconcilers THEN "Workload" ELSE CapabilityReconcilers[c].for

ChildKind(c) ==
    IF c \in DOMAIN WorkloadReconcilers THEN WorkloadReconcilers[c].kind
                                        ELSE CapabilityReconcilers[c].owns

KFor(c) == {o \in Objects : o.kind = ParentKind(c)}

KOwns(c) == {o \in Objects : o.kind = ChildKind(c)}

KSkip(c, s) == IF ParentKind(c) = "Workload" THEN WorkloadSkip(s) ELSE TargetMissing(s)

KWanted(c, s) ==
    CASE ParentKind(c) = "Workload" -> WorkloadWanted(WorkloadReconcilers[c], s)
      [] c = "compute-hpa" -> HPAWanted(s)
      [] c = "networking-service" -> ServiceWanted(s)
      [] c = "networking-ingress" -> IngressWanted(s)
      [] c = "security-role" -> RoleWanted(s)
      [] c = "security-rolebinding" -> RoleBindingWanted(s)

KChild(c, o, s) ==
    CASE ParentKind(c) = "Workload" -> CapabilityObject(WorkloadReconcilers[c], o, s)
      [] c = "compute-hpa" -> HPAChild(o)
      [] c = "networking-service" -> ServiceChild(o, s)
      [] c = "networking-ingress" -> IngressChild(o)
      [] c = "security-role" -> RoleChild(o)
      [] c = "security-rolebinding" -> RoleBindingChild(o)

Existing(b) == IF b = None THEN <<>> ELSE b

KRender(c, o, s, b) ==
    CASE ParentKind(c) = "Workload" -> Projection(WorkloadReconcilers[c], s)
      [] c = "compute-hpa" -> HPARender(s, Existing(b))
      [] c = "networking-service" -> ServiceRender(s, Existing(b))
      [] c = "networking-ingress" -> IngressRender(s, Existing(b))
      [] c = "security-role" -> RoleRender(s, Existing(b))
      [] c = "security-rolebinding" -> RoleBindingRender(o, s, Existing(b))

KMutateFails(c, o, s, b) == MutationRefused(KRender(c, o, s, b))

KAdmit(x, s) ==
    CASE x.kind = "Networking" -> NetworkingAdmit(s)
      [] x.kind = "HorizontalPodAutoscaler" -> HPAAdmit(s)
      [] x.kind = "Service" -> ServiceAdmit(s)
      [] OTHER -> s

KRefused(x, s) ==
    CASE x.kind = "Compute" -> ComputeRefused(s)
      [] x.kind = "HorizontalPodAutoscaler" -> HPARefused(s)
      [] OTHER -> FALSE

KImmutable(x, b, s) == x.kind = "RoleBinding" /\ RoleRefChanged(b, s)

----------------------------------------------------------------------------
(***************************************************************************)
(* What the proofs about controllers that work together use: that          *)
(* Reconciler's constants have the values above (a .cfg says so), that     *)
(* hatches, ports and routes are lists, that the Compute in a Workload has *)
(* the fields of one, and that no object has a field "error".              *)
(***************************************************************************)
Wiring ==
    \A c \in Controllers :
        /\ c \in DOMAIN WorkloadReconcilers \cup DOMAIN CapabilityReconcilers
        /\ For(c) = KFor(c)
        /\ \A o \in For(c) : \A s \in Specs(o) :
              /\ Skip(c, s) <=> KSkip(c, s)
              /\ ~Skip(c, s) =>
                    /\ Wanted(c, s) <=> KWanted(c, s)
                    /\ Child(c, o, s) = KChild(c, o, s)
                    /\ Wanted(c, s) =>
                          LET x == Child(c, o, s)
                          IN  \A b \in Specs(x) :
                                  Admit(x, Render(c, o, s, b)) = KAdmit(x, KRender(c, o, s, b))

ListsAssumption ==
    \A c \in Controllers \cap DOMAIN CapabilityReconcilers : \A o \in For(c) : \A s \in Specs(o) :
        /\ IsHatches(s.escapeHatches)
        /\ c = "networking-ingress" =>
              /\ s.service.ports \in Seq(Nat)
              /\ Len(Routes(s)) \in Nat
              /\ \A i \in 1..Len(Routes(s)) : Len(Routes(s)[i].hostnames) \in Nat

EmbeddedAssumption ==
    "workload-compute" \in Controllers =>
        \A w \in For("workload-compute") : \A s \in Specs(w) :
            {"targetRef", "autoscaling", "escapeHatches"} \subseteq DOMAIN s.Compute

ErrorAssumption == \A x \in Objects : \A s \in Specs(x) : "error" \notin DOMAIN s

ASSUME KalypsoAssumptions ==
    Wiring /\ ListsAssumption /\ EmbeddedAssumption /\ ErrorAssumption

----------------------------------------------------------------------------
(***************************************************************************)
(* Properties of controllers that work together.                           *)
(***************************************************************************)

\* Nothing is under way for o in any of these controllers.
AtRest(cs, o) == \A c \in cs : c \in Controllers /\ Quiescent(c, o)

\* Networking object n asks for a Service and for an Ingress with routes, and
\* no hatch sets what is in them.
Exposed(n) ==
    LET s == live[n].body.spec
    IN  /\ live[n].body # None
        /\ ~TargetMissing(s)
        /\ ServiceWanted(s) /\ "ports" \notin Hatched(s.escapeHatches, "Service")
        /\ Routes(s) # <<>> /\ "rules" \notin Hatched(s.escapeHatches, "Ingress")

\* It has both, and every backend of the Ingress is a port of the Service.
Resolves(n) ==
    LET s == live[n].body.spec
        svc == live[ServiceChild(n, s)].body
        ing == live[IngressChild(n)].body
    IN  /\ svc # None /\ ing # None
        /\ \A i \in DOMAIN ing.spec.rules : \A j \in DOMAIN ing.spec.rules[i].paths :
              LET p == ing.spec.rules[i].paths[j]
              IN  /\ Object("Service", n.ns, p.service) = ServiceChild(n, s)
                  /\ \E k \in DOMAIN svc.spec.ports : svc.spec.ports[k] = p.port

(***************************************************************************)
(* End to end: a Workload that asks for autoscaling ends up with an HPA    *)
(* that scales the Workload's target (not the one the embedded Compute     *)
(* spec names) within the Workload's limits, through two controllers and   *)
(* two watches that know nothing of each other.  Two things may keep it    *)
(* from that: one of the two controllers is blocked, as by limits that the *)
(* API server refuses, or the author of a hatch wants another HPA.         *)
(***************************************************************************)
EndToEnd ==
    <>[](\A w \in KFor("workload-compute") :
            LET s == live[w].body.spec
                r == ComputeReconciler
                x == CapabilityObject(r, w, s)
                h == live[HPAChild(x)].body
            IN  /\ Active("workload-compute", live[w].body)
                /\ WorkloadWanted(r, s) /\ HPAWanted(s.Compute)
                /\ ~Blocked("workload-compute", w)
                /\ ~(live[x].body # None /\ Blocked("compute-hpa", x))
                /\ Hatched(s.Compute.escapeHatches, "HorizontalPodAutoscaler") = {}
                => /\ h # None
                   /\ h.spec.scaleTargetRef = s.targetRef.resource
                   /\ h.spec.maxReplicas = s.Compute.autoscaling.maxReplicas)

(***************************************************************************)
(* The chain never comes to rest with anything else: once neither of its   *)
(* two controllers has anything under way, the HPA at its end is owned by  *)
(* the living Compute, which is owned by the living Workload, and has what *)
(* the Workload says now.                                                  *)
(***************************************************************************)
ChainAtRest ==
    \A w \in KFor("workload-compute") :
        LET p == live[w].body
            s == p.spec
            r == ComputeReconciler
            x == CapabilityObject(r, w, s)
            c == live[x].body
            h == live[HPAChild(x)].body
        IN  /\ AtRest({"workload-compute"}, w)
            /\ Active("workload-compute", p)
            /\ WorkloadWanted(r, s) /\ ~TargetMissing(s)
            /\ AtRest({"compute-hpa"}, x)
            /\ HPAWanted(s.Compute)
            /\ Hatched(s.Compute.escapeHatches, "HorizontalPodAutoscaler") = {}
            => /\ c # None /\ c.owner = Ref(w, p.uid)
               /\ h # None /\ h.owner = Ref(x, c.uid)
               /\ h.spec.scaleTargetRef = s.targetRef.resource
               /\ h.spec.maxReplicas = s.Compute.autoscaling.maxReplicas

(***************************************************************************)
(* The Ingress and the Service of one Networking object are written by two *)
(* controllers from copies read at different times; in the end every       *)
(* backend of the Ingress is a port of the Service.                        *)
(***************************************************************************)
BackendsResolve == <>[](\A n \in KFor("networking-ingress") : Exposed(n) => Resolves(n))

(***************************************************************************)
(* Nor is there a pair of them at rest of which that is not true.          *)
(***************************************************************************)
BackendsAtRest ==
    \A n \in KFor("networking-ingress") :
        AtRest({"networking-service", "networking-ingress"}, n) /\ Exposed(n) => Resolves(n)

(***************************************************************************)
(* In the end a RoleBinding that its Security object controls binds to a   *)
(* Role that exists, unless that Role cannot be made.  A Security object   *)
(* whose targetRef was removed is not reconciled any more: nobody then     *)
(* makes a Role that somebody deletes.                                     *)
(***************************************************************************)
BindingsResolve ==
    <>[](\A o \in KFor("security-role") :
            LET b == live[RoleBindingChild(o)].body
            IN  /\ Active("security-role", live[o].body)
                /\ ~Blocked("security-role", o)
                /\ OwnedBy(b, o)
                => live[Object("Role", o.ns, b.spec.roleRef)].body # None)

(***************************************************************************)
(* Role and RoleBinding at rest come in pairs, of one incarnation of the   *)
(* Security object: either the binding's roleRef is the Role with the      *)
(* present rules, or the Security object controls neither.                 *)
(***************************************************************************)
BindingsAtRest ==
    \A o \in KFor("security-role") :
        LET p == live[o].body
            b == live[RoleBindingChild(o)].body
        IN  AtRest({"security-role", "security-rolebinding"}, o) /\ Active("security-role", p) =>
              IF RoleWanted(p.spec)
              THEN Hatched(p.spec.escapeHatches, "RoleBinding") = {} =>
                     /\ b # None /\ b.owner = Ref(o, p.uid)
                     /\ LET r == live[Object("Role", o.ns, b.spec.roleRef)].body
                        IN  /\ r # None /\ r.owner = Ref(o, p.uid)
                            /\ "rules" \in Hatched(p.spec.escapeHatches, "Role")
                               \/ r.spec.rules = p.spec.rbac.rules
              ELSE ~OwnedBy(b, o) /\ ~OwnedBy(live[RoleChild(o)].body, o)
=============================================================================
