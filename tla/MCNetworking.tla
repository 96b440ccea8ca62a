------------------------------ MODULE MCNetworking ------------------------------
(***************************************************************************)
(* Instances of the Networking controllers: Networking objects a and b     *)
(* with the same target, the Service named after that target, and the      *)
(* Ingress of a.                                                           *)
(***************************************************************************)
EXTENDS Kalypso

NetA == Object("Networking", "ns1", <<"a">>)

NetB == Object("Networking", "ns1", <<"b">>)

TheService == Object("Service", "ns1", <<"app">>)

TheIngress == Object("Ingress", "ns1", <<"a", "ingress">>)

NetSpec(target, ports, hatches, routes) ==
    [targetRef |-> ResourceRef(target, "ns1"), escapeHatches |-> hatches,
     service |-> [ports |-> ports, type |-> "ClusterIP"],
     ingress |-> [publicRoutes |-> routes, privateRoutes |-> <<>>, tlsSecret |-> ""]]

Hatch(patchType, patch) == [kind |-> "Service", patchType |-> patchType, patch |-> patch]

SetAffinity == Hatch("JSONMergePatch", [set |-> [affinity |-> "ClientIP"], remove |-> {}])

RemoveAffinity == Hatch("JSONPatch", <<[op |-> "remove", path |-> "affinity"]>>)

Route == [hostnames |-> <<"h">>, paths |-> <<>>]

ServiceSpec(ports) == [selector |-> <<"app">>, ports |-> ports, type |-> "ClusterIP"]

StickyService(ports) == ServiceSpec(ports) @@ [affinity |-> "ClientIP"]

StoredServices ==
    UNION {{ServiceSpec(p), StickyService(p)} : p \in {<<80>>, <<8080>>, <<9090>>}}

StoredIngresses ==
    {[rules |-> <<[host |-> "h",
                   paths |-> <<[path |-> "/", service |-> <<"app">>, port |-> p]>>]>>] :
        p \in {80, 8080, 9090}}

----------------------------------------------------------------------------
\* Two Networking objects contend for one Service, which a user may have made.
ContendObjects == {NetA, NetB, TheService}

ContendSpecs ==
    {NetSpec(<<"app">>, <<>>, <<>>, <<>>),
     NetSpec(<<"app">>, <<8080>>, <<SetAffinity>>, <<>>),
     NetSpec(<<"app">>, <<9090>>, <<RemoveAffinity>>, <<>>)}

ContendUserSpecs(x) ==
    CASE x = NetA -> ContendSpecs
      [] x = NetB -> {NetSpec(<<"app">>, <<80>>, <<>>, <<>>)}
      [] x = TheService -> {ServiceSpec(<<8080>>)}

StoredSpecs(x) ==
    CASE x.kind = "Service" -> StoredServices
      [] x.kind = "Ingress" -> StoredIngresses
      [] OTHER -> UserSpecs(x)

----------------------------------------------------------------------------
\* One Networking object with a Service and an Ingress.
ExposeObjects == {NetA, TheService, TheIngress}

\* Its Service changes its port while its Ingress comes and goes.
ExposeUserSpecs(x) ==
    IF x = NetA THEN {NetSpec(<<"app">>, <<8080>>, <<>>, <<Route>>),
                      NetSpec(<<"app">>, <<9090>>, <<>>, <<>>)}
                ELSE {}

----------------------------------------------------------------------------
(***************************************************************************)
(* A Service has one controller: the Networking controller writes to no    *)
(* Service that another object controls, since SetControllerReference      *)
(* refuses to (service_controller.go:106).  Its delete branch is held to   *)
(* the same here: reconciling one Networking object never deletes the      *)
(* Service that another one controls.                                      *)
(***************************************************************************)
ForeignServiceKept ==
    [][\A c \in Controllers :
          LET x == Target(c)
          IN  /\ work[c].step = "delete"
              /\ work'[c] = Idle
              /\ live[x].body # None
              /\ live'[x].body = None
              => ~AlreadyOwned(c, live[x].body)]_vars

\* Users keep one Networking object that removes a field of the Service by an
\* escape hatch, on a Service that a user made with that field.
HatchObjects == {NetA, TheService}

HatchUserSpecs(x) ==
    IF x = NetA THEN {NetSpec(<<"app">>, <<80>>, <<RemoveAffinity>>, <<>>),
                      NetSpec(<<"app">>, <<8080>>, <<RemoveAffinity>>, <<>>)}
                ELSE {StickyService(<<80>>), StickyService(<<9090>>)}

(***************************************************************************)
(* Escape hatches are applied to the managed Service: when the controller  *)
(* is at rest with a Service it wrote, a field that a JSON patch removes   *)
(* is not in it.                                                           *)
(***************************************************************************)
HatchRemovesField ==
    LET b == live[TheService].body
    IN  Quiescent("networking-service", NetA) /\ OwnedBy(b, NetA) => "affinity" \notin DOMAIN b.spec

\* An Ingress that is asked for by its TLS secret alone, and a Service whose
\* port is not 80.
TlsOnlyUserSpecs(x) ==
    IF x = NetA THEN {[NetSpec(<<"app">>, <<8080>>, <<>>, <<>>) EXCEPT !.ingress.tlsSecret = "cert"]}
                ELSE {}

TlsOnlySpecs(x) ==
    IF x = TheIngress
    THEN {[rules |-> <<[host |-> "", paths |-> <<[path |-> "/", service |-> <<"app">>, port |-> p]>>]>>,
           tls |-> [secret |-> "cert", hosts |-> <<>>]] : p \in {80, 8080}}
    ELSE StoredSpecs(x)

(***************************************************************************)
(* An Ingress routes to the Service of its Networking object, also when it *)
(* has no routes of its own: at rest the Service has the backend's port.   *)
(***************************************************************************)
DefaultBackendResolves ==
    AtRest({"networking-service", "networking-ingress"}, NetA) /\ live[NetA].body # None
        => Resolves(NetA)
=============================================================================
