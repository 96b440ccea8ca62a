------------------------------- MODULE Networking -------------------------------
(***************************************************************************)
(* The Networking capability (api/v1alpha1/networking_types.go) and its    *)
(* Service and Ingress controllers (internal/controller/networking).       *)
(***************************************************************************)
EXTENDS Resources, PatchEngine

\* The CRD's default of service.type.
NetworkingAdmit(s) == IF s.service.type = "" THEN [s EXCEPT !.service.type = "ClusterIP"] ELSE s

----------------------------------------------------------------------------
ServiceReconciler == [for |-> "Networking", owns |-> "Service"]

\* The Service is named after the target, not after the Networking object.
ServiceChild(o, s) == Object("Service", o.ns, s.targetRef.resource)

ServiceWanted(s) == s.service.ports # <<>>

ServiceRender(s, b) ==
    ApplyEscapeHatches(
        Over([selector |-> s.targetRef.resource, ports |-> s.service.ports],
             Over(IF s.service.type # "" THEN [type |-> s.service.type] ELSE <<>>,
                  Kept(b, {"selector", "ports", "type"}))),
        s.escapeHatches, "Service")

\* core/v1 defaulting.
ServiceAdmit(s) == Over(s, [type |-> "ClusterIP"])

----------------------------------------------------------------------------
IngressReconciler == [for |-> "Networking", owns |-> "Ingress"]

IngressChild(o) == Derived(o, "Ingress", "ingress")

IngressWanted(s) ==
    \/ s.ingress.publicRoutes # <<>>
    \/ s.ingress.privateRoutes # <<>>
    \/ s.ingress.tlsSecret # ""

\* Mutant of IngressPort: the Service's ports are not looked at.
IngressPort80(s) == 80

IngressPort(s) == IF s.service.ports # <<>> THEN s.service.ports[1] ELSE 80

Backend(s, path, port) == [path |-> path, service |-> s.targetRef.resource, port |-> port]

\* A route without paths serves "/", one without hostnames every host; each
\* hostname gets a rule with all the route's paths.
RouteRules(s, route) ==
    LET paths == IF route.paths = <<>> THEN <<"/">> ELSE route.paths
        hosts == IF route.hostnames = <<>> THEN <<"">> ELSE route.hostnames
    IN  [i \in 1..Len(hosts) |->
            [host |-> hosts[i],
             paths |-> [j \in 1..Len(paths) |-> Backend(s, paths[j], IngressPort(s))]]]

Routes(s) == s.ingress.publicRoutes \o s.ingress.privateRoutes

\* Public routes, then private ones; without any, one rule on port 80.
IngressRules(s) ==
    LET routes == Routes(s)
        rules[i \in 0..Len(routes)] ==
            IF i = 0 THEN <<>> ELSE rules[i - 1] \o RouteRules(s, routes[i])
    IN  IF routes = <<>>
        THEN <<[host |-> "", paths |-> <<Backend(s, "/", 80)>>]>>
        ELSE rules[Len(routes)]

IngressTLS(s) ==
    LET named == SelectSeq(IngressRules(s), LAMBDA r : r.host # "")
    IN  [secret |-> s.ingress.tlsSecret, hosts |-> [i \in 1..Len(named) |-> named[i].host]]

IngressRender(s, b) ==
    ApplyEscapeHatches(
        Over([rules |-> IngressRules(s)],
             Over(IF s.ingress.tlsSecret # "" THEN [tls |-> IngressTLS(s)] ELSE <<>>,
                  Kept(b, {"rules", "tls"}))),
        s.escapeHatches, "Ingress")
=============================================================================
