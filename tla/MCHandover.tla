------------------------------- MODULE MCHandover -------------------------------
(***************************************************************************)
(* The instance of MCNetworking in which one Networking object has a       *)
(* Service and an Ingress, with leaders that take over from each other.    *)
(***************************************************************************)
EXTENDS MCNetworking, Handover
=============================================================================
