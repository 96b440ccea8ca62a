--------------------------- MODULE MCImplementation ---------------------------
(***************************************************************************)
(* The instance of MCNetworking in which two Networking objects contend    *)
(* for one Service, with the history that Implementation keeps.            *)
(***************************************************************************)
EXTENDS MCNetworking, Implementation
=============================================================================
