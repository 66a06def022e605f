------------------------------ MODULE MCEvents ------------------------------
(***************************************************************************)
(* The instances of MCPod, with the events of its requests.                *)
(***************************************************************************)
EXTENDS MCPod, Events
=============================================================================
