-------------------------- MODULE MCPropagationSync --------------------------
(***************************************************************************)
(* Small instances of PropagationSync for TLC.  Links to the node that the *)
(* outbound side opens are named by o1, o2, ...                            *)
(***************************************************************************)
EXTENDS PropagationSyncClaims, TLC
==============================================================================
