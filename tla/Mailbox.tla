------------------------------- MODULE Mailbox -------------------------------
(***************************************************************************)
(* What fetching messages from propagation nodes promises the application: *)
(* it is given each message at most once, and a node is told to forget a   *)
(* message only after the router accepted it for the application, or when  *)
(* it is one that the router cannot or must not deliver.                   *)
(***************************************************************************)
EXTENDS Naturals

CONSTANTS
  Node,           \* propagation nodes
  Msg,            \* messages addressed to us
  Undeliverable   \* those that cannot be read, or that stamp policy drops

VARIABLES
  stored,    \* the messages each node keeps for us
  accepted,  \* the messages the router has taken on
  copies     \* how often the application was given each message

vars == <<stored, accepted, copies>>

Init ==
  /\ stored = [n \in Node |-> Msg]
  /\ accepted = {}
  /\ copies = [m \in Msg |-> 0]

Accept(m) ==
  /\ m \notin Undeliverable \cup accepted
  /\ accepted' = accepted \cup {m}
  /\ UNCHANGED <<stored, copies>>

Deliver(m) ==
  /\ m \in accepted
  /\ copies[m] = 0
  /\ copies' = [copies EXCEPT ![m] = 1]
  /\ UNCHANGED <<stored, accepted>>

Forget(n, m) ==
  /\ m \in stored[n] \cap (Undeliverable \cup accepted)
  /\ stored' = [stored EXCEPT ![n] = @ \ {m}]
  /\ UNCHANGED <<accepted, copies>>

Next ==
  \/ \E m \in Msg : Accept(m) \/ Deliver(m)
  \/ \E n \in Node, m \in Msg : Forget(n, m)

Spec == Init /\ [][Next]_vars
==============================================================================
