----------------------------- MODULE MCOutbound -----------------------------
(***************************************************************************)
(* Small instances of Outbound for TLC.  Each configuration picks one of   *)
(* the sets of calls below: what the application asks of Send.             *)
(***************************************************************************)
EXTENDS OutboundClaims

CONSTANTS m1, m2, d1, n1

OneDest  == [m \in Msg |-> d1]

Ask(m, by, s) == [msg |-> m, method |-> by, size |-> s]

\* Direct and opportunistic messages to one recipient, which share a link:
\* sent as a packet, and as a resource by a message too large for one packet.
\* And one message twice, by either of the two methods.
SharedLinkCalls ==
  {<<Ask(m1, "direct", "small"), Ask(m2, "opportunistic", "small")>>,
   <<Ask(m1, "opportunistic", "large"), Ask(m2, "opportunistic", "small")>>,
   <<Ask(m1, "opportunistic", "small"), Ask(m1, "direct", "small")>>}

\* One message, by any method, as a packet or as a resource.
SingleCalls ==
  {<<Ask(m1, "propagated", "small")>>,
   <<Ask(m1, "direct", "large")>>, <<Ask(m1, "opportunistic", "small")>>}

\* One message to a propagation node and to its recipient, in either order.
MixedCalls ==
  {<<Ask(m1, "propagated", "medium"), Ask(m1, "opportunistic", "small")>>,
   <<Ask(m1, "opportunistic", "small"), Ask(m1, "propagated", "small")>>}

\* A message whose delivery is confirmed, by a receipt or by a resource.
ConfirmedCalls ==
  {<<Ask(m1, "direct", "small")>>, <<Ask(m1, "propagated", "medium")>>}
=============================================================================
