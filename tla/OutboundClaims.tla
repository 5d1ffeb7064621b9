--------------------------- MODULE OutboundClaims ---------------------------
(***************************************************************************)
(* What a comment in the code says of the outbound queue, stated exactly,  *)
(* and not true of it: a run refutes it, by nothing but the behaviour of   *)
(* the code as Outbound models it.                                         *)
(***************************************************************************)
EXTENDS Outbound

\* No other call of Send has this entry's message.
Alone(e) == \A f \in Entry \ {e} : MsgOf(f) # MsgOf(e)

\* RNS confirmed that the message arrived: by the receipt or the resource of a
\* direct message, or by the resource in which a node took a propagated one.
Confirmed(e) ==
  \/ MethodOf(e) = "direct" /\ "delivered" \in reported[MsgOf(e)]
  \/ MethodOf(e) = "propagated" /\ ~FitsPropagated(e) /\ "sent" \in reported[MsgOf(e)]

\* outbound.go:45: "ready returns entries that are due for a delivery attempt
\* and haven't exceeded the max attempts or been completed/failed".  A message
\* whose delivery was confirmed is completed.  But the confirmation of a direct
\* message is reported to the application only, and the entry attempted again.
\* And a resource's callback may mark the entry before sendPropagatedOverLink comes
\* to set State to sending (propagation.go:597), which takes the mark back.
ReadySkipsCompleted ==
  [][Tick => \A e \in batch' : Alone(e) => ~Confirmed(e)]_vars
=============================================================================
