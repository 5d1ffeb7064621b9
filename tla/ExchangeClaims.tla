--------------------------- MODULE ExchangeClaims ---------------------------
(***************************************************************************)
(* What a comment of core/ticket.go says of tickets, and the code does not *)
(* do.                                                                     *)
(***************************************************************************)
EXTENDS Exchange

\* "inboundTicket is a ticket we generated and sent to a peer so they can skip
\* PoW on their next message to us." (ticket.go:29)  Send asks the ticket store
\* only when it knows a stamp cost (router.go:290): a peer that holds a ticket,
\* and heard no announce or an outdated one, sends no stamp at all and is refused
\* by the router that gave it the ticket.
HeldTicketIsUsed ==
  [][\A x \in refused' \ refused :
       x.knew.ticket # None /\ now < Unix(x.knew.ticket) => x.stamp # None]_vars
=============================================================================
