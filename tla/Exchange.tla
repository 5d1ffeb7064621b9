------------------------------ MODULE Exchange ------------------------------
(***************************************************************************)
(* Routers that exchange messages and make spam expensive: each announces  *)
(* the proof of work (stamp) it asks for, caches what others announce,     *)
(* stamps what it sends, and hands out tickets that replace the work for a *)
(* while.  A receiver drops duplicates, remembers tickets, and judges the  *)
(* stamp.  The network loses, repeats, delays and reorders.                *)
(*                                                                         *)
(* Source: core/ticket.go, Sign, Pack, Unpack of core/message.go,          *)
(* ValidateStamp of core/stamper.go, and in device/node/router.go Start,   *)
(* Send up to the queue, dispatchMessage and the cleanup of the loop.      *)
(*                                                                         *)
(* A ticket is named by the instant it expires: an issuer never has two    *)
(* for one peer that expire together (RenewalsApart).  All routers read    *)
(* the same clock, in ticks.                                               *)
(***************************************************************************)
EXTENDS Integers

CONSTANTS
  Router,             \* started routers, and their delivery destinations
  Announcing,         \* those whose announces are heard
  Msg,                \* LXMessages that applications make
  Source,             \* the router whose application makes a message
  Destination,        \* the router it is for
  AppCost,            \* StampCost as the application sets it, 0 for unset
  AppFields,          \* how many fields the application sets
  StampCost,          \* RouterConfig.StampCost
  EnforceStamps,      \* the routers with RouterConfig.EnforceStamps
  IncludeTickets,     \* the routers with RouterConfig.IncludeTickets
  TicketExpiry, TicketGrace, TicketRenew, TicketInterval,
  StampCostExpiry,
  Second,             \* clock ticks in a second
  MaxWorth,           \* bound on the value of mined stamps
  MaxTime,            \* bound on the clock
  MaxSends,           \* bound on the calls of Send for each message
  None                \* nil, or absent from a map

Time   == 0..MaxTime
Ticket == 0..(MaxTime + TicketExpiry)

\* LXMessage.Hash: of the addresses and of the payload without the stamp, so
\* of the fields, the ticket among them, in the order they were encoded in.
Id == [msg : Msg, ticket : Ticket \cup {None}, order : {1, 2}]

\* LXMessage.Stamp: the hash it was made for, and the ticket or the work.
Stamp == [over : Id, ticket : Ticket \cup {None}, worth : 0..MaxWorth]

ASSUME ExchangeAssumption ==
  /\ {TicketExpiry, TicketGrace, TicketRenew, TicketInterval, StampCostExpiry,
      MaxWorth, MaxTime} \subseteq Nat
  /\ Second \in Nat \ {0}
  /\ TicketRenew < TicketExpiry
  /\ Announcing \subseteq Router
  /\ Source \in [Msg -> Router] /\ Destination \in [Msg -> Router]
  /\ StampCost \in [Router -> 0..MaxWorth] /\ AppCost \in [Msg -> 0..MaxWorth]
  /\ AppFields \in [Msg -> Nat] /\ MaxSends \in [Msg -> Nat]
  /\ EnforceStamps \subseteq Router /\ IncludeTickets \subseteq Router
  /\ None \notin Nat \cup Stamp

\* LXMessage, as far as Send changes it.
LXMessage == [stampCost : 0..MaxWorth, outboundTicket : Ticket \cup {None},
              ticket : Ticket \cup {None}, stamp : Stamp \cup {None}]

\* What Send may know of the destination: the cost it asks for, and a ticket.
Knowledge == [cost : 0..MaxWorth, ticket : Ticket \cup {None}]

\* A message on the wire.  id is the Hash that Unpack computes from it; what its
\* sender knew is a history, and not sent.
Packed == [id : Id, stamp : Stamp \cup {None}, knew : Knowledge]

VARIABLES
  now,             \* time.Now()
  inbound,         \* TicketStore.inbound of a router, by peer
  outbound,        \* TicketStore.outbound of a router, by peer
  lastDeliveries,  \* TicketStore.lastDeliveries of a router, by peer
  stampCosts,      \* when a router last heard a peer's announce (stampCosts)
  lxm,             \* the LXMessages
  sending,         \* where the call of Send for a message stands
  sends,           \* how many calls of Send were made for a message
  knew,            \* history: what the caches told the last Send of a message
  wire,            \* what the network may deliver, any time and any often
  deliveredIDs,    \* LXMRouter.deliveredIDs of all routers; their expiry is Inbound's
  given,           \* history: messages given to the application
  refused          \* history: messages dropped for their stamp

ticketVars == <<inbound, outbound, lastDeliveries>>
sendVars   == <<lxm, sending, sends, knew, wire>>
judgeVars  == <<deliveredIDs, given, refused>>
vars == <<now, ticketVars, stampCosts, sendVars, judgeVars>>

StoreTypeOK ==
  /\ now \in Time
  /\ inbound \in [Router -> [Router -> SUBSET Ticket]]
  /\ outbound \in [Router -> [Router -> Ticket \cup {None}]]
  /\ lastDeliveries \in [Router -> [Router -> Time \cup {None}]]
  /\ stampCosts \in [Router -> [Router -> Time \cup {None}]]

SendTypeOK ==
  /\ lxm \in [Msg -> LXMessage]
  /\ sending \in [Msg -> {"idle", "recording", "signing"}]
  /\ sends \in [Msg -> Nat] /\ \A m \in Msg : sends[m] <= MaxSends[m]
  /\ knew \in [Msg -> Knowledge]
  /\ wire \subseteq Packed

JudgeTypeOK ==
  /\ deliveredIDs \subseteq Id
  /\ given \subseteq wire
  /\ refused \subseteq wire

TypeOK == StoreTypeOK /\ SendTypeOK /\ JudgeTypeOK

-----------------------------------------------------------------------------
\* A message goes from its source to its destination; From and To of what is
\* on the wire are the hashes in its header.
From(x) == Source[x.id.msg]
To(x)   == Destination[x.id.msg]

\* Variant: the expiry on the wire is rounded up.
UnixUp(t) == t + (Second - (t % Second))

\* float64(expires.Unix()), and time.Unix of it at the other side.
Unix(t) == t - (t % Second)

\* What decodeAnnounceAppData makes of what encodeAnnounceAppData made: a cost
\* of 0 is sent as nil, and nil is 0.
AnnouncedCost(r) == IF StampCost[r] > 0 THEN StampCost[r] ELSE 0

GetStampCost(r, p) ==
  IF stampCosts[r][p] = None \/ now > stampCosts[r][p] + StampCostExpiry
  THEN 0 ELSE AnnouncedCost(p)

GetOutboundTicket(r, p) ==
  IF outbound[r][p] # None /\ Unix(outbound[r][p]) >= now
  THEN outbound[r][p] ELSE None

GetInboundTickets(r, p) == {t \in inbound[r][p] : now < t}

\* The tickets GenerateTicket uses again: those with enough validity left.
Reusable(r, p) == {t \in inbound[r][p] : t > now + TicketRenew}

DeliveredRecently(r, p) ==
  lastDeliveries[r][p] # None /\ now < lastDeliveries[r][p] + TicketInterval

\* Variant: always a new ticket.
FreshTicket(r, p, t) ==
  /\ t = now + TicketExpiry
  /\ inbound' = [inbound EXCEPT ![r][p] = @ \cup {t}]

\* GenerateTicket gives t: the first reusable ticket, or a new one.
GenerateTicket(r, p, t) ==
  \/ /\ t \in Reusable(r, p)
     /\ \A u \in Reusable(r, p) : t <= u
     /\ UNCHANGED inbound
  \/ /\ Reusable(r, p) = {}
     /\ t = now + TicketExpiry
     /\ inbound' = [inbound EXCEPT ![r][p] = @ \cup {t}]

\* The orders in which msgpack may encode the fields of a message: a Go map
\* of two or more is walked in an order of its own each time.
Orders(m, t) ==
  IF AppFields[m] + (IF t = None THEN 0 ELSE 1) >= 2 THEN {1, 2} ELSE {1}

\* The stamps that Sign may put on a message with hash h: none, or the one it
\* has, or one made from the ticket, or mined.
StampsFor(l, h) ==
  IF l.stampCost = 0 \/ l.stamp # None THEN {l.stamp}
  ELSE IF l.outboundTicket # None
  THEN {[over |-> h, ticket |-> l.outboundTicket, worth |-> 0]}
  ELSE {[over |-> h, ticket |-> None, worth |-> w] : w \in l.stampCost..MaxWorth}

\* Variant: the work is looked at only when there is no ticket to compare.
ValidateOneWay(r, p, x) ==
  /\ x.stamp # None /\ x.stamp.over = x.id
  /\ IF GetInboundTickets(r, p) # {} THEN x.stamp.ticket \in GetInboundTickets(r, p)
     ELSE x.stamp.ticket = None /\ x.stamp.worth >= StampCost[r]

\* Variant: only a stamp that is there is looked at.
ValidateIfStamped(r, p, x) ==
  x.stamp # None =>
    /\ x.stamp.over = x.id
    /\ \/ x.stamp.ticket \in GetInboundTickets(r, p)
       \/ x.stamp.ticket = None /\ x.stamp.worth >= StampCost[r]

\* ValidateStamp at r of what p sent, with r's own cost and tickets.
ValidateStamp(r, p, x) ==
  /\ x.stamp # None
  /\ x.stamp.over = x.id
  /\ \/ x.stamp.ticket \in GetInboundTickets(r, p)
     \/ x.stamp.ticket = None /\ x.stamp.worth >= StampCost[r]

-----------------------------------------------------------------------------
Init ==
  /\ now = 0
  /\ inbound = [r \in Router |-> [p \in Router |-> {}]]
  /\ outbound = [r \in Router |-> [p \in Router |-> None]]
  /\ lastDeliveries = [r \in Router |-> [p \in Router |-> None]]
  /\ stampCosts = [r \in Router |-> [p \in Router |-> None]]
  /\ lxm = [m \in Msg |-> [stampCost |-> AppCost[m], outboundTicket |-> None,
                           ticket |-> None, stamp |-> None]]
  /\ sending = [m \in Msg |-> "idle"]
  /\ sends = [m \in Msg |-> 0]
  /\ knew = [m \in Msg |-> [cost |-> 0, ticket |-> None]]
  /\ wire = {}
  /\ deliveredIDs = {}
  /\ given = {}
  /\ refused = {}

TimePasses ==
  /\ now < MaxTime
  /\ now' = now + 1
  /\ UNCHANGED <<ticketVars, stampCosts, sendVars, judgeVars>>

\* An announce of r, or a path response with the same data, reaches p.  Those
\* that come while the last one is fresh are left out: they only do early what
\* this one does when it is due.
ReceivedAnnounce(p, r) ==
  /\ r \in Announcing
  /\ GetStampCost(p, r) = 0
  /\ stampCosts' = [stampCosts EXCEPT ![p][r] = now]
  /\ UNCHANGED <<now, ticketVars, sendVars, judgeVars>>

-----------------------------------------------------------------------------
(* Send, in three steps: between them other calls of Send for the same     *)
(* peer may run, and mining a stamp takes its time.                        *)

\* What Send makes of the stamp cost and the outbound ticket of a message.  The
\* ticket store is not asked while no cost is known.
Priced(m) ==
  LET r == Source[m]
      p == Destination[m]
      cost == IF lxm[m].stampCost = 0 THEN GetStampCost(r, p) ELSE lxm[m].stampCost
  IN  [lxm[m] EXCEPT !.stampCost = cost,
                     !.outboundTicket = IF cost > 0 THEN GetOutboundTicket(r, p) ELSE @]

\* Send up to and with GenerateTicket.
Send(m) ==
  LET r == Source[m]
      p == Destination[m]
  IN  /\ sending[m] = "idle" /\ sends[m] < MaxSends[m]
      /\ sends' = [sends EXCEPT ![m] = @ + 1]
      /\ knew' = [knew EXCEPT ![m] =
                     [cost |-> GetStampCost(r, p), ticket |-> GetOutboundTicket(r, p)]]
      /\ IF r \in IncludeTickets /\ StampCost[r] > 0 /\ ~DeliveredRecently(r, p)
         THEN \E t \in Ticket :
                /\ GenerateTicket(r, p, t)
                /\ lxm' = [lxm EXCEPT ![m] = [Priced(m) EXCEPT !.ticket = t]]
                /\ sending' = [sending EXCEPT ![m] = "recording"]
         ELSE /\ lxm' = [lxm EXCEPT ![m] = Priced(m)]
              /\ sending' = [sending EXCEPT ![m] = "signing"]
              /\ UNCHANGED inbound
  /\ UNCHANGED <<now, outbound, lastDeliveries, stampCosts, wire, judgeVars>>

RecordTicketDelivery(m) ==
  /\ sending[m] = "recording"
  /\ lastDeliveries' = [lastDeliveries EXCEPT ![Source[m]][Destination[m]] = now]
  /\ sending' = [sending EXCEPT ![m] = "signing"]
  /\ UNCHANGED <<now, inbound, outbound, stampCosts, lxm, sends, knew, wire,
                 judgeVars>>

\* A payload that does not encode: Send fails before there is a stamp.
SignFails(m) ==
  /\ sending[m] = "signing"
  /\ sending' = [sending EXCEPT ![m] = "idle"]
  /\ UNCHANGED <<now, ticketVars, stampCosts, lxm, sends, knew, wire, judgeVars>>

\* Sign hashes and stamps the payload, Pack encodes it once more for the wire.
\* A Send that fails after that is one whose message the network loses.
SignAndPack(m) ==
  /\ sending[m] = "signing"
  /\ sending' = [sending EXCEPT ![m] = "idle"]
  /\ \E signed, packed \in Orders(m, lxm[m].ticket) :
       LET hash(o) == [msg |-> m, ticket |-> lxm[m].ticket, order |-> o]
       IN  \E s \in StampsFor(lxm[m], hash(signed)) :
             /\ lxm' = [lxm EXCEPT ![m].stamp = s]
             /\ wire' = wire \cup {[id |-> hash(packed), stamp |-> s, knew |-> knew[m]]}
  /\ UNCHANGED <<now, ticketVars, stampCosts, sends, knew, judgeVars>>

-----------------------------------------------------------------------------
(* Receiving.                                                              *)

RememberTicket(r, p, t) ==
  outbound' = IF t = None \/ Unix(t) < now THEN outbound
              ELSE [outbound EXCEPT ![r][p] = t]

\* dispatchMessage: the duplicate check, the ticket, the stamp, and the event.
\* Concurrent calls for one hash are told apart by the first step (Inbound).
DispatchMessage(x) ==
  LET r == To(x)
      valid == StampCost[r] > 0 => ValidateStamp(r, From(x), x)
      drop  == r \in EnforceStamps /\ ~valid
  IN  /\ x.id \notin deliveredIDs
      /\ deliveredIDs' = deliveredIDs \cup {x.id}
      /\ RememberTicket(r, From(x), x.id.ticket)
      /\ refused' = IF drop THEN refused \cup {x} ELSE refused
      /\ given' = IF drop THEN given ELSE given \cup {x}
      /\ UNCHANGED <<now, inbound, lastDeliveries, stampCosts, sendVars>>

-----------------------------------------------------------------------------
(* TicketStore.Clean, by the cleanup ticker.                               *)

Forgotten(t) == Unix(t) < now

\* Variant: no grace, and a margin instead.
KeepUntilRenewal(t) == now + TicketRenew < t

KeepInbound(t) == now < t + TicketGrace

Clean(r) ==
  /\ outbound' = [outbound EXCEPT ![r] = [p \in Router |->
       IF @[p] # None /\ Forgotten(@[p]) THEN None ELSE @[p]]]
  /\ inbound' = [inbound EXCEPT ![r] = [p \in Router |-> {t \in @[p] : KeepInbound(t)}]]
  /\ UNCHANGED <<now, lastDeliveries, stampCosts, sendVars, judgeVars>>

Next ==
  \/ TimePasses
  \/ \E r \in Router : Clean(r)
  \/ \E r, p \in Router : ReceivedAnnounce(p, r)
  \/ \E m \in Msg : Send(m) \/ RecordTicketDelivery(m) \/ SignFails(m) \/ SignAndPack(m)
  \/ \E x \in wire : DispatchMessage(x)

Spec == Init /\ [][Next]_vars

-----------------------------------------------------------------------------
(* Properties.                                                             *)

\* The tickets of r for p that exist anywhere: in the router's own messages to
\* p, on the wire, in p's store, and in p's messages to r and their stamps.
Circulating(r, p) ==
  {outbound[p][r]}
  \cup {lxm[m].ticket : m \in {n \in Msg : Source[n] = r /\ Destination[n] = p}}
  \cup {lxm[m].outboundTicket : m \in {n \in Msg : Source[n] = p /\ Destination[n] = r}}
  \cup {lxm[m].stamp.ticket : m \in {n \in Msg : /\ Source[n] = p /\ Destination[n] = r
                                                /\ lxm[n].stamp # None}}
  \cup {x.id.ticket : x \in {y \in wire : From(y) = r /\ To(y) = p}}
  \cup {x.stamp.ticket : x \in {y \in wire : /\ From(y) = p /\ To(y) = r
                                            /\ y.stamp # None}}

\* Tickets outlive what is out of them.
TicketsKept ==
  \A r, p \in Router : \A t \in Circulating(r, p) \ {None} :
    now < t + TicketGrace => t \in inbound[r][p]

\* No message pays less than its own cost, and that is what its application
\* set, or what the destination announced; it pays nothing only if its sender had
\* no announce of the destination that still counts.
Asked(m) == IF AppCost[m] = 0 THEN StampCost[Destination[m]] ELSE AppCost[m]

FairlyPriced ==
  /\ \A m \in Msg :
       /\ lxm[m].stampCost \in {AppCost[m], Asked(m)}
       /\ lxm[m].stampCost = 0 => knew[m].cost = 0
       /\ lxm[m].stamp # None /\ lxm[m].stamp.ticket = None
            => lxm[m].stamp.worth >= Asked(m)
  /\ \A x \in wire :
       IF x.stamp = None THEN AppCost[x.id.msg] = 0 /\ x.knew.cost = 0
       ELSE x.stamp.ticket = None => x.stamp.worth >= Asked(x.id.msg)

\* What p could use in place of work for r: in its store, and in its messages
\* to r and their stamps.
Usable(p, r) ==
  {outbound[p][r]}
  \cup {lxm[m].outboundTicket : m \in {n \in Msg : Source[n] = p /\ Destination[n] = r}}
  \cup {lxm[m].stamp.ticket : m \in {n \in Msg : /\ Source[n] = p /\ Destination[n] = r
                                                /\ lxm[n].stamp # None}}
  \cup {x.stamp.ticket : x \in {y \in wire : /\ From(y) = p /\ To(y) = r
                                            /\ y.stamp # None}}

\* p received a message in which r gave it ticket t.
WasGiven(p, r, t) ==
  \E y \in wire : From(y) = r /\ To(y) = p /\ y.id.ticket = t /\ y.id \in deliveredIDs

TicketsWereGiven ==
  \A p, r \in Router : \A t \in Usable(p, r) \ {None} : WasGiven(p, r, t)

\* ticket.go:29: a ticket lets a peer "skip PoW on their next message to us".
\* Until the expiry that the peer was told, the issuer accepts a ticket that is
\* out anywhere: in a message still on its way, overwritten by an older one that
\* arrived later, or renewed meanwhile, and whatever was cleaned.
TicketsHonoured ==
  \A r, p \in Router : \A t \in Circulating(r, p) \ {None} :
    now < Unix(t) => t \in GetInboundTickets(r, p)

\* An issuer makes a new ticket for a peer only in the last TicketRenew of the
\* one before, though calls of Send overlap, so that it keeps few, and the one
\* it gives is the only one it could give.
RenewalsApart ==
  \A r, p \in Router : \A t, u \in inbound[r][p] :
    t < u => u >= t + (TicketExpiry - TicketRenew)

\* Where stamps are enforced nothing reaches the application for free: its sender
\* worked for this very message as much as the router asks, or used a ticket that
\* this router gave to that sender in a message which the sender received.
PaidFor ==
  \A x \in given :
    To(x) \in EnforceStamps /\ StampCost[To(x)] > 0 =>
      /\ x.stamp # None /\ x.stamp.over = x.id
      /\ \/ x.stamp.ticket = None /\ x.stamp.worth >= StampCost[To(x)]
         \/ x.stamp.ticket # None /\ WasGiven(From(x), To(x), x.stamp.ticket)

\* What makes the properties of tickets and stamps inductive.
ExchangeInv ==
  /\ TypeOK
  /\ TicketsKept /\ TicketsWereGiven /\ RenewalsApart
  /\ FairlyPriced /\ PaidFor

\* Why a receiver drops a message for its stamp: no cost was set, and the sender
\* had none from an announce either (then it does not look for a ticket:
\* ExchangeClaims); or its application knew better; or its ticket expired on the
\* way; or the stamp is for another encoding of the fields than the one sent.
Excused(x) ==
  \/ x.stamp = None /\ AppCost[x.id.msg] = 0 /\ x.knew.cost = 0
  \/ AppCost[x.id.msg] \in 1..(StampCost[To(x)] - 1)
  \/ x.stamp.ticket # None /\ now >= Unix(x.stamp.ticket)
  \/ x.stamp.over # x.id

\* A sender that had an announce of the cost when Send was called is not refused
\* without one of the other excuses, however the costs and tickets it relied on
\* expired or were replaced until its message arrived.
RefusedHasReason == [][\A x \in refused' \ refused : Excused(x)]_vars
=============================================================================
