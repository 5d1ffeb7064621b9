--------------------------- MODULE ExchangeProofs ---------------------------
(***************************************************************************)
(* Theorems about Exchange, for any routers, messages, costs, intervals    *)
(* and number of calls of Send.                                            *)
(*                                                                         *)
(* The parts of ExchangeInv are proved one after the other: types,         *)
(* renewals, prices, tickets of the issuer, tickets of the peer, and what  *)
(* was given to the application.                                           *)
(***************************************************************************)
EXTENDS Exchange, TLAPS

\* Dropping the fraction of a second brings an expiry forward, never back.
LEMMA UnixBelow == \A t \in Nat : Unix(t) \in Int /\ Unix(t) <= t
BY ExchangeAssumption DEF ExchangeAssumption, Unix

LEMMA TicketsAreNumbers == Ticket \subseteq Nat /\ Time \subseteq Nat /\ None \notin Ticket \cup Time
BY ExchangeAssumption DEF ExchangeAssumption, Ticket, Time

LEMMA Ends == \A m \in Msg : /\ Source[m] \in Router /\ Destination[m] \in Router
BY ExchangeAssumption DEF ExchangeAssumption

-----------------------------------------------------------------------------
(* Types.                                                                  *)

\* The cost that an announce tells is one of the configured ones, or none.
LEMMA CostType ==
  ASSUME NEW r \in Router, NEW p \in Router
  PROVE  GetStampCost(r, p) \in 0..MaxWorth /\ GetStampCost(r, p) \in {0, StampCost[p]}
BY ExchangeAssumption DEF ExchangeAssumption, GetStampCost, AnnouncedCost

\* A ticket that GenerateTicket gives is in the store, and the store grows.
LEMMA GenerateTicketGives ==
  ASSUME StoreTypeOK, NEW r \in Router, NEW p \in Router, NEW t \in Ticket,
         GenerateTicket(r, p, t)
  PROVE  /\ inbound' \in [Router -> [Router -> SUBSET Ticket]]
         /\ t \in inbound'[r][p]
         /\ \A q, o \in Router : inbound[q][o] \subseteq inbound'[q][o]
<1>1. CASE UNCHANGED inbound /\ t \in inbound[r][p]
  BY <1>1 DEF StoreTypeOK
<1>2. CASE inbound' = [inbound EXCEPT ![r][p] = @ \cup {t}]
  <2>1. /\ inbound'[r][p] = inbound[r][p] \cup {t}
        /\ \A o \in Router \ {p} : inbound'[r][o] = inbound[r][o]
        /\ \A q \in Router \ {r} : inbound'[q] = inbound[q]
    BY <1>2 DEF StoreTypeOK
  <2>2. inbound[r][p] \cup {t} \in SUBSET Ticket
    BY DEF StoreTypeOK
  <2>3. inbound' \in [Router -> [Router -> SUBSET Ticket]]
    BY <1>2, <2>2 DEF StoreTypeOK
  <2> QED
    BY <2>1, <2>3
<1> QED
  BY <1>1, <1>2 DEF GenerateTicket, Reusable

\* What Send makes of a message is one.
LEMMA PricedType ==
  ASSUME StoreTypeOK, SendTypeOK, NEW m \in Msg
  PROVE  /\ Priced(m) \in LXMessage
         /\ Priced(m).ticket = lxm[m].ticket /\ Priced(m).stamp = lxm[m].stamp
         /\ Priced(m).stampCost = IF lxm[m].stampCost = 0
                                  THEN GetStampCost(Source[m], Destination[m])
                                  ELSE lxm[m].stampCost
         /\ \/ Priced(m).outboundTicket = lxm[m].outboundTicket
            \/ Priced(m).outboundTicket \in {None, outbound[Source[m]][Destination[m]]}
<1>1. lxm[m] \in LXMessage
  BY DEF SendTypeOK
<1>2. GetStampCost(Source[m], Destination[m]) \in 0..MaxWorth
  BY Ends, CostType
<1>3. GetOutboundTicket(Source[m], Destination[m])
        \in {None, outbound[Source[m]][Destination[m]]}
  BY DEF GetOutboundTicket
<1>4. GetOutboundTicket(Source[m], Destination[m]) \in Ticket \cup {None}
  BY <1>3, Ends DEF StoreTypeOK
<1> QED
  BY <1>1, <1>2, <1>3, <1>4 DEF Priced, LXMessage

LEMMA StampsForType ==
  ASSUME NEW l \in LXMessage, NEW h \in Id
  PROVE  StampsFor(l, h) \subseteq Stamp \cup {None}
<1> SUFFICES ASSUME NEW s \in StampsFor(l, h) PROVE s \in Stamp \cup {None}
  OBVIOUS
<1> USE ExchangeAssumption DEF ExchangeAssumption, LXMessage
<1>1. CASE l.stampCost = 0 \/ l.stamp # None
  BY <1>1 DEF StampsFor
<1>2. CASE ~(l.stampCost = 0 \/ l.stamp # None) /\ l.outboundTicket # None
  BY <1>2 DEF StampsFor, Stamp
<1>3. CASE ~(l.stampCost = 0 \/ l.stamp # None) /\ l.outboundTicket = None
  BY <1>3 DEF StampsFor, Stamp
<1> QED
  BY <1>1, <1>2, <1>3

\* What Send notes of what it knew.
LEMMA KnowledgeType ==
  ASSUME StoreTypeOK, NEW m \in Msg
  PROVE  [cost |-> GetStampCost(Source[m], Destination[m]),
          ticket |-> GetOutboundTicket(Source[m], Destination[m])] \in Knowledge
<1>1. GetStampCost(Source[m], Destination[m]) \in 0..MaxWorth
  BY Ends, CostType
<1>2. GetOutboundTicket(Source[m], Destination[m]) \in Ticket \cup {None}
  BY Ends DEF GetOutboundTicket, StoreTypeOK
<1> QED
  BY <1>1, <1>2 DEF Knowledge

\* What SignAndPack does, without its choices.
LEMMA Signed ==
  ASSUME SendTypeOK, NEW m \in Msg, SignAndPack(m)
  PROVE  \E h, g \in Id : \E s \in StampsFor(lxm[m], h) :
           /\ h.msg = m /\ g.msg = m /\ g.ticket = lxm[m].ticket
           /\ s \in Stamp \cup {None}
           /\ lxm' = [lxm EXCEPT ![m] = [lxm[m] EXCEPT !.stamp = s]]
           /\ wire' = wire \cup {[id |-> g, stamp |-> s, knew |-> knew[m]]}
<1>1. PICK signed, packed \in Orders(m, lxm[m].ticket) :
        \E s \in StampsFor(lxm[m], [msg |-> m, ticket |-> lxm[m].ticket, order |-> signed]) :
          /\ lxm' = [lxm EXCEPT ![m].stamp = s]
          /\ wire' = wire \cup {[id |-> [msg |-> m, ticket |-> lxm[m].ticket,
                                          order |-> packed],
                                  stamp |-> s, knew |-> knew[m]]}
  BY DEF SignAndPack
<1> DEFINE h == [msg |-> m, ticket |-> lxm[m].ticket, order |-> signed]
           g == [msg |-> m, ticket |-> lxm[m].ticket, order |-> packed]
<1>2. lxm[m] \in LXMessage
  BY DEF SendTypeOK
<1>3. h \in Id /\ g \in Id
  BY <1>2 DEF Id, LXMessage, Orders
<1>4. PICK s \in StampsFor(lxm[m], h) :
        /\ lxm' = [lxm EXCEPT ![m].stamp = s]
        /\ wire' = wire \cup {[id |-> g, stamp |-> s, knew |-> knew[m]]}
  BY <1>1
<1>5. s \in Stamp \cup {None}
  BY <1>2, <1>3, StampsForType
<1>6. lxm' = [lxm EXCEPT ![m] = [lxm[m] EXCEPT !.stamp = s]]
  BY <1>4
<1>7. h.msg = m /\ g.msg = m /\ g.ticket = lxm[m].ticket
  OBVIOUS
<1> QED
  BY <1>3, <1>4, <1>5, <1>6, <1>7

LEMMA TypeStep == TypeOK /\ [Next]_vars => TypeOK'
<1> SUFFICES ASSUME TypeOK, [Next]_vars PROVE TypeOK'
  OBVIOUS
<1> USE ExchangeAssumption DEF ExchangeAssumption, TypeOK, ticketVars, sendVars, judgeVars
<1>1. CASE TimePasses
  BY <1>1 DEF TimePasses, StoreTypeOK, SendTypeOK, JudgeTypeOK, Time
<1>2. ASSUME NEW r \in Router, Clean(r) PROVE TypeOK'
  <2>1. StoreTypeOK'
    BY <1>2 DEF Clean, StoreTypeOK
  <2> QED
    BY <1>2, <2>1 DEF Clean, SendTypeOK, JudgeTypeOK
<1>3. ASSUME NEW r \in Router, NEW p \in Router, ReceivedAnnounce(p, r) PROVE TypeOK'
  BY <1>3 DEF ReceivedAnnounce, StoreTypeOK, SendTypeOK, JudgeTypeOK
<1>4. ASSUME NEW m \in Msg, Send(m) PROVE TypeOK'
  <2>1. sends[m] \in Nat /\ sends[m] + 1 <= MaxSends[m]
    BY <1>4 DEF Send, SendTypeOK
  <2>2. sends' \in [Msg -> Nat] /\ \A n \in Msg : sends'[n] <= MaxSends[n]
    BY <1>4, <2>1 DEF Send, SendTypeOK
  <2>3. knew' \in [Msg -> Knowledge]
    BY <1>4, KnowledgeType DEF Send, SendTypeOK
  <2>4. CASE lxm' = [lxm EXCEPT ![m] = Priced(m)] /\ UNCHANGED inbound
             /\ sending' = [sending EXCEPT ![m] = "signing"]
    BY <1>4, <2>2, <2>4, <2>3, PricedType DEF Send, StoreTypeOK, SendTypeOK, JudgeTypeOK
  <2>5. ASSUME NEW t \in Ticket, GenerateTicket(Source[m], Destination[m], t),
               lxm' = [lxm EXCEPT ![m] = [Priced(m) EXCEPT !.ticket = t]],
               sending' = [sending EXCEPT ![m] = "recording"]
        PROVE  TypeOK'
    <3>1. [Priced(m) EXCEPT !.ticket = t] \in LXMessage
      BY PricedType DEF LXMessage
    <3>2. inbound' \in [Router -> [Router -> SUBSET Ticket]]
      BY <2>5, GenerateTicketGives, Ends
    <3> QED
      BY <1>4, <2>2, <2>5, <2>3, <3>1, <3>2 DEF Send, StoreTypeOK, SendTypeOK, JudgeTypeOK
  <2> QED
    BY <1>4, <2>4, <2>5 DEF Send
<1>5. ASSUME NEW m \in Msg, RecordTicketDelivery(m) PROVE TypeOK'
  BY <1>5, Ends DEF RecordTicketDelivery, StoreTypeOK, SendTypeOK, JudgeTypeOK
<1>6. ASSUME NEW m \in Msg, SignFails(m) PROVE TypeOK'
  BY <1>6 DEF SignFails, StoreTypeOK, SendTypeOK, JudgeTypeOK
<1>7. ASSUME NEW m \in Msg, SignAndPack(m) PROVE TypeOK'
  <2>1. PICK g \in Id, s \in Stamp \cup {None} :
          /\ lxm' = [lxm EXCEPT ![m] = [lxm[m] EXCEPT !.stamp = s]]
          /\ wire' = wire \cup {[id |-> g, stamp |-> s, knew |-> knew[m]]}
    BY <1>7, Signed
  <2>2. /\ [lxm[m] EXCEPT !.stamp = s] \in LXMessage
        /\ [id |-> g, stamp |-> s, knew |-> knew[m]] \in Packed
    BY DEF SendTypeOK, LXMessage, Packed
  <2> QED
    BY <1>7, <2>1, <2>2 DEF SignAndPack, StoreTypeOK, SendTypeOK, JudgeTypeOK
<1>8. ASSUME NEW x \in wire, DispatchMessage(x) PROVE TypeOK'
  <2>1. x.id \in Id /\ x.id.msg \in Msg /\ x.id.ticket \in Ticket \cup {None}
    BY DEF SendTypeOK, Packed, Id
  <2>2. To(x) \in Router /\ From(x) \in Router
    BY <2>1, Ends DEF To, From
  <2>3. outbound' \in [Router -> [Router -> Ticket \cup {None}]]
    BY <1>8, <2>1, <2>2 DEF DispatchMessage, RememberTicket, StoreTypeOK
  <2> QED
    BY <1>8, <2>1, <2>3 DEF DispatchMessage, StoreTypeOK, SendTypeOK, JudgeTypeOK
<1>9. CASE UNCHANGED vars
  BY <1>9 DEF vars, StoreTypeOK, SendTypeOK, JudgeTypeOK
<1> QED
  BY <1>1, <1>2, <1>3, <1>4, <1>5, <1>6, <1>7, <1>8, <1>9 DEF Next

-----------------------------------------------------------------------------
(* Renewals.                                                               *)

\* No ticket is made.
LEMMA NoneMade ==
  ASSUME RenewalsApart, \A q, o \in Router : inbound'[q][o] \subseteq inbound[q][o]
  PROVE  RenewalsApart'
BY DEF RenewalsApart

\* A call of Send that makes a ticket found none that is worth using again, so
\* all others are at least TicketExpiry - TicketRenew older.
LEMMA RenewalStep == TypeOK /\ RenewalsApart /\ [Next]_vars => RenewalsApart'
<1> SUFFICES ASSUME TypeOK, RenewalsApart, [Next]_vars PROVE RenewalsApart'
  OBVIOUS
<1> USE ExchangeAssumption DEF ExchangeAssumption
<1>1. CASE UNCHANGED inbound
  BY <1>1, NoneMade
<1>2. ASSUME NEW r \in Router, Clean(r) PROVE RenewalsApart'
  <2>1. \A q, o \in Router : inbound'[q][o] \subseteq inbound[q][o]
    BY <1>2 DEF Clean, TypeOK, StoreTypeOK
  <2> QED
    BY <2>1, NoneMade
<1>3. ASSUME NEW m \in Msg, Send(m) PROVE RenewalsApart'
  <2> DEFINE r == Source[m]
             p == Destination[m]
  <2>1. CASE UNCHANGED inbound
    BY <2>1, NoneMade
  <2>2. ASSUME Reusable(r, p) = {},
               inbound' = [inbound EXCEPT ![r][p] = @ \cup {now + TicketExpiry}]
        PROVE  RenewalsApart'
    <3>1. r \in Router /\ p \in Router /\ now \in Nat
      BY Ends, TicketsAreNumbers DEF TypeOK, StoreTypeOK
    <3>2. /\ inbound'[r][p] = inbound[r][p] \cup {now + TicketExpiry}
          /\ \A o \in Router \ {p} : inbound'[r][o] = inbound[r][o]
          /\ \A q \in Router \ {r} : inbound'[q] = inbound[q]
      BY <2>2, <3>1 DEF TypeOK, StoreTypeOK
    <3>3. \A t \in inbound[r][p] : t \in Nat /\ t <= now + TicketRenew
      BY <2>2, <3>1, TicketsAreNumbers DEF Reusable, TypeOK, StoreTypeOK
    <3>4. \A t, u \in inbound'[r][p] : t < u => u >= t + (TicketExpiry - TicketRenew)
      BY <3>1, <3>2, <3>3 DEF RenewalsApart
    <3> HIDE DEF r, p
    <3> QED
      BY <3>1, <3>2, <3>4 DEF RenewalsApart
  <2> QED
    BY <1>3, <2>1, <2>2 DEF Send, GenerateTicket
<1> QED
  BY <1>1, <1>2, <1>3 DEF Next, vars, ticketVars, TimePasses, ReceivedAnnounce,
     RecordTicketDelivery, SignFails, SignAndPack, DispatchMessage

-----------------------------------------------------------------------------
(* Prices.                                                                 *)

\* A stamp that Sign makes costs what was asked.
LEMMA StampsForPrice ==
  ASSUME SendTypeOK, FairlyPriced, NEW m \in Msg, NEW h \in Id,
         NEW s \in StampsFor(lxm[m], h)
  PROVE  IF s = None THEN AppCost[m] = 0 /\ knew[m].cost = 0
         ELSE s.ticket = None => s.worth >= Asked(m)
<1> USE ExchangeAssumption DEF ExchangeAssumption
<1>1. /\ lxm[m].stampCost \in Nat /\ AppCost[m] \in Nat /\ StampCost[Destination[m]] \in Nat
      /\ lxm[m].stampCost \in {AppCost[m], Asked(m)}
      /\ lxm[m].stampCost = 0 => knew[m].cost = 0
      /\ lxm[m].stamp # None /\ lxm[m].stamp.ticket = None => lxm[m].stamp.worth >= Asked(m)
  BY Ends DEF SendTypeOK, LXMessage, FairlyPriced
<1>2. CASE s = None
  <2>1. CASE lxm[m].stampCost = 0
    BY <1>1, <1>2, <2>1 DEF Asked
  <2>2. CASE lxm[m].stampCost # 0 /\ lxm[m].stamp = None /\ lxm[m].outboundTicket # None
    BY <1>2, <2>2 DEF StampsFor, Stamp, SendTypeOK, LXMessage
  <2>3. CASE lxm[m].stampCost # 0 /\ lxm[m].stamp = None /\ lxm[m].outboundTicket = None
    BY <1>1, <1>2, <2>3 DEF StampsFor, Stamp
  <2> QED
    BY <1>2, <2>1, <2>2, <2>3 DEF StampsFor
<1>3. CASE s # None /\ s = lxm[m].stamp
  BY <1>1, <1>3
<1>4. CASE s # None /\ s # lxm[m].stamp /\ s.ticket = None
  <2>1. lxm[m].stampCost # 0
    BY <1>4 DEF StampsFor
  <2>2. \E w \in lxm[m].stampCost..MaxWorth : s.worth = w
    BY <1>4 DEF StampsFor
  <2> QED
    BY <1>1, <1>4, <2>1, <2>2 DEF Asked
<1> QED
  BY <1>2, <1>3, <1>4

LEMMA PriceStep == TypeOK /\ FairlyPriced /\ [Next]_vars => FairlyPriced'
<1> SUFFICES ASSUME TypeOK, FairlyPriced, [Next]_vars PROVE FairlyPriced'
  OBVIOUS
<1> USE ExchangeAssumption DEF ExchangeAssumption
<1>1. CASE UNCHANGED <<lxm, knew, wire>>
  BY <1>1 DEF FairlyPriced
<1>2. ASSUME NEW m \in Msg, Send(m) PROVE FairlyPriced'
  <2>1. lxm'[m] \in {Priced(m)} \cup {[Priced(m) EXCEPT !.ticket = t] : t \in Ticket}
    BY <1>2 DEF Send, TypeOK, SendTypeOK
  <2>2. lxm'[m].stampCost = Priced(m).stampCost /\ lxm'[m].stamp = lxm[m].stamp
    BY <2>1, PricedType DEF TypeOK, LXMessage
  <2>3. \A n \in Msg \ {m} : lxm'[n] = lxm[n]
    BY <1>2 DEF Send, TypeOK, SendTypeOK
  <2>4. Priced(m).stampCost \in {AppCost[m], Asked(m)}
    <3>1. GetStampCost(Source[m], Destination[m]) \in {0, StampCost[Destination[m]]}
      BY Ends, CostType
    <3>2. lxm[m].stampCost \in {AppCost[m], Asked(m)}
      BY DEF FairlyPriced
    <3> QED
      BY <3>1, <3>2, PricedType DEF Asked, TypeOK
  <2>5. wire' = wire
    BY <1>2 DEF Send
  <2>6. /\ knew'[m].cost = GetStampCost(Source[m], Destination[m])
        /\ \A n \in Msg \ {m} : knew'[n] = knew[n]
    BY <1>2 DEF Send, TypeOK, SendTypeOK
  <2>7. Priced(m).stampCost = 0 => knew'[m].cost = 0
    BY <2>6, PricedType DEF TypeOK
  <2> QED
    BY <2>2, <2>3, <2>4, <2>5, <2>6, <2>7 DEF FairlyPriced, Asked
<1>3. ASSUME NEW m \in Msg, SignAndPack(m) PROVE FairlyPriced'
  <2>1. PICK h, g \in Id : \E s \in StampsFor(lxm[m], h) :
          /\ g.msg = m
          /\ lxm' = [lxm EXCEPT ![m] = [lxm[m] EXCEPT !.stamp = s]]
          /\ wire' = wire \cup {[id |-> g, stamp |-> s, knew |-> knew[m]]}
    BY <1>3, Signed DEF TypeOK
  <2>2. PICK s \in StampsFor(lxm[m], h) :
          /\ lxm' = [lxm EXCEPT ![m] = [lxm[m] EXCEPT !.stamp = s]]
          /\ wire' = wire \cup {[id |-> g, stamp |-> s, knew |-> knew[m]]}
    BY <2>1
  <2>3. IF s = None THEN AppCost[m] = 0 /\ knew[m].cost = 0
        ELSE s.ticket = None => s.worth >= Asked(m)
    BY <2>2, StampsForPrice DEF TypeOK
  <2>4. /\ lxm'[m].stamp = s /\ lxm'[m].stampCost = lxm[m].stampCost
        /\ \A n \in Msg \ {m} : lxm'[n] = lxm[n]
        /\ knew' = knew
    BY <1>3, <2>2 DEF SignAndPack, TypeOK, SendTypeOK, LXMessage
  <2>5. \A n \in Msg : /\ lxm'[n].stampCost \in {AppCost[n], Asked(n)}
                       /\ lxm'[n].stampCost = 0 => knew'[n].cost = 0
                       /\ lxm'[n].stamp # None /\ lxm'[n].stamp.ticket = None
                            => lxm'[n].stamp.worth >= Asked(n)
    BY <2>3, <2>4 DEF FairlyPriced
  <2>6. \A x \in wire' : IF x.stamp = None THEN AppCost[x.id.msg] = 0 /\ x.knew.cost = 0
                         ELSE x.stamp.ticket = None => x.stamp.worth >= Asked(x.id.msg)
    BY <2>1, <2>2, <2>3 DEF FairlyPriced
  <2> QED
    BY <2>5, <2>6 DEF FairlyPriced, Asked
<1> QED
  BY <1>1, <1>2, <1>3 DEF Next, vars, sendVars, TimePasses, Clean, ReceivedAnnounce,
     RecordTicketDelivery, SignFails, DispatchMessage

-----------------------------------------------------------------------------
(* Tickets.                                                                *)

\* A ticket that is out is a number.
LEMMA CirculatingType ==
  ASSUME TypeOK, NEW r \in Router, NEW p \in Router
  PROVE  Circulating(r, p) \subseteq Ticket \cup {None}
BY DEF TypeOK, StoreTypeOK, SendTypeOK, LXMessage, Packed, Id, Stamp, Circulating

\* Where nothing new is out, and nothing is cleaned too early, all tickets that
\* are out are kept.
LEMMA TicketsStayKept ==
  ASSUME TypeOK, TicketsKept, now' \in Nat, now' >= now,
         \A r, p \in Router : \A t \in Circulating(r, p)' \ {None} :
           t \in Circulating(r, p) \/ t \in inbound'[r][p],
         \A r, p \in Router : \A t \in inbound[r][p] :
           now' < t + TicketGrace => t \in inbound'[r][p]
  PROVE  TicketsKept'
<1> SUFFICES ASSUME NEW r \in Router, NEW p \in Router,
                    NEW t \in Circulating(r, p)' \ {None}, now' < t + TicketGrace,
                    t \notin inbound'[r][p]
             PROVE  FALSE
  BY DEF TicketsKept
<1>1. t \in Circulating(r, p) /\ t \in Nat /\ now \in Nat
  BY CirculatingType, TicketsAreNumbers DEF TypeOK, StoreTypeOK
<1>2. now < t + TicketGrace
  BY <1>1, ExchangeAssumption DEF ExchangeAssumption
<1> QED
  BY <1>1, <1>2 DEF TicketsKept

LEMMA TicketStep == TypeOK /\ TicketsKept /\ [Next]_vars => TicketsKept'
<1> SUFFICES ASSUME TypeOK, TicketsKept, [Next]_vars PROVE TicketsKept'
  OBVIOUS
<1>1. now \in Nat /\ now' \in Nat /\ now' >= now
  <2>1. now \in Nat
    BY TicketsAreNumbers DEF TypeOK, StoreTypeOK
  <2>2. now' \in {now, now + 1}
    BY DEF Next, vars, TimePasses, Clean, ReceivedAnnounce, Send, RecordTicketDelivery,
       SignFails, SignAndPack, DispatchMessage
  <2> QED
    BY <2>1, <2>2
<1>2. CASE UNCHANGED <<inbound, outbound, lxm, wire>>
  BY <1>1, <1>2, TicketsStayKept DEF Circulating, From, To
<1>3. ASSUME NEW r \in Router, Clean(r) PROVE TicketsKept'
  <2>1. \A q, o \in Router : outbound'[q][o] \in {None, outbound[q][o]}
    BY <1>3 DEF Clean, TypeOK, StoreTypeOK
  <2>2. \A q, o \in Router : Circulating(q, o)' \subseteq Circulating(q, o) \cup {None}
    BY <1>3, <2>1 DEF Clean, sendVars, Circulating, From, To
  <2>3. \A q, o \in Router : \A t \in inbound[q][o] :
          now' < t + TicketGrace => t \in inbound'[q][o]
    BY <1>3 DEF Clean, KeepInbound, TypeOK, StoreTypeOK
  <2> QED
    BY <1>1, <2>2, <2>3, TicketsStayKept
<1>4. ASSUME NEW m \in Msg, Send(m) PROVE TicketsKept'
  <2>1. /\ lxm'[m].stamp = lxm[m].stamp
        /\ \/ lxm'[m].outboundTicket = lxm[m].outboundTicket
           \/ lxm'[m].outboundTicket \in {None, outbound[Source[m]][Destination[m]]}
    <3>1. lxm'[m] \in {Priced(m)} \cup {[Priced(m) EXCEPT !.ticket = t] : t \in Ticket}
      BY <1>4 DEF Send, TypeOK, SendTypeOK
    <3> QED
      BY <3>1, PricedType DEF TypeOK, LXMessage
  <2>2. \/ lxm'[m].ticket = lxm[m].ticket
        \/ lxm'[m].ticket \in inbound'[Source[m]][Destination[m]]
    <3>1. CASE lxm' = [lxm EXCEPT ![m] = Priced(m)]
      BY <3>1, PricedType DEF TypeOK, SendTypeOK
    <3>2. ASSUME NEW t \in Ticket, GenerateTicket(Source[m], Destination[m], t),
                 lxm' = [lxm EXCEPT ![m] = [Priced(m) EXCEPT !.ticket = t]]
          PROVE  lxm'[m].ticket \in inbound'[Source[m]][Destination[m]]
      <4>1. lxm'[m].ticket = t
        BY <3>2, PricedType DEF TypeOK, SendTypeOK, LXMessage
      <4> QED
        BY <3>2, <4>1, GenerateTicketGives, Ends DEF TypeOK
    <3> QED
      BY <1>4, <3>1, <3>2 DEF Send
  <2>3. \A q, o \in Router : inbound[q][o] \subseteq inbound'[q][o]
    BY <1>4, GenerateTicketGives, Ends DEF Send, TypeOK
  <2>4. \A n \in Msg \ {m} : lxm'[n] = lxm[n]
    BY <1>4 DEF Send, TypeOK, SendTypeOK
  <2>5. ASSUME NEW r \in Router, NEW p \in Router, NEW t \in Circulating(r, p)' \ {None}
        PROVE  t \in Circulating(r, p) \/ t \in inbound'[r][p]
    <3>1. wire' = wire /\ outbound' = outbound
      BY <1>4 DEF Send
    <3>2. CASE \/ t = outbound'[p][r]
               \/ \E x \in wire' : \/ From(x) = r /\ To(x) = p /\ t = x.id.ticket
                                   \/ /\ From(x) = p /\ To(x) = r /\ x.stamp # None
                                      /\ t = x.stamp.ticket
      BY <3>1, <3>2 DEF Circulating
    <3>3. ASSUME NEW n \in Msg, Source[n] = r, Destination[n] = p, t = lxm'[n].ticket
          PROVE  t \in Circulating(r, p) \/ t \in inbound'[r][p]
      BY <2>2, <2>4, <3>3 DEF Circulating
    <3>4. ASSUME NEW n \in Msg, Source[n] = p, Destination[n] = r, t = lxm'[n].outboundTicket
          PROVE  t \in Circulating(r, p)
      BY <2>1, <2>4, <2>5, <3>4 DEF Circulating
    <3>5. ASSUME NEW n \in Msg, Source[n] = p, Destination[n] = r, lxm'[n].stamp # None,
                 t = lxm'[n].stamp.ticket
          PROVE  t \in Circulating(r, p)
      BY <2>1, <2>4, <3>5 DEF Circulating
    <3> QED
      BY <2>5, <3>2, <3>3, <3>4, <3>5 DEF Circulating, From, To
  <2> QED
    BY <1>1, <2>3, <2>5, TicketsStayKept
<1>5. ASSUME NEW m \in Msg, SignAndPack(m) PROVE TicketsKept'
  <2>1. PICK h, g \in Id, s \in Stamp \cup {None} :
          /\ s \in StampsFor(lxm[m], h)
          /\ g.msg = m /\ g.ticket = lxm[m].ticket
          /\ lxm' = [lxm EXCEPT ![m] = [lxm[m] EXCEPT !.stamp = s]]
          /\ wire' = wire \cup {[id |-> g, stamp |-> s, knew |-> knew[m]]}
    BY <1>5, Signed DEF TypeOK
  <2>2. s # None /\ s.ticket # None =>
          \/ s.ticket = lxm[m].outboundTicket
          \/ lxm[m].stamp # None /\ s.ticket = lxm[m].stamp.ticket
    BY <2>1 DEF StampsFor
  <2>3. /\ lxm'[m].ticket = lxm[m].ticket /\ lxm'[m].outboundTicket = lxm[m].outboundTicket
        /\ lxm'[m].stamp = s
        /\ \A n \in Msg \ {m} : lxm'[n] = lxm[n]
    BY <2>1 DEF TypeOK, SendTypeOK, LXMessage
  <2>4. UNCHANGED <<inbound, outbound>>
    BY <1>5 DEF SignAndPack, ticketVars
  <2>5. ASSUME NEW r \in Router, NEW p \in Router, NEW t \in Circulating(r, p)' \ {None}
        PROVE  t \in Circulating(r, p)
    <3>1. CASE t = outbound'[p][r]
      BY <2>4, <3>1 DEF Circulating
    <3>2. ASSUME NEW n \in Msg, Source[n] = r, Destination[n] = p, t = lxm'[n].ticket
          PROVE  t \in Circulating(r, p)
      BY <2>3, <3>2 DEF Circulating
    <3>3. ASSUME NEW n \in Msg, Source[n] = p, Destination[n] = r, t = lxm'[n].outboundTicket
          PROVE  t \in Circulating(r, p)
      BY <2>3, <3>3 DEF Circulating
    <3>4. ASSUME Source[m] = p, Destination[m] = r, s # None, t = s.ticket
          PROVE  t \in Circulating(r, p)
      BY <2>2, <2>5, <3>4 DEF Circulating
    <3>5. ASSUME NEW n \in Msg, Source[n] = p, Destination[n] = r, lxm'[n].stamp # None,
                 t = lxm'[n].stamp.ticket
          PROVE  t \in Circulating(r, p)
      BY <2>3, <3>4, <3>5 DEF Circulating
    <3>6. ASSUME NEW x \in wire', From(x) = r, To(x) = p, t = x.id.ticket
          PROVE  t \in Circulating(r, p)
      BY <2>1, <3>6 DEF Circulating, From, To
    <3>7. ASSUME NEW x \in wire', From(x) = p, To(x) = r, x.stamp # None, t = x.stamp.ticket
          PROVE  t \in Circulating(r, p)
      BY <2>1, <3>4, <3>7 DEF Circulating, From, To
    <3> QED
      BY <2>5, <3>1, <3>2, <3>3, <3>5, <3>6, <3>7 DEF Circulating, From, To
  <2> QED
    BY <1>1, <2>4, <2>5, TicketsStayKept
<1>6. ASSUME NEW x \in wire, DispatchMessage(x) PROVE TicketsKept'
  <2>1. x.id.msg \in Msg /\ To(x) \in Router /\ From(x) \in Router
    BY Ends DEF To, From, TypeOK, SendTypeOK, Packed, Id
  <2>2. \A q, o \in Router : \/ outbound'[q][o] = outbound[q][o]
                             \/ q = To(x) /\ o = From(x) /\ outbound'[q][o] = x.id.ticket
    BY <1>6, <2>1 DEF DispatchMessage, RememberTicket, TypeOK, StoreTypeOK
  <2>3. UNCHANGED <<inbound, lxm, wire>>
    BY <1>6 DEF DispatchMessage, sendVars
  <2>4. ASSUME NEW r \in Router, NEW p \in Router, NEW t \in Circulating(r, p)'
        PROVE  t \in Circulating(r, p)
    <3>1. CASE t = outbound'[p][r]
      BY <2>2, <3>1 DEF Circulating
    <3>2. CASE t # outbound'[p][r]
      BY <2>3, <2>4, <3>2 DEF Circulating, From, To
    <3> QED
      BY <3>1, <3>2
  <2> QED
    BY <1>1, <2>3, <2>4, TicketsStayKept
<1> QED
  BY <1>2, <1>3, <1>4, <1>5, <1>6 DEF Next, vars, ticketVars, sendVars, TimePasses,
     ReceivedAnnounce, RecordTicketDelivery, SignFails

-----------------------------------------------------------------------------
(* Where the tickets of a peer come from.                                  *)

\* What a peer was given, it was given for good, and so where it can use nothing
\* new there is nothing to show.
LEMMA GivenForGood ==
  ASSUME TicketsWereGiven, wire \subseteq wire', deliveredIDs \subseteq deliveredIDs',
         \A p, r \in Router : \A t \in Usable(p, r)' \ {None} :
           t \in Usable(p, r) \/ WasGiven(p, r, t)'
  PROVE  TicketsWereGiven'
<1>1. ASSUME NEW p \in Router, NEW r \in Router, NEW t, WasGiven(p, r, t)
      PROVE  WasGiven(p, r, t)'
  BY <1>1 DEF WasGiven, From, To
<1> QED
  BY <1>1 DEF TicketsWereGiven

LEMMA GivenStep == TypeOK /\ TicketsWereGiven /\ [Next]_vars => TicketsWereGiven'
<1> SUFFICES ASSUME TypeOK, TicketsWereGiven, [Next]_vars PROVE TicketsWereGiven'
  OBVIOUS
<1>1. wire \subseteq wire' /\ deliveredIDs \subseteq deliveredIDs'
  BY DEF Next, vars, sendVars, judgeVars, TimePasses, Clean, ReceivedAnnounce, Send,
     RecordTicketDelivery, SignFails, SignAndPack, DispatchMessage
<1>2. CASE UNCHANGED <<outbound, lxm, wire>>
  BY <1>1, <1>2, GivenForGood DEF Usable, From, To
<1>3. ASSUME NEW r \in Router, Clean(r) PROVE TicketsWereGiven'
  <2>1. \A q, o \in Router : outbound'[q][o] \in {None, outbound[q][o]}
    BY <1>3 DEF Clean, TypeOK, StoreTypeOK
  <2>2. \A q, o \in Router : Usable(q, o)' \subseteq Usable(q, o) \cup {None}
    BY <1>3, <2>1 DEF Clean, sendVars, Usable, From, To
  <2> QED
    BY <1>1, <2>2, GivenForGood
<1>4. ASSUME NEW m \in Msg, Send(m) PROVE TicketsWereGiven'
  <2>1. /\ lxm'[m].stamp = lxm[m].stamp
        /\ \/ lxm'[m].outboundTicket = lxm[m].outboundTicket
           \/ lxm'[m].outboundTicket \in {None, outbound[Source[m]][Destination[m]]}
    <3>1. lxm'[m] \in {Priced(m)} \cup {[Priced(m) EXCEPT !.ticket = t] : t \in Ticket}
      BY <1>4 DEF Send, TypeOK, SendTypeOK
    <3> QED
      BY <3>1, PricedType DEF TypeOK, LXMessage
  <2>2. \A n \in Msg \ {m} : lxm'[n] = lxm[n]
    BY <1>4 DEF Send, TypeOK, SendTypeOK
  <2>3. UNCHANGED <<outbound, wire>>
    BY <1>4 DEF Send
  <2>4. ASSUME NEW p \in Router, NEW r \in Router, NEW t \in Usable(p, r)' \ {None}
        PROVE  t \in Usable(p, r)
    <3>1. ASSUME NEW n \in Msg, Source[n] = p, Destination[n] = r, t = lxm'[n].outboundTicket
          PROVE  t \in Usable(p, r)
      BY <2>1, <2>2, <2>4, <3>1 DEF Usable
    <3>2. ASSUME NEW n \in Msg, Source[n] = p, Destination[n] = r, lxm'[n].stamp # None,
                 t = lxm'[n].stamp.ticket
          PROVE  t \in Usable(p, r)
      BY <2>1, <2>2, <3>2 DEF Usable
    <3>3. CASE \/ t = outbound'[p][r]
               \/ \E x \in wire' : From(x) = p /\ To(x) = r /\ x.stamp # None /\ t = x.stamp.ticket
      BY <2>3, <3>3 DEF Usable
    <3> QED
      BY <2>4, <3>1, <3>2, <3>3 DEF Usable, From, To
  <2> QED
    BY <1>1, <2>4, GivenForGood
<1>5. ASSUME NEW m \in Msg, SignAndPack(m) PROVE TicketsWereGiven'
  <2>1. PICK h, g \in Id, s \in Stamp \cup {None} :
          /\ s \in StampsFor(lxm[m], h)
          /\ g.msg = m
          /\ lxm' = [lxm EXCEPT ![m] = [lxm[m] EXCEPT !.stamp = s]]
          /\ wire' = wire \cup {[id |-> g, stamp |-> s, knew |-> knew[m]]}
    BY <1>5, Signed DEF TypeOK
  <2>2. s # None /\ s.ticket # None =>
          \/ s.ticket = lxm[m].outboundTicket
          \/ lxm[m].stamp # None /\ s.ticket = lxm[m].stamp.ticket
    BY <2>1 DEF StampsFor
  <2>3. /\ lxm'[m].outboundTicket = lxm[m].outboundTicket
        /\ lxm'[m].stamp = s
        /\ \A n \in Msg \ {m} : lxm'[n] = lxm[n]
    BY <2>1 DEF TypeOK, SendTypeOK, LXMessage
  <2>4. ASSUME NEW p \in Router, NEW r \in Router, NEW t \in Usable(p, r)' \ {None}
        PROVE  t \in Usable(p, r)
    <3>1. CASE t = outbound'[p][r]
      BY <1>5, <3>1 DEF SignAndPack, ticketVars, Usable
    <3>2. ASSUME NEW n \in Msg, Source[n] = p, Destination[n] = r, t = lxm'[n].outboundTicket
          PROVE  t \in Usable(p, r)
      BY <2>3, <3>2 DEF Usable
    <3>3. ASSUME Source[m] = p, Destination[m] = r, s # None, t = s.ticket
          PROVE  t \in Usable(p, r)
      BY <2>2, <2>4, <3>3 DEF Usable
    <3>4. ASSUME NEW n \in Msg, Source[n] = p, Destination[n] = r, lxm'[n].stamp # None,
                 t = lxm'[n].stamp.ticket
          PROVE  t \in Usable(p, r)
      BY <2>3, <3>3, <3>4 DEF Usable
    <3>5. ASSUME NEW x \in wire', From(x) = p, To(x) = r, x.stamp # None, t = x.stamp.ticket
          PROVE  t \in Usable(p, r)
      BY <2>1, <3>3, <3>5 DEF Usable, From, To
    <3> QED
      BY <2>4, <3>1, <3>2, <3>4, <3>5 DEF Usable, From, To
  <2> QED
    BY <1>1, <2>4, GivenForGood
<1>6. ASSUME NEW x \in wire, DispatchMessage(x) PROVE TicketsWereGiven'
  <2>1. x.id.msg \in Msg /\ To(x) \in Router /\ From(x) \in Router
    BY Ends DEF To, From, TypeOK, SendTypeOK, Packed, Id
  <2>2. \A q, o \in Router : \/ outbound'[q][o] = outbound[q][o]
                             \/ q = To(x) /\ o = From(x) /\ outbound'[q][o] = x.id.ticket
    BY <1>6, <2>1 DEF DispatchMessage, RememberTicket, TypeOK, StoreTypeOK
  <2>3. UNCHANGED <<lxm, wire>> /\ x.id \in deliveredIDs'
    BY <1>6 DEF DispatchMessage, sendVars
  <2>4. WasGiven(To(x), From(x), x.id.ticket)'
    BY <2>3 DEF WasGiven, From, To
  <2>5. ASSUME NEW p \in Router, NEW r \in Router, NEW t \in Usable(p, r)' \ {None}
        PROVE  t \in Usable(p, r) \/ WasGiven(p, r, t)'
    <3>1. CASE t = outbound'[p][r]
      BY <2>2, <2>4, <3>1 DEF Usable
    <3>2. CASE t # outbound'[p][r]
      BY <2>3, <2>5, <3>2 DEF Usable, From, To
    <3> QED
      BY <3>1, <3>2
  <2> QED
    BY <1>1, <2>5, GivenForGood
<1> QED
  BY <1>2, <1>3, <1>4, <1>5, <1>6 DEF Next, vars, ticketVars, sendVars, TimePasses,
     ReceivedAnnounce, RecordTicketDelivery, SignFails

\* A valid stamp that a ticket paid for was made by a sender that had it.
LEMMA PaidStep == TypeOK /\ TicketsWereGiven /\ PaidFor /\ [Next]_vars => PaidFor'
<1> SUFFICES ASSUME TypeOK, TicketsWereGiven, PaidFor, [Next]_vars, NEW x \in given',
                    To(x) \in EnforceStamps, StampCost[To(x)] > 0
             PROVE  /\ x.stamp # None /\ x.stamp.over = x.id
                    /\ \/ x.stamp.ticket = None /\ x.stamp.worth >= StampCost[To(x)]
                       \/ x.stamp.ticket # None /\ WasGiven(From(x), To(x), x.stamp.ticket)'
  BY DEF PaidFor, From, To
<1>1. wire \subseteq wire' /\ deliveredIDs \subseteq deliveredIDs'
  BY DEF Next, vars, sendVars, judgeVars, TimePasses, Clean, ReceivedAnnounce, Send,
     RecordTicketDelivery, SignFails, SignAndPack, DispatchMessage
<1>2. ASSUME NEW t, WasGiven(From(x), To(x), t) PROVE WasGiven(From(x), To(x), t)'
  BY <1>1, <1>2 DEF WasGiven, From, To
<1>3. CASE x \in given
  BY <1>2, <1>3 DEF PaidFor
<1>4. CASE x \notin given
  <2>1. x \in wire /\ DispatchMessage(x)
    BY <1>4 DEF Next, vars, judgeVars, TimePasses, Clean, ReceivedAnnounce, Send,
       RecordTicketDelivery, SignFails, SignAndPack, DispatchMessage
  <2>2. ValidateStamp(To(x), From(x), x)
    BY <1>4, <2>1 DEF DispatchMessage
  <2>3. To(x) \in Router /\ From(x) \in Router
    BY <2>1, Ends DEF To, From, TypeOK, SendTypeOK, Packed, Id
  <2>4. CASE x.stamp.ticket = None
    <3>1. x.stamp.ticket \notin GetInboundTickets(To(x), From(x))
      BY <2>3, <2>4, TicketsAreNumbers DEF GetInboundTickets, TypeOK, StoreTypeOK
    <3> QED
      BY <2>2, <2>4, <3>1 DEF ValidateStamp
  <2>5. CASE x.stamp.ticket # None
    <3>1. x.stamp.ticket \in Usable(From(x), To(x)) \ {None}
      BY <2>1, <2>2, <2>5 DEF Usable, ValidateStamp
    <3> QED
      BY <1>2, <2>2, <2>3, <2>5, <3>1 DEF TicketsWereGiven, ValidateStamp
  <2> QED
    BY <2>4, <2>5
<1> QED
  BY <1>3, <1>4

-----------------------------------------------------------------------------
(* Theorems.                                                               *)

LEMMA InitOK == Init => ExchangeInv
BY ExchangeAssumption DEF ExchangeAssumption, Init, ExchangeInv, TypeOK, StoreTypeOK,
   SendTypeOK, JudgeTypeOK, LXMessage, Knowledge, Time, TicketsKept, Circulating, RenewalsApart,
   TicketsWereGiven, Usable, FairlyPriced, Asked, PaidFor

\* The types of all variables, how far the tickets of one issuer for one peer
\* are apart, that those which are out are kept, where those that are used come
\* from, and what stamps are worth (ticket.go:29-195, router.go:263-310).
THEOREM ExchangeInvariant == Spec => []ExchangeInv
<1>1. ExchangeInv /\ [Next]_vars => ExchangeInv'
  BY TypeStep, RenewalStep, PriceStep, TicketStep, GivenStep, PaidStep DEF ExchangeInv
<1> QED
  BY InitOK, <1>1, PTL DEF Spec

\* A ticket is good for as long as the peer was told (ticket.go:29).
LEMMA KeptIsHonoured == TypeOK /\ TicketsKept => TicketsHonoured
<1> SUFFICES ASSUME TypeOK, TicketsKept, NEW r \in Router, NEW p \in Router,
                    NEW t \in Circulating(r, p) \ {None}, now < Unix(t)
             PROVE  t \in GetInboundTickets(r, p)
  BY DEF TicketsHonoured
<1>1. t \in Nat /\ now \in Nat /\ Unix(t) <= t /\ Unix(t) \in Int
  BY CirculatingType, TicketsAreNumbers, UnixBelow DEF TypeOK, StoreTypeOK
<1>2. now < t /\ now < t + TicketGrace
  BY <1>1, ExchangeAssumption DEF ExchangeAssumption
<1> QED
  BY <1>2 DEF TicketsKept, GetInboundTickets

\* A ticket that was given to a peer in a message of any number of calls of
\* Send, overlapping or not, replaces the work until the peer's copy of its
\* expiry, whatever is cleaned, renewed or late (ticket.go:29).
THEOREM TicketsWork == Spec => []TicketsHonoured
BY ExchangeInvariant, KeptIsHonoured, PTL DEF ExchangeInv

\* Few tickets are made: those for one peer expire TicketExpiry - TicketRenew
\* apart (ticket.go:48-64).
THEOREM TicketsAreRare == Spec => []RenewalsApart
BY ExchangeInvariant, PTL DEF ExchangeInv

\* Where stamps are enforced, whoever reached the application worked for that
\* message, or used a ticket that it had received from this very router
\* (stamper.go:96, router.go:977).
THEOREM NothingIsFree == Spec => []PaidFor
BY ExchangeInvariant, PTL DEF ExchangeInv

\* Who had heard the cost when it called Send is refused only because its
\* application set less, its ticket expired on the way, or the stamp is for another
\* encoding; who had not heard it may be refused for that (router.go:977-993).
THEOREM RefusalIsExcused == Spec => RefusedHasReason
<1> USE ExchangeAssumption DEF ExchangeAssumption
<1>1. ASSUME ExchangeInv, [Next]_vars, NEW x \in refused' \ refused
      PROVE  Excused(x)
  <2>1. x \in wire /\ DispatchMessage(x)
    BY <1>1 DEF Next, vars, judgeVars, TimePasses, Clean, ReceivedAnnounce, Send,
       RecordTicketDelivery, SignFails, SignAndPack, DispatchMessage
  <2>2. StampCost[To(x)] > 0 /\ ~ValidateStamp(To(x), From(x), x)
    BY <1>1, <2>1 DEF DispatchMessage
  <2>3. x.id.msg \in Msg /\ To(x) \in Router /\ From(x) \in Router
    BY <1>1, <2>1, Ends DEF To, From, ExchangeInv, TypeOK, SendTypeOK, Packed, Id
  <2>4. CASE x.stamp = None
    BY <1>1, <2>1, <2>4 DEF ExchangeInv, FairlyPriced, Excused
  <2>5. CASE x.stamp # None /\ x.stamp.ticket # None
    <3>1. x.stamp.ticket \in Circulating(To(x), From(x)) \ {None}
      BY <2>1, <2>5 DEF Circulating
    <3>2. now < Unix(x.stamp.ticket) => x.stamp.ticket \in GetInboundTickets(To(x), From(x))
      BY <1>1, <2>3, <3>1, KeptIsHonoured DEF ExchangeInv, TicketsHonoured
    <3>3. x.stamp.ticket \in Nat /\ now \in Nat
      BY <1>1, <2>3, <3>1, CirculatingType, TicketsAreNumbers
         DEF ExchangeInv, TypeOK, StoreTypeOK
    <3>4. Unix(x.stamp.ticket) \in Int
      BY <3>3, UnixBelow
    <3> QED
      BY <2>2, <2>5, <3>2, <3>3, <3>4 DEF ValidateStamp, Excused
  <2>6. CASE x.stamp # None /\ x.stamp.ticket = None
    <3>1. x.stamp.worth >= Asked(x.id.msg) /\ x.stamp.worth \in Nat
      BY <1>1, <2>1, <2>6 DEF ExchangeInv, FairlyPriced, TypeOK, SendTypeOK, Packed, Stamp
    <3>2. x.stamp.over = x.id => ~(x.stamp.worth >= StampCost[To(x)])
      BY <2>2, <2>6 DEF ValidateStamp
    <3>3. AppCost[x.id.msg] \in Nat /\ StampCost[To(x)] \in Nat
      BY <2>3
    <3> QED
      BY <3>1, <3>2, <3>3 DEF Asked, Excused, To
  <2> QED
    BY <2>4, <2>5, <2>6
<1>2. ExchangeInv /\ [Next]_vars => [\A x \in refused' \ refused : Excused(x)]_vars
  BY <1>1
<1> QED
  BY <1>2, ExchangeInvariant, PTL DEF Spec, RefusedHasReason
=============================================================================
