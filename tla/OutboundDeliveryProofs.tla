----------------------- MODULE OutboundDeliveryProofs -----------------------
(***************************************************************************)
(* What Send promises about one message, for every number of calls, nodes, *)
(* recipients and attempts: it is given to the network once, or given up   *)
(* only after all attempts, "sent" is true, and a conclusion stands.       *)
(*                                                                         *)
(* What a step may do is said by two predicates, one for the histories and *)
(* transfers, one for the state of an entry; every action is shown to obey *)
(* them, and the invariant follows from them.                              *)
(***************************************************************************)
EXTENDS OutboundProofs

USE OutboundAssumption DEF Entry, Attempt, Offer

-----------------------------------------------------------------------------
(* An entry and its attempts.                                              *)

LEMMA SendsFixed ==
  ASSUME call' = call
  PROVE  \A e \in Entry : /\ MsgOf(e)' = MsgOf(e) /\ MethodOf(e)' = MethodOf(e)
                          /\ LoopDecides(e)' = LoopDecides(e) /\ OneMethod(e)' = OneMethod(e)
BY DEF LoopDecides, OneMethod, MsgOf, MethodOf

\* What a call of Send asks is fixed from the start.
LEMMA CallFixed == ASSUME [Next]_vars PROVE call' = call
BY DEF Next, Caller, Loop, Attempting, Network, Clock, Send, TimePasses, Tick, GiveUp,
   AttemptOpportunistic, AttemptDirect, AttemptPropagated, Trying, Taking, Sign, Tell,
   ResourceStarted, RemoveFinished, CleanInactiveLinks, Stop, LoopExit, LinkUp, LinkDown,
   DirectEstablished, DirectClosed, PropagationEstablished, PropagationSend,
   PropagationClosed, DirectConcluded, PropagatedConcluded,
   SetOutboundPropagationNode, CancelPropagationNodeRequests, vars, entryVars

LEMMA AttemptsOf ==
  ASSUME NEW e \in Entry
  PROVE  /\ \A a \in 1..MaxDeliveryAttempts : <<e, a>> \in Attempt /\ <<e, a>>[1] = e
         /\ \A id \in Attempt : /\ id[1] \in Entry
                                /\ id[1] = e => \E a \in 1..MaxDeliveryAttempts : id = <<e, a>>
OBVIOUS

-----------------------------------------------------------------------------
(* Links have the method of the attempt that opened them.                  *)

LEMMA LinksInit == Init => LinksHaveMethod
BY DEF Init, LinksHaveMethod

\* Tearing down closes links that were open.
LEMMA TearDownShape ==
  ASSUME TypeOK, NEW L \in SUBSET Attempt, TearDown(L)
  PROVE  \A l \in Attempt :
           /\ status'[l] # "none" <=> status[l] # "none"
           /\ \A kind \in {"established", "closed"} : <<l, kind>> \in callbacks' =>
                <<l, kind>> \in callbacks \/ status[l] # "none"
BY DEF TypeOK, LinkTypeOK, TearDown

LEMMA LinksStep ==
  ASSUME TypeOK, LinksHaveMethod, [Next]_vars
  PROVE  LinksHaveMethod'
<1> USE DEF TypeOK, LinkTypeOK, NodeTypeOK, SendTypeOK
<1>1. call' = call
  BY CallFixed
<1>2. \A l \in Attempt : MethodOf(l[1])' = MethodOf(l[1])
  BY <1>1, SendsFixed, AttemptsOf
<1>3. ASSUME \A l \in Attempt :
               /\ status'[l] # "none" => status[l] # "none" \/ MethodOf(l[1]) # "opportunistic"
               /\ status[l] # "none" => status'[l] # "none"
               /\ \A kind \in {"established", "closed"} : <<l, kind>> \in callbacks' =>
                    <<l, kind>> \in callbacks \/ status[l] # "none"
               /\ found'[l] # 0 \/ l \in starting'
                    => found[l] # 0 \/ l \in starting \/ MethodOf(l[1]) = "propagated"
      PROVE  LinksHaveMethod'
  BY <1>2, <1>3 DEF LinksHaveMethod
<1>4. CASE UNCHANGED <<status, callbacks, found, starting>>
  BY <1>3, <1>4
<1>5. ASSUME NEW L \in SUBSET Attempt, TearDown(L), UNCHANGED <<found, starting>>
      PROVE  LinksHaveMethod'
  BY <1>3, <1>5, TearDownShape
<1>6. ASSUME NEW e \in Entry, NEW n, This(e) \in Attempt, MethodOf(e) # "opportunistic",
             OpenLink(This(e), n), UNCHANGED <<found, starting>>
      PROVE  LinksHaveMethod'
  <2>1. This(e)[1] = e
    BY DEF This
  <2> QED
    BY <1>3, <1>6, <2>1 DEF OpenLink
<1>7. ASSUME NEW e \in Entry, AttemptOpportunistic(e) \/ AttemptDirect(e) \/ AttemptPropagated(e)
      PROVE  LinksHaveMethod'
  <2>1. This(e) \in Attempt /\ This(e)[1] = e
    BY <1>7, TryingType DEF AttemptOpportunistic, AttemptDirect, AttemptPropagated, This
  <2>2. \/ UNCHANGED <<status, callbacks, found, starting>>
        \/ /\ MethodOf(e) # "opportunistic" /\ UNCHANGED <<found, starting>>
           /\ \E n : OpenLink(This(e), n)
        \/ /\ UNCHANGED <<status, callbacks, found>> /\ MethodOf(e) = "propagated"
           /\ starting' = starting \cup {This(e)}
    BY <1>7 DEF AttemptOpportunistic, AttemptDirect, AttemptPropagated, Postpone, SendPacket,
       NewResource, NothingSent, linkVars, sendVars
  <2>3. CASE /\ UNCHANGED <<status, callbacks, found>> /\ MethodOf(e) = "propagated"
             /\ starting' = starting \cup {This(e)}
    BY <1>3, <2>1, <2>3
  <2> QED
    BY <1>4, <1>6, <2>1, <2>2, <2>3
<1>8. CASE CleanInactiveLinks
  <2>1. PICK stale \in SUBSET Dest :
          /\ TearDown({directLinks[d] : d \in stale})
          /\ \A d \in stale : directLinks[d] # NoLink
    BY <1>8 DEF CleanInactiveLinks
  <2>2. {directLinks[d] : d \in stale} \in SUBSET Attempt
    BY <2>1
  <2> QED
    BY <1>5, <1>8, <2>1, <2>2 DEF CleanInactiveLinks, sendVars
<1>9. ASSUME NEW l \in Attempt, LinkUp(l) PROVE LinksHaveMethod'
  BY <1>3, <1>9 DEF LinkUp, sendVars
<1>10. ASSUME NEW l \in Attempt, LinkDown(l) PROVE LinksHaveMethod'
  BY <1>5, <1>10 DEF LinkDown, sendVars
<1>11. ASSUME NEW l \in Attempt, DirectEstablished(l) \/ DirectClosed(l) \/ PropagationClosed(l)
       PROVE  LinksHaveMethod'
  BY <1>3, <1>11 DEF DirectEstablished, DirectClosed, PropagationClosed, Called, sendVars
<1>12. ASSUME NEW l \in Attempt, PropagationEstablished(l) PROVE LinksHaveMethod'
  BY <1>3, <1>12 DEF PropagationEstablished, Called
<1>13. ASSUME NEW l \in Attempt, PropagationSend(l) PROVE LinksHaveMethod'
  <2>1. /\ UNCHANGED <<status, callbacks>> /\ found[l] # 0
        /\ found' = found \/ found' = [found EXCEPT ![l] = 0]
        /\ starting' = starting \/ starting' = starting \cup {l}
    BY <1>13 DEF PropagationSend, SendPacket, NewResource, NothingSent, linkVars
  <2> QED
    BY <1>3, <2>1
<1>14. ASSUME NEW l \in Attempt, ResourceStarted(l) PROVE LinksHaveMethod'
  BY <1>3, <1>14 DEF ResourceStarted, linkVars
<1>15. ASSUME \/ \E n \in Node \cup {NoNode} : SetOutboundPropagationNode(n)
              \/ CancelPropagationNodeRequests
       PROVE  LinksHaveMethod'
  <2>1. /\ UNCHANGED <<found, starting>>
        /\ \/ UNCHANGED <<status, callbacks>>
           \/ propagationLink # NoLink /\ TearDown({propagationLink})
    BY <1>15 DEF SetOutboundPropagationNode, CancelPropagationNodeRequests, sendVars
  <2> QED
    BY <1>4, <1>5, <2>1
<1>16. ASSUME \/ Tick \/ RemoveFinished \/ Stop \/ LoopExit \/ UNCHANGED vars
              \/ \E e \in Entry : Send(e) \/ Sign(e) \/ TimePasses(e) \/ GiveUp(e)
              \/ \E id \in Attempt : DirectConcluded(id) \/ PropagatedConcluded(id) \/ Tell(id)
       PROVE  LinksHaveMethod'
  BY <1>4, <1>16 DEF Tick, RemoveFinished, Stop, LoopExit, Send, Sign, TimePasses, GiveUp,
     DirectConcluded, PropagatedConcluded, Tell, vars, linkVars, sendVars
<1> QED
  BY <1>7, <1>8, <1>9, <1>10, <1>11, <1>12, <1>13, <1>14, <1>15, <1>16
     DEF Next, Caller, Loop, Attempting, Network, Clock

-----------------------------------------------------------------------------
(* What a step may do to the histories and to what is in flight.           *)

HistoryStep ==
  /\ handed \subseteq handed'
  /\ \A id \in Attempt :
       CarriesMessage(id) /\ transfer'[id] # "none" => transfer[id] # "none" \/ id \in handed'
  /\ \A e \in Entry :
       /\ WillSay(MsgOf(e), "sent")
            => \/ "sent" \in Said(MsgOf(e))
               \/ MethodOf(e) = "opportunistic" \/ ~OneMethod(e)
               \/ \E id \in handed' : MsgOf(id[1]) = MsgOf(e)
       /\ WillSay(MsgOf(e), "delivered")
            => \/ "delivered" \in Said(MsgOf(e))
               \/ \E id \in handed' : /\ MsgOf(id[1]) = MsgOf(e)
                                      /\ MethodOf(id[1]) # "propagated"

\* The step says nothing new, but S of the message of attempt id.
Says(id, S) ==
  \A e \in Entry : \A s :
    WillSay(MsgOf(e), s) => s \in Said(MsgOf(e)) \/ (MsgOf(e) = MsgOf(id[1]) /\ s \in S)

LEMMA ReportSays ==
  ASSUME TypeOK, NEW id \in Attempt, NEW S, Report(MsgOf(id[1]), S), UNCHANGED untold
  PROVE  Says(id, S)
<1>1. id[1] \in Entry
  OBVIOUS
<1>2. ASSUME NEW e \in Entry
      PROVE  reported'[MsgOf(e)] = IF MsgOf(e) = MsgOf(id[1])
                                   THEN reported[MsgOf(e)] \cup S ELSE reported[MsgOf(e)]
  BY <1>1, CallTypes DEF Report, TypeOK, ReportTypeOK
<1>3. ASSUME NEW e \in Entry, NEW s, WillSay(MsgOf(e), s)
      PROVE  s \in Said(MsgOf(e)) \/ (MsgOf(e) = MsgOf(id[1]) /\ s \in S)
  <2>1. CASE s \in reported'[MsgOf(e)]
    <3>1. s \in reported[MsgOf(e)] \/ (MsgOf(e) = MsgOf(id[1]) /\ s \in S)
      BY <1>2, <2>1
    <3> QED
      BY <3>1, SaidOf
  <2>2. CASE \E k \in Attempt : MsgOf(k[1]) = MsgOf(e) /\ s \in untold'[k]
    BY <2>2, SaidOf
  <2> QED
    BY <1>3, <2>1, <2>2 DEF WillSay
<1> QED
  BY <1>3 DEF Says

LEMMA OweSays ==
  ASSUME TypeOK, NEW id \in Attempt, NEW s, Owe(id, s), UNCHANGED reported
  PROVE  Says(id, {s})
BY SaidOf DEF Says, WillSay, Owe, TypeOK, ReportTypeOK

LEMMA QuietSays ==
  ASSUME UNCHANGED <<reported, untold>>, NEW id
  PROVE  Says(id, {})
BY SaidOf DEF Says, WillSay

LEMMA TellSays ==
  ASSUME TypeOK, NEW id \in Attempt, Tell(id)
  PROVE  Says(id, {})
<1>1. PICK s \in untold[id] : /\ untold' = [untold EXCEPT ![id] = @ \ {s}]
                              /\ Report(MsgOf(id[1]), {s})
  BY DEF Tell
<1>2. id[1] \in Entry
  OBVIOUS
<1>3. ASSUME NEW e \in Entry, NEW t, t \in reported'[MsgOf(e)]
      PROVE  t \in Said(MsgOf(e))
  <2>1. t \in reported[MsgOf(e)] \/ (MsgOf(e) = MsgOf(id[1]) /\ t = s)
    BY <1>1, <1>2, <1>3, CallTypes DEF Report, TypeOK, ReportTypeOK
  <2> QED
    BY <1>1, <2>1, SaidOf
<1>4. ASSUME NEW k \in Attempt PROVE untold'[k] \subseteq untold[k]
  BY <1>1 DEF TypeOK, ReportTypeOK
<1> QED
  BY <1>3, <1>4, SaidOf DEF Says, WillSay

\* A step about attempt id speaks of the message of id, and of no other entry.
LEMMA SayingStep ==
  ASSUME TypeOK, NEW id \in Attempt, NEW S, Says(id, S),
         handed' = handed \/ handed' = handed \cup {id},
         \A k \in Attempt : transfer'[k] # "none" => transfer[k] # "none" \/ k = id,
         CarriesMessage(id) /\ transfer'[id] # "none" => transfer[id] # "none" \/ id \in handed',
         "sent" \in S /\ OneMethod(id[1]) /\ MethodOf(id[1]) # "opportunistic" => id \in handed',
         "delivered" \in S => MethodOf(id[1]) # "propagated" /\ id \in handed'
  PROVE  HistoryStep
<1>1. id[1] \in Entry
  OBVIOUS
<1>2. ASSUME NEW e \in Entry, MsgOf(e) = MsgOf(id[1]), OneMethod(e)
      PROVE  OneMethod(id[1]) /\ MethodOf(id[1]) = MethodOf(e)
  BY <1>1, <1>2 DEF OneMethod
<1> QED
  BY <1>2 DEF HistoryStep, Says

LEMMA QuietHistory == UNCHANGED reportVars => HistoryStep
BY SaidOf DEF HistoryStep, WillSay, reportVars

\* Giving up and queueing say nothing that needs the network.
LEMMA WordHistory ==
  ASSUME TypeOK, NEW f \in Entry, NEW s \in {"outbound", "sending", "failed"},
         Report(MsgOf(f), {s}), UNCHANGED <<transfer, handed, untold>>
  PROVE  HistoryStep
<1>1. <<f, 1>> \in Attempt /\ <<f, 1>>[1] = f
  OBVIOUS
<1> QED
  BY <1>1, ReportSays, SayingStep

LEMMA SendOverLinkHistory ==
  ASSUME TypeOK, NEW id \in Attempt, NEW l, NEW also \in {{}, {"sent"}},
         also # {} => MethodOf(id[1]) = "opportunistic",
         SendOverLink(id, l, also), UNCHANGED untold
  PROVE  HistoryStep
<1>1. CASE /\ handed' = handed \cup {id}
           /\ Report(MsgOf(id[1]), {"sent"} \cup also)
           /\ transfer' = [transfer EXCEPT ![id] =
                             IF FitsLink(id[1]) THEN "packet" ELSE "resource"]
  <2>1. Says(id, {"sent"} \cup also)
    BY <1>1, ReportSays
  <2> QED
    BY <1>1, <2>1, SayingStep DEF TypeOK, ReportTypeOK
<1>2. CASE /\ Report(MsgOf(id[1]), {"failed"} \cup also)
           /\ UNCHANGED <<handed, transfer>>
  <2>1. Says(id, {"failed"} \cup also)
    BY <1>2, ReportSays
  <2> QED
    BY <1>2, <2>1, SayingStep DEF TypeOK, ReportTypeOK
<1> QED
  BY <1>1, <1>2 DEF SendOverLink

\* The entry sent over a propagation link is one with the message of the
\* attempt that opened the link; with one method, it goes by propagation too.
LEMMA SendPropagatedHistory ==
  ASSUME TypeOK, NEW id \in Attempt, NEW l, NEW f \in Entry,
         MsgOf(f) = MsgOf(id[1]), MethodOf(id[1]) = "propagated",
         \/ SendPacket(id, l, f) /\ Says(id, {"sent"})
         \/ NewResource(id, f) /\ Says(id, {})
         \/ NothingSent(f) /\ Says(id, {})
  PROVE  HistoryStep
<1>1. OneMethod(id[1]) \/ CarriesMessage(id) => MethodOf(f) = "propagated"
  BY DEF OneMethod, CarriesMessage
<1>2. CASE SendPacket(id, l, f) /\ Says(id, {"sent"})
  BY <1>1, <1>2, SayingStep DEF SendPacket, TypeOK, ReportTypeOK
<1>3. CASE NewResource(id, f) /\ Says(id, {})
  BY <1>3, SayingStep DEF NewResource, TypeOK, ReportTypeOK
<1>4. CASE NothingSent(f) /\ Says(id, {})
  BY <1>4, SayingStep DEF NothingSent
<1> QED
  BY <1>2, <1>3, <1>4

LEMMA AttemptHistory ==
  ASSUME TypeOK, NEW f \in Entry,
         AttemptOpportunistic(f) \/ AttemptDirect(f) \/ AttemptPropagated(f)
  PROVE  HistoryStep
<1>1. This(f) \in Attempt /\ This(f)[1] = f /\ UNCHANGED untold
  BY TryingType
     DEF AttemptOpportunistic, AttemptDirect, AttemptPropagated, This, Postpone, reportVars
<1>2. CASE UNCHANGED reportVars
  BY <1>2, QuietHistory
<1>3. CASE AttemptOpportunistic(f) /\ ~UNCHANGED reportVars
  <2>1. CASE SendOverLink(This(f), directLinks[DestOf[MsgOf(f)]], {"sent"})
    BY <1>1, <1>3, <2>1, SendOverLinkHistory DEF AttemptOpportunistic
  <2>2. CASE /\ handed' = handed \cup {This(f)} /\ UNCHANGED transfer
             /\ Report(MsgOf(f), {"sent"})
    <3>1. Says(This(f), {"sent"})
      BY <1>1, <2>2, ReportSays
    <3> QED
      BY <1>1, <2>2, <3>1, SayingStep
  <2> QED
    BY <1>3, <2>1, <2>2 DEF AttemptOpportunistic, Postpone
<1>4. CASE AttemptDirect(f) /\ ~UNCHANGED reportVars
  BY <1>1, <1>4, SendOverLinkHistory DEF AttemptDirect, Postpone
<1>5. CASE AttemptPropagated(f) /\ ~UNCHANGED reportVars
  <2>1. CASE Report(MsgOf(f), {"failed"}) /\ UNCHANGED <<transfer, handed>>
    BY <1>1, <2>1, WordHistory
  <2>2. CASE SendPacket(This(f), propagationLink, f) /\ Report(MsgOf(f), {"sent"})
    <3>1. Says(This(f), {"sent"})
      BY <1>1, <2>2, ReportSays
    <3> QED
      BY <1>1, <1>5, <2>2, <3>1, SendPropagatedHistory DEF AttemptPropagated
  <2>3. CASE (NewResource(This(f), f) \/ NothingSent(f)) /\ UNCHANGED reported
    <3>1. Says(This(f), {})
      BY <1>1, <2>3, QuietSays
    <3> QED
      BY <1>1, <1>5, <2>3, <3>1, SendPropagatedHistory DEF AttemptPropagated
  <2> QED
    BY <1>5, <2>1, <2>2, <2>3 DEF AttemptPropagated, Postpone
<1> QED
  BY <1>2, <1>3, <1>4, <1>5

\* What concludes a transfer speaks of a message that RNS took.
LEMMA ConcludedHistory ==
  ASSUME TypeOK, TransfersHanded, NEW id \in Attempt,
         DirectConcluded(id) \/ PropagatedConcluded(id)
  PROVE  HistoryStep
<1>1. /\ UNCHANGED handed
      /\ \A k \in Attempt : transfer'[k] # "none" => transfer[k] # "none"
  BY DEF DirectConcluded, PropagatedConcluded, TypeOK, ReportTypeOK
<1>2. CarriesMessage(id) => id \in handed
  BY DEF DirectConcluded, PropagatedConcluded, TransfersHanded
<1>3. CASE DirectConcluded(id)
  <2>1. PICK s \in {"delivered", "failed"} : Report(MsgOf(id[1]), {s})
    BY <1>3 DEF DirectConcluded
  <2>2. Says(id, {s}) /\ MethodOf(id[1]) # "propagated"
    BY <1>3, <2>1, ReportSays DEF DirectConcluded
  <2> QED
    BY <1>1, <1>2, <2>2, SayingStep DEF CarriesMessage
<1>4. CASE PropagatedConcluded(id)
  <2>1. PICK s \in Conclusive : Owe(id, s)
    BY <1>4 DEF PropagatedConcluded
  <2>2. Says(id, {s}) /\ s # "delivered"
    BY <1>4, <2>1, OweSays DEF PropagatedConcluded, Conclusive
  <2> QED
    BY <1>1, <1>2, <2>2, SayingStep DEF CarriesMessage
<1> QED
  BY <1>3, <1>4

LEMMA EveryHistory ==
  ASSUME TypeOK, FoundIsQueued, LinksHaveMethod, TransfersHanded, [Next]_vars
  PROVE  HistoryStep
<1>1. CASE UNCHANGED reportVars
  BY <1>1, QuietHistory
<1>2. ASSUME NEW f \in Entry, Send(f) \/ GiveUp(f) PROVE HistoryStep
  BY <1>2, WordHistory DEF Send, GiveUp
<1>3. ASSUME NEW f \in Entry,
             AttemptOpportunistic(f) \/ AttemptDirect(f) \/ AttemptPropagated(f)
      PROVE  HistoryStep
  BY <1>3, AttemptHistory
<1>4. ASSUME NEW l \in Attempt, DirectEstablished(l) PROVE HistoryStep
  BY <1>4, SendOverLinkHistory DEF DirectEstablished
<1>5. ASSUME NEW l \in Attempt, PropagationSend(l) PROVE HistoryStep
  <2>1. /\ found[l] \in Entry /\ MsgOf(found[l]) = MsgOf(l[1])
        /\ MethodOf(l[1]) = "propagated" /\ UNCHANGED reported
    BY <1>5 DEF PropagationSend, FoundIsQueued, LinksHaveMethod, TypeOK, SendTypeOK
  <2>2. CASE SendPacket(l, l, found[l]) /\ Owe(l, "sent")
    <3>1. Says(l, {"sent"})
      BY <2>1, <2>2, OweSays
    <3> QED
      BY <2>1, <2>2, <3>1, SendPropagatedHistory
  <2>3. CASE (NewResource(l, found[l]) \/ NothingSent(found[l])) /\ UNCHANGED untold
    <3>1. Says(l, {})
      BY <2>1, <2>3, QuietSays
    <3> QED
      BY <2>1, <2>3, <3>1, SendPropagatedHistory
  <2> QED
    BY <1>5, <2>2, <2>3 DEF PropagationSend
<1>6. ASSUME NEW id \in Attempt, DirectConcluded(id) \/ PropagatedConcluded(id)
      PROVE  HistoryStep
  BY <1>6, ConcludedHistory
<1>7. ASSUME NEW id \in Attempt, ResourceStarted(id) PROVE HistoryStep
  <2>1. id[1] \in Entry
    OBVIOUS
  <2> QED
    BY <1>7, <2>1, WordHistory DEF ResourceStarted
<1>8. ASSUME NEW id \in Attempt, Tell(id) PROVE HistoryStep
  <2>1. Says(id, {})
    BY <1>8, TellSays
  <2> QED
    BY <1>8, <2>1, SayingStep DEF Tell
<1>9. CASE UNCHANGED vars
  BY <1>1, <1>9 DEF vars
<1>10. CASE \/ Tick \/ RemoveFinished \/ CleanInactiveLinks \/ LoopExit \/ Stop \/ Clock
            \/ \E e \in Entry : Sign(e)
            \/ \E n \in Node \cup {NoNode} : SetOutboundPropagationNode(n)
            \/ CancelPropagationNodeRequests
            \/ \E l \in Attempt : \/ LinkUp(l) \/ LinkDown(l) \/ DirectClosed(l)
                                  \/ PropagationEstablished(l) \/ PropagationClosed(l)
  <2>1. UNCHANGED reportVars
    BY <1>10 DEF Tick, RemoveFinished, CleanInactiveLinks, LoopExit, Stop, Clock, TimePasses,
       Sign, SetOutboundPropagationNode, CancelPropagationNodeRequests, LinkUp, LinkDown,
       DirectClosed, PropagationEstablished, PropagationClosed
  <2> QED
    BY <1>1, <2>1
<1> QED
  BY <1>2, <1>3, <1>4, <1>5, <1>6, <1>7, <1>8, <1>9, <1>10
     DEF Next, Caller, Loop, Attempting, Network

-----------------------------------------------------------------------------
(* What a step may do to the state of an entry that the loop decides.      *)

\* RNS is given nothing of an opportunistic message.
NothingGiven(e) ==
  MethodOf(e) = "opportunistic" =>
    \A id \in Attempt : id[1] = e => (id \in handed' <=> id \in handed)

\* The step is about something else.
Rests(e) ==
  /\ state'[e] = state[e] /\ attempts'[e] = attempts[e]
  /\ e \in batch' => e \in batch \/ state[e] \notin Completed
  /\ NothingGiven(e)

\* Send queues it.
IsQueued(e) ==
  /\ state[e] = "generating" /\ state'[e] = "outbound" /\ attempts'[e] = attempts[e]
  /\ NothingGiven(e)

\* The loop takes it from its snapshot, and abandons it
IsAbandoned(e) ==
  /\ e \in batch /\ e \notin batch'
  /\ attempts[e] = MaxDeliveryAttempts /\ attempts'[e] = attempts[e]
  /\ state'[e] = "failed" /\ NothingGiven(e)

\* or makes an attempt, which keeps it for later or gives it away.
IsTried(e) ==
  /\ e \in batch /\ e \notin batch'
  /\ attempts[e] < MaxDeliveryAttempts /\ attempts'[e] = attempts[e] + 1
  /\ \/ state'[e] \in {"outbound", "sending"} /\ NothingGiven(e)
     \/ /\ MethodOf(e) = "opportunistic" /\ state'[e] = "sent"
        /\ handed' = handed \/ handed' = handed \cup {This(e)}

StateMove(e) == Rests(e) \/ IsQueued(e) \/ IsAbandoned(e) \/ IsTried(e)

LEMMA RestsMove ==
  ASSUME UNCHANGED <<state, attempts, batch, handed>>, NEW e \in Entry
  PROVE  StateMove(e)
BY DEF StateMove, Rests, NothingGiven

LEMMA SendOverLinkGives ==
  ASSUME NEW id, NEW l, NEW also, SendOverLink(id, l, also)
  PROVE  handed' = handed \/ handed' = handed \cup {id}
BY DEF SendOverLink

LEMMA SendPropagatedGives ==
  ASSUME NEW id, NEW l, NEW f,
         SendPacket(id, l, f) \/ NewResource(id, f) \/ NothingSent(f)
  PROVE  handed' = handed \/ handed' = handed \cup {id}
BY DEF SendPacket, NewResource, NothingSent

\* What is done to another entry, for an attempt of another, does not touch this one.
LEMMA ApartMove ==
  ASSUME TypeOK, NEW e \in Entry, NEW id \in Attempt, id[1] # e,
         NEW f \in Entry, f # e, UNCHANGED state \/ \E s : Set(f, s),
         handed' = handed \/ handed' = handed \cup {id}
  PROVE  state'[e] = state[e] /\ NothingGiven(e)
BY DEF Set, TypeOK, EntryTypeOK, NothingGiven

LEMMA TryingMove ==
  ASSUME TypeOK, NEW e \in Entry, LoopDecides(e), NEW f \in Entry,
         AttemptOpportunistic(f) \/ AttemptDirect(f) \/ AttemptPropagated(f)
  PROVE  StateMove(e)
<1>1. /\ This(f) \in Attempt /\ This(f)[1] = f /\ Trying(f)
      /\ batch' = batch \ {f} /\ f \in batch
  BY TryingType DEF AttemptOpportunistic, AttemptDirect, AttemptPropagated, This, Trying, Taking
<1>2. CASE f # e
  <2>2. attempts'[e] = attempts[e] /\ (e \in batch' => e \in batch)
    BY <1>1, <1>2 DEF Trying, TypeOK, EntryTypeOK
  <2>3. state'[e] = state[e] /\ NothingGiven(e)
    <3>1. (\E s : Set(f, s)) /\ (handed' = handed \/ handed' = handed \cup {This(f)})
      <4>1. CASE AttemptOpportunistic(f)
        BY <4>1, SendOverLinkGives DEF AttemptOpportunistic, Postpone, WaitFor, reportVars
      <4>2. CASE AttemptDirect(f)
        BY <4>2, SendOverLinkGives DEF AttemptDirect, Postpone, WaitFor, reportVars
      <4>3. CASE AttemptPropagated(f)
        BY <4>3, SendPropagatedGives DEF AttemptPropagated, SendPacket, NothingSent, Postpone,
           WaitFor, reportVars
      <4> QED
        BY <4>1, <4>2, <4>3
    <3> QED
      BY <1>1, <1>2, <3>1, ApartMove
  <2> QED
    BY <2>2, <2>3 DEF StateMove, Rests
<1>3. CASE f = e
  <2>1. /\ e \in batch /\ e \notin batch'
        /\ attempts[e] < MaxDeliveryAttempts /\ attempts'[e] = attempts[e] + 1
    BY <1>1, <1>3 DEF Trying, TypeOK, EntryTypeOK
  <2>2. \A s : Set(e, s) => state'[e] = s
    BY DEF Set, TypeOK, EntryTypeOK
  <2>3. CASE Postpone(e)
    <3>1. state'[e] = "outbound" /\ handed' = handed
      BY <2>2, <2>3 DEF Postpone, WaitFor, reportVars
    <3> QED
      BY <2>1, <3>1 DEF StateMove, IsTried, NothingGiven
  <2>4. CASE AttemptOpportunistic(e) /\ ~Postpone(e)
    <3>1. /\ MethodOf(e) = "opportunistic" /\ Set(e, "sent")
          /\ handed' = handed \/ handed' = handed \cup {This(e)}
      BY <2>4, SendOverLinkGives DEF AttemptOpportunistic
    <3> QED
      BY <2>1, <2>2, <3>1 DEF StateMove, IsTried
  <2>5. CASE AttemptDirect(e) /\ ~Postpone(e)
    <3>1. MethodOf(e) = "direct" /\ Set(e, "sending")
      BY <2>5 DEF AttemptDirect
    <3> QED
      BY <2>1, <2>2, <3>1 DEF StateMove, IsTried, NothingGiven
  <2>6. ~AttemptPropagated(e)
    BY DEF AttemptPropagated, LoopDecides
  <2> QED
    BY <1>3, <2>3, <2>4, <2>5, <2>6
<1> QED
  BY <1>2, <1>3

LEMMA EveryMove ==
  ASSUME TypeOK, FoundIsQueued, LinksHaveMethod, [Next]_vars,
         NEW e \in Entry, LoopDecides(e)
  PROVE  StateMove(e)
<1>1. CASE UNCHANGED <<state, attempts, batch, handed>>
  BY <1>1, RestsMove
<1>2. ASSUME NEW f \in Entry, Send(f) PROVE StateMove(e)
  <2>1. attempts' = attempts /\ batch' = batch /\ handed' = handed
    BY <1>2 DEF Send, loopVars
  <2>2. \/ state'[e] = state[e]
        \/ state[e] = "generating" /\ state'[e] = "outbound"
    BY <1>2 DEF Send, Set, TypeOK, EntryTypeOK
  <2> QED
    BY <2>1, <2>2 DEF StateMove, Rests, IsQueued, NothingGiven
<1>3. CASE Tick
  <2>1. /\ UNCHANGED <<state, attempts, handed>>
        /\ e \in batch' => state[e] \notin Completed
    BY <1>3 DEF Tick, entryVars, reportVars
  <2> QED
    BY <2>1 DEF StateMove, Rests, NothingGiven
<1>4. ASSUME NEW f \in Entry, GiveUp(f) PROVE StateMove(e)
  <2>1. /\ attempts' = attempts /\ handed' = handed
        /\ f \in batch /\ batch' = batch \ {f} /\ attempts[f] = MaxDeliveryAttempts
        /\ state' = [state EXCEPT ![f] = "failed"]
    BY <1>4 DEF GiveUp, Taking, Set, TypeOK, EntryTypeOK
  <2>2. CASE f = e
    <3>1. state'[e] = "failed"
      BY <2>1, <2>2 DEF TypeOK, EntryTypeOK
    <3> QED
      BY <2>1, <2>2, <3>1 DEF StateMove, IsAbandoned, NothingGiven
  <2>3. CASE f # e
    BY <2>1, <2>3 DEF StateMove, Rests, NothingGiven, TypeOK, EntryTypeOK
  <2> QED
    BY <2>2, <2>3
<1>5. ASSUME NEW f \in Entry,
             AttemptOpportunistic(f) \/ AttemptDirect(f) \/ AttemptPropagated(f)
      PROVE  StateMove(e)
  BY <1>5, TryingMove
<1>6. ASSUME NEW l \in Attempt, DirectEstablished(l) PROVE StateMove(e)
  <2>1. /\ UNCHANGED <<state, attempts, batch>>
        /\ handed' = handed \/ handed' = handed \cup {l}
    BY <1>6, SendOverLinkGives DEF DirectEstablished, entryVars, loopVars
  <2>2. MethodOf(l[1]) # "opportunistic"
    BY <1>6 DEF DirectEstablished, Called, LinksHaveMethod
  <2> QED
    BY <2>1, <2>2 DEF StateMove, Rests, NothingGiven
<1>7. ASSUME NEW l \in Attempt, PropagationSend(l) PROVE StateMove(e)
  <2>1. /\ found[l] \in Entry /\ MsgOf(found[l]) = MsgOf(l[1])
        /\ MethodOf(l[1]) = "propagated" /\ UNCHANGED <<attempts, batch>>
    BY <1>7 DEF PropagationSend, FoundIsQueued, LinksHaveMethod, TypeOK, SendTypeOK, loopVars
  <2>2. l[1] # e /\ found[l] # e
    BY <2>1 DEF LoopDecides
  <2>3. /\ UNCHANGED state \/ \E s : Set(found[l], s)
        /\ handed' = handed \/ handed' = handed \cup {l}
    BY <1>7, SendPropagatedGives DEF PropagationSend, SendPacket, NothingSent, WaitFor
  <2>4. state'[e] = state[e] /\ NothingGiven(e)
    BY <2>1, <2>2, <2>3, ApartMove
  <2> QED
    BY <2>1, <2>4 DEF StateMove, Rests
<1>8. ASSUME NEW id \in Attempt, PropagatedConcluded(id) PROVE StateMove(e)
  <2>1. /\ UNCHANGED <<attempts, batch, handed>> /\ MethodOf(id[1]) = "propagated"
        /\ \E s : state' = Marked(id, s)
    BY <1>8 DEF PropagatedConcluded, loopVars
  <2>2. MsgOf(id[1]) # MsgOf(e)
    BY <2>1 DEF LoopDecides
  <2>3. state'[e] = state[e]
    BY <2>1, <2>2 DEF Marked, IsFirst
  <2> QED
    BY <2>1, <2>3 DEF StateMove, Rests, NothingGiven
<1>9. ASSUME NEW id \in Attempt, ResourceStarted(id) PROVE StateMove(e)
  <2> DEFINE f == IF found[id] = 0 THEN id[1] ELSE found[id]
  <2>1. /\ f \in Entry /\ MsgOf(f) = MsgOf(id[1]) /\ MethodOf(id[1]) = "propagated"
        /\ Set(f, "sending") /\ UNCHANGED <<attempts, batch, handed>>
    BY <1>9 DEF ResourceStarted, FoundIsQueued, LinksHaveMethod, TypeOK, SendTypeOK, loopVars
  <2>2. id[1] # e /\ f # e
    BY <2>1 DEF LoopDecides
  <2>3. state'[e] = state[e] /\ NothingGiven(e)
    <3> HIDE DEF f
    <3> QED
      BY <2>1, <2>2, ApartMove
  <2> QED
    BY <2>1, <2>3 DEF StateMove, Rests
<1>10. CASE UNCHANGED vars
  BY <1>1, <1>10 DEF vars, entryVars, loopVars, reportVars
<1>11. CASE \/ RemoveFinished \/ CleanInactiveLinks \/ LoopExit \/ Stop \/ Clock
            \/ \E f \in Entry : Sign(f)
            \/ \E n \in Node \cup {NoNode} : SetOutboundPropagationNode(n)
            \/ CancelPropagationNodeRequests
            \/ \E l \in Attempt : \/ LinkUp(l) \/ LinkDown(l) \/ DirectClosed(l)
                                  \/ PropagationEstablished(l) \/ PropagationClosed(l)
                                  \/ DirectConcluded(l) \/ Tell(l)
  <2>1. UNCHANGED <<state, attempts, batch, handed>>
    BY <1>11 DEF RemoveFinished, CleanInactiveLinks, LoopExit, Stop, Clock, TimePasses, Sign,
       SetOutboundPropagationNode, CancelPropagationNodeRequests, LinkUp, LinkDown,
       DirectClosed, PropagationEstablished, PropagationClosed, DirectConcluded, Tell,
       entryVars, loopVars, reportVars
  <2> QED
    BY <1>1, <2>1
<1> QED
  BY <1>2, <1>3, <1>4, <1>5, <1>6, <1>7, <1>8, <1>9, <1>10, <1>11
     DEF Next, Caller, Loop, Attempting, Network

-----------------------------------------------------------------------------
(* The promises.                                                           *)

\* Once a conclusion is reached the loop no longer holds the entry.
LEMMA FinishedRests ==
  ASSUME DeliveryInv, NEW e \in Entry, LoopDecides(e),
         state[e] \in Completed, StateMove(e)
  PROVE  Rests(e)
<1>1. e \notin batch
  BY DEF DeliveryInv, BatchUndecided
<1>2. state[e] # "generating"
  BY DEF Completed
<1> QED
  BY <1>1, <1>2 DEF StateMove, IsQueued, IsAbandoned, IsTried

LEMMA DeliveryInit == Init => DeliveryInv
<1> SUFFICES ASSUME Init PROVE DeliveryInv
  OBVIOUS
<1>1. TypeOK /\ ConcludedReported /\ FoundIsQueued /\ LinksHaveMethod
  BY IndInit, LinksInit DEF IndInv
<1>2. BatchUndecided /\ TransfersHanded /\ HandedIsSent
  BY DEF Init, BatchUndecided, TransfersHanded, HandedIsSent
<1>3. NeverGivenUpEarly /\ OpportunisticOnce
  BY DEF Init, NeverGivenUpEarly, OpportunisticOnce
<1>4. SentImpliesHanded
  <2>1. \A e \in Entry : \A s : s \notin Said(MsgOf(e))
    <3>1. \A e \in Entry : reported[MsgOf(e)] = {}
      BY <1>1, CallTypes DEF Init, TypeOK
    <3>2. \A id \in Attempt : untold[id] = {}
      BY DEF Init
    <3> QED
      BY <3>1, <3>2, SaidOf
  <2> QED
    BY <2>1 DEF SentImpliesHanded
<1> QED
  BY <1>1, <1>2, <1>3, <1>4 DEF DeliveryInv

LEMMA DeliveryStep ==
  ASSUME IndInv, DeliveryInv, [Next]_vars
  PROVE  DeliveryInv'
<1> USE DEF DeliveryInv
<1>1. TypeOK' /\ ConcludedReported' /\ FoundIsQueued' /\ LinksHaveMethod' /\ call' = call
  BY IndStep, LinksStep, EveryStep DEF IndInv, EntryStep
<1>2. /\ \A e \in Entry : /\ MsgOf(e)' = MsgOf(e) /\ MethodOf(e)' = MethodOf(e)
                           /\ LoopDecides(e)' = LoopDecides(e) /\ OneMethod(e)' = OneMethod(e)
      /\ \A id \in Attempt : CarriesMessage(id)' = CarriesMessage(id)
  <2>1. \A e \in Entry : /\ MsgOf(e)' = MsgOf(e) /\ MethodOf(e)' = MethodOf(e)
                         /\ LoopDecides(e)' = LoopDecides(e) /\ OneMethod(e)' = OneMethod(e)
    BY <1>1, SendsFixed
  <2> QED
    BY <2>1, AttemptsOf DEF CarriesMessage
<1>3. HistoryStep
  BY EveryHistory
<1>4. \A e \in Entry : LoopDecides(e) => StateMove(e)
  BY EveryMove
<1>5. TransfersHanded'
  BY <1>2, <1>3 DEF TransfersHanded, HistoryStep
<1>6. SentImpliesHanded'
  <2>1. handed' \subseteq Attempt
    BY <1>1 DEF TypeOK, ReportTypeOK
  <2>2. \A id \in handed' : /\ MsgOf(id[1])' = MsgOf(id[1])
                            /\ MethodOf(id[1])' = MethodOf(id[1])
    BY <1>2, <2>1, AttemptsOf
  <2>3. SUFFICES ASSUME NEW e \in Entry
                 PROVE  /\ /\ OneMethod(e) /\ MethodOf(e) # "opportunistic"
                           /\ WillSay(MsgOf(e), "sent")
                           => \E id \in handed' : MsgOf(id[1]) = MsgOf(e)
                        /\ WillSay(MsgOf(e), "delivered")
                           => \E id \in handed' : /\ MsgOf(id[1]) = MsgOf(e)
                                                  /\ MethodOf(id[1]) # "propagated"
    BY <1>1, <1>2, <2>2, WillSayIs DEF SentImpliesHanded
  <2> QED
    BY <1>3 DEF HistoryStep, SentImpliesHanded
<1>7. BatchUndecided'
  <2>1. SUFFICES ASSUME NEW e \in Entry, e \in batch', LoopDecides(e)
                 PROVE  state'[e] \notin Completed
    BY <1>1, <1>2 DEF BatchUndecided, TypeOK, LoopTypeOK, Completed
  <2>2. StateMove(e)
    BY <1>4, <2>1
  <2> QED
    BY <2>1, <2>2
       DEF StateMove, Rests, IsQueued, IsAbandoned, IsTried, BatchUndecided, Completed
<1>8. NeverGivenUpEarly'
  <2>1. SUFFICES ASSUME NEW e \in Entry, state'[e] = "failed", LoopDecides(e)
                 PROVE  attempts'[e] = MaxDeliveryAttempts
    BY <1>2 DEF NeverGivenUpEarly
  <2>2. StateMove(e)
    BY <1>4, <2>1
  <2> QED
    BY <2>1, <2>2
       DEF StateMove, Rests, IsQueued, IsAbandoned, IsTried, NeverGivenUpEarly
<1>9. \A e \in Entry :
        LoopDecides(e) /\ MethodOf(e) = "opportunistic" =>
          \/ NothingGiven(e) /\ state'[e] = state[e]
          \/ NothingGiven(e) /\ state[e] # "sent"
          \/ /\ state[e] # "sent" /\ state'[e] = "sent"
             /\ handed' = handed \/ handed' = handed \cup {This(e)}
  <2>1. SUFFICES ASSUME NEW e \in Entry, LoopDecides(e), MethodOf(e) = "opportunistic",
                        ~(NothingGiven(e) /\ state'[e] = state[e])
                 PROVE  /\ state[e] # "sent"
                        /\ \/ NothingGiven(e)
                           \/ /\ state'[e] = "sent"
                              /\ handed' = handed \/ handed' = handed \cup {This(e)}
    OBVIOUS
  <2>2. StateMove(e) /\ ~Rests(e)
    BY <1>4, <2>1 DEF Rests
  <2>3. state[e] # "sent"
    BY <2>1, <2>2, FinishedRests DEF Completed
  <2> QED
    BY <2>2, <2>3 DEF StateMove, IsQueued, IsAbandoned, IsTried
<1>10. HandedIsSent'
  <2>1. SUFFICES ASSUME NEW id \in Attempt, id \in handed', LoopDecides(id[1]),
                        MethodOf(id[1]) = "opportunistic"
                 PROVE  state'[id[1]] = "sent"
    BY <1>1, <1>2, AttemptsOf DEF HandedIsSent, TypeOK, ReportTypeOK
  <2>2. id[1] \in Entry
    OBVIOUS
  <2> QED
    BY <1>9, <2>1, <2>2 DEF NothingGiven, HandedIsSent
<1>11. OpportunisticOnce'
  <2>1. SUFFICES ASSUME NEW e \in Entry, MethodOf(e) = "opportunistic", LoopDecides(e),
                        NEW a \in 1..MaxDeliveryAttempts, NEW b \in 1..MaxDeliveryAttempts,
                        <<e, a>> \in handed', <<e, b>> \in handed'
                 PROVE  a = b
    BY <1>2 DEF OpportunisticOnce
  <2>2. CASE NothingGiven(e)
    BY <2>1, <2>2, AttemptsOf DEF NothingGiven, OpportunisticOnce
  <2>3. CASE /\ state[e] # "sent"
             /\ handed' = handed \/ handed' = handed \cup {This(e)}
    <3>1. <<e, a>> \notin handed /\ <<e, b>> \notin handed
      BY <2>1, <2>3 DEF HandedIsSent
    <3> QED
      BY <2>1, <2>3, <3>1 DEF This
  <2> QED
    BY <1>9, <2>1, <2>2, <2>3
<1> QED
  BY <1>1, <1>5, <1>6, <1>7, <1>8, <1>10, <1>11

\* The invariant the promises rest on holds of every behaviour: links belong to
\* attempts that open them, a conclusion takes its entry out of the loop's
\* snapshot, and what is in flight was taken by RNS.
THEOREM DeliveryInvariant == Spec => []DeliveryInv
<1>1. Init => IndInv /\ DeliveryInv
  BY IndInit, DeliveryInit
<1>2. IndInv /\ DeliveryInv /\ [Next]_vars => (IndInv /\ DeliveryInv)'
  BY IndStep, DeliveryStep
<1> QED
  BY <1>1, <1>2, PTL DEF Spec

\* "sent" is never reported of a direct or propagated message that RNS did not
\* take, nor "delivered" of one that RNS did not take for its recipient: not by
\* the loop, and not by a callback that comes late (router.go:608-697).
THEOREM SentIsTrue == Spec => []SentImpliesHanded
<1>1. DeliveryInv => SentImpliesHanded
  BY DEF DeliveryInv
<1> QED
  BY <1>1, DeliveryInvariant, PTL

\* processOutbound gives an opportunistic or direct message up only after
\* maxDeliveryAttempts attempts, whatever links come, go and call back.
THEOREM NotGivenUpEarly == Spec => []NeverGivenUpEarly
<1>1. DeliveryInv => NeverGivenUpEarly
  BY DEF DeliveryInv
<1> QED
  BY <1>1, DeliveryInvariant, PTL

\* An opportunistic message is given to RNS in one attempt only, over a direct
\* link or as a packet: the loop's snapshot is never stale for it.
THEOREM OpportunisticGivenOnce == Spec => []OpportunisticOnce
<1>1. DeliveryInv => OpportunisticOnce
  BY DEF DeliveryInv
<1> QED
  BY <1>1, DeliveryInvariant, PTL

\* A conclusion stands: no retry, callback or timeout takes an opportunistic or
\* direct entry out of a terminal state.
THEOREM ConclusionsStand == Spec => ConcludedStable
<1>1. ASSUME DeliveryInv, [Next]_vars
      PROVE  [\A e \in Entry :
                LoopDecides(e) /\ Finished(e) => state'[e] = state[e]]_vars
  <2>1. SUFFICES ASSUME NEW e \in Entry, LoopDecides(e), Finished(e)
                 PROVE  state'[e] = state[e]
    OBVIOUS
  <2>2. state[e] \in Completed
    BY <2>1 DEF Finished, Completed
  <2>3. StateMove(e)
    BY <1>1, <2>1, EveryMove DEF DeliveryInv
  <2> QED
    BY <1>1, <2>1, <2>2, <2>3, FinishedRests DEF Rests
<1> QED
  BY <1>1, DeliveryInvariant, PTL DEF Spec, ConcludedStable

-----------------------------------------------------------------------------
(* The refinement of Delivery.                                             *)

\* A step leaves the class of a message as it is, and is a move of its fate.
LEMMA FateMoves ==
  ASSUME DeliveryInv, [Next]_vars, NEW e \in Entry
  PROVE  /\ ClassOf(e)' = ClassOf(e)
         /\ Life!Stays(e) \/ Life!Submit(e) \/ Life!Retry(e) \/ Life!Give(e) \/ Life!Abandon(e)
<1> DEFINE Took == {a \in 1..MaxDeliveryAttempts : <<e, a>> \in handed}
<1> USE DEF DeliveryInv
<1>1. ClassOf(e)' = ClassOf(e)
  BY CallFixed, SendsFixed DEF ClassOf
<1>2. CASE ClassOf(e) = "other"
  BY <1>1, <1>2 DEF Life!Stays
<1>3. CASE ClassOf(e) # "other"
  <2>1. /\ LoopDecides(e)
        /\ ClassOf(e) = "best effort" <=> MethodOf(e) = "opportunistic"
    BY <1>3, CallTypes DEF ClassOf, LoopDecides, TypeOK, Method
  <2>2. StateMove(e)
    BY <2>1, EveryMove
  <2>3. e \in batch => state[e] \in {"outbound", "sending"}
    <3>1. e \in batch => state[e] \notin Completed /\ e \in queue
      BY <2>1 DEF BatchUndecided, TypeOK, LoopTypeOK
    <3>2. state[e] \in State
      BY DEF TypeOK, EntryTypeOK
    <3> QED
      BY <3>1, <3>2 DEF ConcludedReported, Completed, State
  <2>4. NothingGiven(e) /\ ClassOf(e) = "best effort" => Took' = Took
    BY <2>1, AttemptsOf DEF NothingGiven
  <2>5. CASE Rests(e)
    <3>1. StageOf(e)' = StageOf(e)
      BY <2>5 DEF Rests, StageOf
    <3> QED
      BY <1>1, <1>3, <2>4, <2>5, <3>1 DEF Rests, Life!Stays
  <2>6. CASE IsQueued(e)
    <3>1. StageOf(e) = "unsent" /\ StageOf(e)' = "waiting"
      BY <2>6 DEF IsQueued, StageOf
    <3> QED
      BY <1>1, <1>3, <2>4, <2>6, <3>1 DEF IsQueued, Life!Submit
  <2>7. CASE IsAbandoned(e)
    <3>1. StageOf(e) = "waiting" /\ StageOf(e)' = "abandoned"
      BY <2>3, <2>7 DEF IsAbandoned, StageOf
    <3> QED
      BY <1>1, <1>3, <2>4, <2>7, <3>1 DEF IsAbandoned, Life!Abandon
  <2>8. CASE IsTried(e) /\ state'[e] \in {"outbound", "sending"} /\ NothingGiven(e)
    <3>1. StageOf(e) = "waiting" /\ StageOf(e)' = "waiting"
      BY <2>3, <2>8 DEF IsTried, StageOf
    <3> QED
      BY <1>1, <1>3, <2>4, <2>8, <3>1 DEF IsTried, Life!Retry, Life!Attempt
  <2>9. CASE /\ IsTried(e) /\ MethodOf(e) = "opportunistic" /\ state'[e] = "sent"
             /\ handed' = handed \/ handed' = handed \cup {This(e)}
    <3>1. StageOf(e) = "waiting" /\ StageOf(e)' = "given"
      BY <2>3, <2>9 DEF IsTried, StageOf
    <3>2. Took = {}
      BY <2>1, <2>3, <2>9 DEF IsTried, HandedIsSent
    <3>3. Took' \subseteq {attempts'[e]}
      BY <2>9, <3>2 DEF IsTried, This
    <3> QED
      BY <1>1, <2>1, <2>9, <3>1, <3>3 DEF IsTried, Life!Give, Life!Attempt
  <2> QED
    BY <2>2, <2>5, <2>6, <2>7, <2>8, <2>9 DEF StateMove, IsTried
<1> QED
  BY <1>1, <1>2, <1>3

LEMMA FateInit == Init => Life!Init
<1> SUFFICES ASSUME Init PROVE Life!Init
  OBVIOUS
<1>1. TypeOK
  BY TypeInit
<1>2. \A e \in Entry : ClassOf(e) \in Life!Class
  BY <1>1, CallTypes DEF ClassOf, LoopDecides, Life!Class, TypeOK, Method
<1>3. \A e \in Entry : StageOf(e) = "unsent" /\ attempts[e] = 0
  BY DEF Init, StageOf
<1>4. handed = {}
  BY DEF Init
<1> QED
  BY <1>2, <1>3, <1>4 DEF Life!Init

LEMMA FateStep == DeliveryInv /\ [Next]_vars => Life!Next
<1> SUFFICES ASSUME DeliveryInv, [Next]_vars PROVE Life!Next
  OBVIOUS
<1>1. \A e \in Entry : ClassOf(e)' = ClassOf(e)
  BY FateMoves
<1>2. [e \in Entry |-> ClassOf(e)]' = [e \in Entry |-> ClassOf(e)]
  BY <1>1
<1> QED
  BY <1>2, FateMoves DEF Life!Next

\* Send, the loop and the callbacks implement the abstract delivery: a message
\* waits, is tried at most maxDeliveryAttempts times, and comes to rest for good,
\* given to the network once or abandoned when no attempt is left.
THEOREM SendImplementsDelivery == Spec => ImplementsDelivery
<1>1. DeliveryInv /\ [Next]_vars => [Life!Next]_Life!vars
  BY FateStep
<1> QED
  BY <1>1, FateInit, DeliveryInvariant, PTL DEF Spec, ImplementsDelivery, Life!Spec
=============================================================================
