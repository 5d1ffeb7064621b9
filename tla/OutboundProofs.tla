--------------------------- MODULE OutboundProofs ---------------------------
(***************************************************************************)
(* Theorems about Outbound, for every number of calls, nodes, recipients   *)
(* and attempts.                                                           *)
(***************************************************************************)
EXTENDS Outbound, TLAPS

USE OutboundAssumption DEF Entry, Attempt, Offer

-----------------------------------------------------------------------------
(* What the helpers of the actions preserve.                               *)

LEMMA CallTypes ==
  ASSUME EntryTypeOK
  PROVE  \A e \in Entry : /\ MsgOf(e) \in Msg
                          /\ MethodOf(e) \in Method
                          /\ DestOf[MsgOf(e)] \in Dest
BY DEF EntryTypeOK, MsgOf, MethodOf, Method

LEMMA SetType ==
  ASSUME EntryTypeOK, NEW e \in Entry, NEW s \in State, Set(e, s)
  PROVE  state' \in [Entry -> State]
BY DEF EntryTypeOK, Set

LEMMA MarkedType ==
  ASSUME EntryTypeOK, NEW id \in Attempt, NEW s \in State
  PROVE  Marked(id, s) \in [Entry -> State]
BY DEF EntryTypeOK, Marked

LEMMA WaitForType ==
  ASSUME EntryTypeOK, NEW e \in Entry, WaitFor(e)
  PROVE  /\ state' \in [Entry -> State]
         /\ due' \in [Entry -> BOOLEAN]
BY DEF EntryTypeOK, WaitFor, Set, State

LEMMA ReportType ==
  ASSUME ReportTypeOK, NEW e \in Entry, EntryTypeOK, NEW S \in SUBSET State,
         Report(MsgOf(e), S)
  PROVE  reported' \in [Msg -> SUBSET State]
BY CallTypes DEF ReportTypeOK, Report

LEMMA TearDownType ==
  ASSUME LinkTypeOK, NEW L \in SUBSET Attempt, TearDown(L),
         UNCHANGED nodeOf, directLinks' \in [Dest -> Attempt \cup {NoLink}]
  PROVE  LinkTypeOK'
<1>1. status' \in [Attempt -> {"none", "pending", "active", "closed"}]
  BY DEF LinkTypeOK, TearDown
<1>2. callbacks' \subseteq Attempt \X {"established", "closed"}
  BY DEF LinkTypeOK, TearDown
<1> QED
  BY <1>1, <1>2 DEF LinkTypeOK

LEMMA OpenLinkType ==
  ASSUME LinkTypeOK, NEW l \in Attempt, NEW n \in Node \cup {NoNode},
         OpenLink(l, n)
  PROVE  LinkTypeOK'
BY DEF LinkTypeOK, OpenLink

LEMMA SendOverLinkType ==
  ASSUME EntryTypeOK, ReportTypeOK, NEW id \in Attempt, NEW l,
         NEW also \in SUBSET State, SendOverLink(id, l, also), UNCHANGED untold
  PROVE  ReportTypeOK'
<1>1. id[1] \in Entry
  OBVIOUS
<1>2. {"sent"} \cup also \in SUBSET State /\ {"failed"} \cup also \in SUBSET State
  BY DEF State
<1>3. reported' \in [Msg -> SUBSET State]
  BY <1>1, <1>2, ReportType DEF SendOverLink
<1>4. /\ handed' \subseteq Attempt
      /\ transfer' \in [Attempt -> {"none", "packet", "resource"}]
  BY DEF SendOverLink, ReportTypeOK
<1> QED
  BY <1>3, <1>4 DEF ReportTypeOK

LEMMA HoldType ==
  ASSUME EntryTypeOK, SendTypeOK, NEW id \in Attempt, NEW e \in Entry, Hold(id, e)
  PROVE  msgHash' \in [Attempt -> Hash]
<1>1. hash[MsgOf(e)] \in Hash
  BY CallTypes DEF EntryTypeOK
<1> QED
  BY <1>1 DEF SendTypeOK, Hold

\* sendPropagatedOverLink, in each of the three ways it ends.
LEMMA SendPropagatedType ==
  ASSUME EntryTypeOK, SendTypeOK, ReportTypeOK, NEW id \in Attempt, NEW l,
         NEW e \in Entry,
         \/ SendPacket(id, l, e)
         \/ NewResource(id, e) /\ (UNCHANGED state \/ Set(e, "sending"))
         \/ NothingSent(e)
  PROVE  /\ state' \in [Entry -> State] /\ due' \in [Entry -> BOOLEAN]
         /\ starting' \subseteq Attempt
         /\ transfer' \in [Attempt -> {"none", "packet", "resource"}]
         /\ handed' \subseteq Attempt
<1>1. "sent" \in State /\ "sending" \in State
  BY DEF State
<1>2. CASE SendPacket(id, l, e)
  <2>1. state' \in [Entry -> State]
    BY <1>1, <1>2, SetType DEF SendPacket
  <2> QED
    BY <1>2, <2>1 DEF SendPacket, EntryTypeOK, SendTypeOK, ReportTypeOK
<1>3. CASE NewResource(id, e) /\ (UNCHANGED state \/ Set(e, "sending"))
  <2>1. state' \in [Entry -> State]
    BY <1>1, <1>3, SetType DEF EntryTypeOK
  <2> QED
    BY <1>3, <2>1 DEF NewResource, EntryTypeOK, SendTypeOK, ReportTypeOK
<1>4. CASE NothingSent(e)
  BY <1>4, WaitForType DEF NothingSent, SendTypeOK, ReportTypeOK
<1> QED
  BY <1>2, <1>3, <1>4

-----------------------------------------------------------------------------
LEMMA TypeInit == Init => TypeOK
<1> SUFFICES ASSUME Init PROVE TypeOK
  OBVIOUS
<1>1. EntryTypeOK
  BY DEF Init, EntryTypeOK, State, Hash
<1>2. LoopTypeOK /\ LinkTypeOK /\ NodeTypeOK
  BY DEF Init, LoopTypeOK, LinkTypeOK, NodeTypeOK
<1>4. SendTypeOK
  BY DEF Init, SendTypeOK, Hash
<1>3. ReportTypeOK
  BY DEF Init, ReportTypeOK
<1> QED
  BY <1>1, <1>2, <1>3, <1>4 DEF TypeOK

\* Trying and Taking leave the typing of everything but the entry's state,
\* its NextAttempt and what the attempt itself does as it was.
LEMMA TryingType ==
  ASSUME TypeOK, NEW e \in Entry, Trying(e)
  PROVE  /\ call' \in [Entry -> Offer] /\ hash' \in [Msg -> Hash]
         /\ attempts' \in [Entry -> 0..MaxDeliveryAttempts]
         /\ LoopTypeOK'
         /\ This(e) \in Attempt
BY DEF TypeOK, EntryTypeOK, LoopTypeOK, Trying, Taking, This

LEMMA PostponeType ==
  ASSUME TypeOK, NEW e \in Entry, Postpone(e)
  PROVE  /\ state' \in [Entry -> State] /\ due' \in [Entry -> BOOLEAN]
         /\ LinkTypeOK' /\ ReportTypeOK'
BY WaitForType
   DEF TypeOK, Postpone, LinkTypeOK, ReportTypeOK, linkVars, reportVars

LEMMA AttemptType ==
  ASSUME TypeOK, NEW e \in Entry,
         AttemptOpportunistic(e) \/ AttemptDirect(e) \/ AttemptPropagated(e)
  PROVE  TypeOK'
<1>1. Trying(e) /\ UNCHANGED <<nodeVars, untold>>
  BY DEF AttemptOpportunistic, AttemptDirect, AttemptPropagated, Postpone, reportVars
<1>2. NodeTypeOK'
  BY <1>1 DEF TypeOK, NodeTypeOK, nodeVars
<1>3. /\ {"sent"} \in SUBSET State /\ {"failed"} \in SUBSET State
      /\ {} \in SUBSET State /\ {"sent", "sending", "failed"} \subseteq State
  BY DEF State
<1>4. SUFFICES /\ state' \in [Entry -> State] /\ due' \in [Entry -> BOOLEAN]
               /\ LinkTypeOK' /\ SendTypeOK' /\ ReportTypeOK'
  BY <1>1, <1>2, TryingType DEF TypeOK, EntryTypeOK
<1>5. CASE Postpone(e) /\ UNCHANGED sendVars
  BY <1>5, PostponeType DEF TypeOK, SendTypeOK, sendVars
<1>6. CASE AttemptOpportunistic(e) /\ ~Postpone(e)
  <2>1. /\ Set(e, "sent") /\ UNCHANGED <<due, linkVars, sendVars>>
        /\ \/ SendOverLink(This(e), directLinks[DestOf[MsgOf(e)]], {"sent"})
           \/ /\ handed' = handed \cup {This(e)} /\ UNCHANGED transfer
              /\ Report(MsgOf(e), {"sent"})
    BY <1>6 DEF AttemptOpportunistic
  <2>2. /\ state' \in [Entry -> State] /\ due' \in [Entry -> BOOLEAN]
        /\ LinkTypeOK' /\ SendTypeOK'
    BY <2>1, <1>3, SetType
       DEF TypeOK, EntryTypeOK, LinkTypeOK, SendTypeOK, linkVars, sendVars
  <2>3. ReportTypeOK'
    <3>1. CASE SendOverLink(This(e), directLinks[DestOf[MsgOf(e)]], {"sent"})
      BY <3>1, <1>1, <1>3, TryingType, SendOverLinkType DEF TypeOK
    <3>2. CASE /\ handed' = handed \cup {This(e)} /\ UNCHANGED transfer
               /\ Report(MsgOf(e), {"sent"})
      BY <3>2, <1>1, <1>3, TryingType, ReportType DEF TypeOK, ReportTypeOK
    <3> QED
      BY <2>1, <3>1, <3>2
  <2> QED
    BY <2>2, <2>3
<1>7. CASE AttemptDirect(e) /\ ~Postpone(e)
  <2>1. /\ Set(e, "sending") /\ UNCHANGED <<due, sendVars>>
        /\ \/ /\ SendOverLink(This(e), directLinks[DestOf[MsgOf(e)]], {})
              /\ UNCHANGED linkVars
           \/ OpenLink(This(e), NoNode) /\ UNCHANGED reportVars
    BY <1>7 DEF AttemptDirect
  <2>2. state' \in [Entry -> State] /\ due' \in [Entry -> BOOLEAN] /\ SendTypeOK'
    BY <2>1, <1>3, SetType DEF TypeOK, EntryTypeOK, SendTypeOK, sendVars
  <2>3. CASE /\ SendOverLink(This(e), directLinks[DestOf[MsgOf(e)]], {})
             /\ UNCHANGED linkVars
    <3>1. ReportTypeOK'
      BY <2>3, <1>1, <1>3, TryingType, SendOverLinkType DEF TypeOK
    <3> QED
      BY <2>2, <2>3, <3>1 DEF TypeOK, LinkTypeOK, linkVars
  <2>4. CASE OpenLink(This(e), NoNode) /\ UNCHANGED reportVars
    <3>1. LinkTypeOK'
      BY <2>4, <1>1, TryingType, OpenLinkType DEF TypeOK
    <3> QED
      BY <2>2, <2>4, <3>1 DEF TypeOK, ReportTypeOK, reportVars
  <2> QED
    BY <2>1, <2>3, <2>4
<1>8. CASE AttemptPropagated(e) /\ ~(Postpone(e) /\ UNCHANGED sendVars)
  <2>1. CASE /\ Set(e, "failed") /\ Report(MsgOf(e), {"failed"})
             /\ UNCHANGED <<due, linkVars, sendVars, transfer, handed>>
    <3>1. state' \in [Entry -> State] /\ reported' \in [Msg -> SUBSET State]
      BY <2>1, <1>3, SetType, ReportType DEF TypeOK
    <3> QED
      BY <1>1, <2>1, <3>1 DEF TypeOK, EntryTypeOK, LinkTypeOK, SendTypeOK, ReportTypeOK,
         linkVars, sendVars
  <2>2. CASE /\ Hold(This(e), e)
             /\ \/ SendPacket(This(e), propagationLink, e) /\ Report(MsgOf(e), {"sent"})
                \/ NewResource(This(e), e) /\ Set(e, "sending") /\ UNCHANGED reported
                \/ NothingSent(e) /\ UNCHANGED reported
             /\ UNCHANGED <<linkVars, found>>
    <3>1. /\ state' \in [Entry -> State] /\ due' \in [Entry -> BOOLEAN]
          /\ starting' \subseteq Attempt
          /\ transfer' \in [Attempt -> {"none", "packet", "resource"}]
          /\ handed' \subseteq Attempt
      BY <2>2, <1>1, TryingType, SendPropagatedType DEF TypeOK
    <3>2. msgHash' \in [Attempt -> Hash]
      BY <2>2, <1>1, TryingType, HoldType DEF TypeOK
    <3>3. reported' \in [Msg -> SUBSET State]
      BY <2>2, <1>3, ReportType DEF TypeOK, ReportTypeOK
    <3> QED
      BY <1>1, <2>2, <3>1, <3>2, <3>3
         DEF TypeOK, LinkTypeOK, SendTypeOK, ReportTypeOK, linkVars
  <2>3. CASE /\ OpenLink(This(e), propagationNode) /\ Hold(This(e), e)
             /\ Set(e, "sending") /\ UNCHANGED <<due, found, starting, reportVars>>
    <3>1. LinkTypeOK'
      BY <2>3, <1>1, TryingType, OpenLinkType DEF TypeOK, NodeTypeOK
    <3>2. msgHash' \in [Attempt -> Hash]
      BY <2>3, <1>1, TryingType, HoldType DEF TypeOK
    <3> QED
      BY <2>3, <3>1, <3>2, <1>3, SetType
         DEF TypeOK, EntryTypeOK, SendTypeOK, ReportTypeOK, reportVars
  <2> QED
    BY <1>8, <2>1, <2>2, <2>3 DEF AttemptPropagated
<1>9. AttemptOpportunistic(e) \/ AttemptDirect(e) => UNCHANGED sendVars
  BY DEF AttemptOpportunistic, AttemptDirect
<1> QED
  BY <1>5, <1>6, <1>7, <1>8, <1>9

LEMMA TypeStep ==
  ASSUME TypeOK, [Next]_vars
  PROVE  TypeOK'
<1> USE DEF TypeOK, entryVars, loopVars, linkVars, nodeVars, sendVars, reportVars
<1>1. CASE UNCHANGED vars
  BY <1>1 DEF vars, EntryTypeOK, LoopTypeOK, LinkTypeOK, NodeTypeOK, SendTypeOK,
     ReportTypeOK
<1>2. ASSUME NEW e \in Entry, Send(e) PROVE TypeOK'
  <2>1. state' \in [Entry -> State] /\ reported' \in [Msg -> SUBSET State]
    <3>1. "outbound" \in State /\ {"outbound"} \in SUBSET State
      BY DEF State
    <3> QED
      BY <1>2, <3>1, SetType, ReportType DEF Send
  <2>2. EntryTypeOK' /\ LoopTypeOK'
    BY <1>2, <2>1 DEF Send, EntryTypeOK, LoopTypeOK
  <2>3. LinkTypeOK' /\ NodeTypeOK' /\ SendTypeOK' /\ ReportTypeOK'
    BY <1>2, <2>1 DEF Send, LinkTypeOK, NodeTypeOK, SendTypeOK, ReportTypeOK
  <2> QED
    BY <2>2, <2>3
<1>3. ASSUME NEW e \in Entry, TimePasses(e) \/ Sign(e) PROVE TypeOK'
  <2>1. EntryTypeOK'
    BY <1>3, CallTypes DEF TimePasses, Sign, EntryTypeOK
  <2> QED
    BY <1>3, <2>1 DEF TimePasses, Sign, LoopTypeOK, LinkTypeOK, NodeTypeOK, SendTypeOK,
       ReportTypeOK
<1>4. CASE Tick \/ RemoveFinished \/ Stop \/ LoopExit
  <2>1. LoopTypeOK'
    BY <1>4 DEF Tick, RemoveFinished, Stop, LoopExit, LoopTypeOK
  <2>2. UNCHANGED <<entryVars, linkVars, nodeVars, sendVars, reportVars>>
    BY <1>4 DEF Tick, RemoveFinished, Stop, LoopExit
  <2> QED
    BY <2>1, <2>2 DEF EntryTypeOK, LinkTypeOK, NodeTypeOK, SendTypeOK, ReportTypeOK
<1>5. ASSUME NEW e \in Entry, GiveUp(e) PROVE TypeOK'
  <2>1. state' \in [Entry -> State] /\ reported' \in [Msg -> SUBSET State]
    <3>1. "failed" \in State /\ {"failed"} \in SUBSET State
      BY DEF State
    <3> QED
      BY <1>5, <3>1, SetType, ReportType DEF GiveUp
  <2>2. EntryTypeOK' /\ LoopTypeOK'
    BY <1>5, <2>1 DEF GiveUp, Taking, EntryTypeOK, LoopTypeOK
  <2>3. LinkTypeOK' /\ NodeTypeOK' /\ SendTypeOK' /\ ReportTypeOK'
    BY <1>5, <2>1 DEF GiveUp, LinkTypeOK, NodeTypeOK, SendTypeOK, ReportTypeOK
  <2> QED
    BY <2>2, <2>3
<1>6. ASSUME NEW e \in Entry,
             AttemptOpportunistic(e) \/ AttemptDirect(e) \/ AttemptPropagated(e)
      PROVE  TypeOK'
  BY <1>6, AttemptType
<1>7. CASE CleanInactiveLinks
  <2>1. PICK idle \in SUBSET Dest :
          LET stale == {d \in Dest : /\ directLinks[d] # NoLink
                                     /\ d \in idle \/ status[directLinks[d]] # "active"}
          IN  /\ TearDown({directLinks[d] : d \in stale})
              /\ directLinks' = [d \in Dest |-> IF d \in stale THEN NoLink
                                                ELSE directLinks[d]]
    BY <1>7 DEF CleanInactiveLinks
  <2> DEFINE stale == {d \in Dest : /\ directLinks[d] # NoLink
                                    /\ d \in idle \/ status[directLinks[d]] # "active"}
             torn  == {directLinks[d] : d \in stale}
  <2>2. TearDown(torn) /\ torn \in SUBSET Attempt
    BY <2>1 DEF LinkTypeOK
  <2>3. directLinks' \in [Dest -> Attempt \cup {NoLink}]
    BY <2>1 DEF LinkTypeOK
  <2>4. LinkTypeOK'
    <3> HIDE DEF torn
    <3> QED
      BY <1>7, <2>2, <2>3, TearDownType DEF CleanInactiveLinks
  <2> QED
    BY <1>7, <2>4 DEF CleanInactiveLinks, EntryTypeOK, LoopTypeOK, NodeTypeOK,
       SendTypeOK, ReportTypeOK
<1>8. ASSUME NEW l \in Attempt, LinkUp(l) \/ LinkDown(l) PROVE TypeOK'
  <2>1. LinkTypeOK'
    <3>1. CASE LinkUp(l)
      BY <3>1 DEF LinkUp, LinkTypeOK
    <3>2. CASE LinkDown(l)
      BY <3>2, TearDownType DEF LinkDown, LinkTypeOK
    <3> QED
      BY <1>8, <3>1, <3>2
  <2> QED
    BY <1>8, <2>1 DEF LinkUp, LinkDown, EntryTypeOK, LoopTypeOK, NodeTypeOK, SendTypeOK,
       ReportTypeOK
<1>9. ASSUME NEW l \in Attempt, DirectEstablished(l) PROVE TypeOK'
  <2>1. ReportTypeOK'
    <3>1. {} \in SUBSET State
      OBVIOUS
    <3> QED
      BY <1>9, <3>1, SendOverLinkType DEF DirectEstablished
  <2>2. LinkTypeOK'
    BY <1>9 DEF DirectEstablished, Called, LinkTypeOK
  <2> QED
    BY <1>9, <2>1, <2>2
       DEF DirectEstablished, EntryTypeOK, LoopTypeOK, NodeTypeOK, SendTypeOK
<1>10. ASSUME NEW l \in Attempt, DirectClosed(l) PROVE TypeOK'
  <2>1. LinkTypeOK'
    BY <1>10 DEF DirectClosed, Called, LinkTypeOK
  <2> QED
    BY <1>10, <2>1
       DEF DirectClosed, EntryTypeOK, LoopTypeOK, NodeTypeOK, SendTypeOK, ReportTypeOK
<1>11. ASSUME NEW l \in Attempt, PropagationEstablished(l) PROVE TypeOK'
  <2>1. NodeTypeOK' /\ SendTypeOK'
    BY <1>11 DEF PropagationEstablished, NodeTypeOK, SendTypeOK, LoopTypeOK
  <2>2. LinkTypeOK'
    BY <1>11 DEF PropagationEstablished, Called, LinkTypeOK
  <2> QED
    BY <1>11, <2>1, <2>2
       DEF PropagationEstablished, EntryTypeOK, LoopTypeOK, ReportTypeOK
<1>12. ASSUME NEW l \in Attempt, PropagationSend(l) PROVE TypeOK'
  <2>1. found[l] \in Entry
    BY <1>12 DEF PropagationSend, SendTypeOK
  <2>2. /\ state' \in [Entry -> State] /\ due' \in [Entry -> BOOLEAN]
        /\ starting' \subseteq Attempt
        /\ transfer' \in [Attempt -> {"none", "packet", "resource"}]
        /\ handed' \subseteq Attempt
    BY <1>12, <2>1, SendPropagatedType DEF PropagationSend
  <2>3. msgHash' \in [Attempt -> Hash]
    BY <1>12, <2>1, HoldType DEF PropagationSend
  <2>4. untold' \in [Attempt -> SUBSET Conclusive]
    BY <1>12 DEF PropagationSend, Owe, Conclusive, ReportTypeOK
  <2>5. EntryTypeOK' /\ SendTypeOK' /\ ReportTypeOK'
    BY <1>12, <2>2, <2>3, <2>4 DEF PropagationSend, EntryTypeOK, SendTypeOK, ReportTypeOK
  <2> QED
    BY <1>12, <2>5 DEF PropagationSend, LoopTypeOK, LinkTypeOK, NodeTypeOK
<1>13. ASSUME NEW l \in Attempt, PropagationClosed(l) PROVE TypeOK'
  <2>1. LinkTypeOK' /\ NodeTypeOK'
    BY <1>13 DEF PropagationClosed, Called, LinkTypeOK, NodeTypeOK
  <2> QED
    BY <1>13, <2>1
       DEF PropagationClosed, EntryTypeOK, LoopTypeOK, SendTypeOK, ReportTypeOK
<1>14. ASSUME NEW id \in Attempt, DirectConcluded(id) PROVE TypeOK'
  <2>1. reported' \in [Msg -> SUBSET State]
    <3>1. PICK s \in {"delivered", "failed"} : Report(MsgOf(id[1]), {s})
      BY <1>14 DEF DirectConcluded
    <3>2. {s} \in SUBSET State /\ id[1] \in Entry
      BY DEF State
    <3> QED
      BY <3>1, <3>2, ReportType
  <2> QED
    BY <1>14, <2>1 DEF DirectConcluded, EntryTypeOK, LoopTypeOK, LinkTypeOK, NodeTypeOK,
       SendTypeOK, ReportTypeOK
<1>15. ASSUME NEW id \in Attempt, PropagatedConcluded(id) PROVE TypeOK'
  <2>1. PICK s \in Conclusive : state' = Marked(id, s) /\ Owe(id, s)
    BY <1>15 DEF PropagatedConcluded
  <2>2. state' \in [Entry -> State]
    BY <2>1, MarkedType DEF Conclusive, State
  <2>3. ReportTypeOK'
    BY <1>15, <2>1 DEF PropagatedConcluded, Owe, ReportTypeOK
  <2> QED
    BY <1>15, <2>2, <2>3 DEF PropagatedConcluded, EntryTypeOK, LoopTypeOK, LinkTypeOK,
       NodeTypeOK, SendTypeOK
<1>16. ASSUME NEW id \in Attempt, Tell(id) PROVE TypeOK'
  <2>1. PICK s \in untold[id] : /\ untold' = [untold EXCEPT ![id] = @ \ {s}]
                                /\ Report(MsgOf(id[1]), {s})
    BY <1>16 DEF Tell
  <2>2. {s} \in SUBSET State /\ id[1] \in Entry
    BY DEF ReportTypeOK, Conclusive, State
  <2>3. reported' \in [Msg -> SUBSET State]
    BY <2>1, <2>2, ReportType
  <2>4. ReportTypeOK'
    BY <1>16, <2>1, <2>3 DEF Tell, ReportTypeOK
  <2> QED
    BY <1>16, <2>4
       DEF Tell, EntryTypeOK, LoopTypeOK, LinkTypeOK, NodeTypeOK, SendTypeOK
<1>17. ASSUME NEW id \in Attempt, ResourceStarted(id) PROVE TypeOK'
  <2>1. PICK e \in Entry : Set(e, "sending")
    BY <1>17 DEF ResourceStarted, SendTypeOK
  <2>2. state' \in [Entry -> State] /\ reported' \in [Msg -> SUBSET State]
    <3>1. "sending" \in State /\ {"sending"} \in SUBSET State /\ id[1] \in Entry
      BY DEF State
    <3> QED
      BY <1>17, <2>1, <3>1, SetType, ReportType DEF ResourceStarted
  <2>3. EntryTypeOK' /\ SendTypeOK' /\ ReportTypeOK'
    BY <1>17, <2>2 DEF ResourceStarted, EntryTypeOK, SendTypeOK, ReportTypeOK
  <2> QED
    BY <1>17, <2>3 DEF ResourceStarted, LoopTypeOK, LinkTypeOK, NodeTypeOK
<1>18. ASSUME \/ \E n \in Node \cup {NoNode} : SetOutboundPropagationNode(n)
              \/ CancelPropagationNodeRequests
       PROVE  TypeOK'
  <2>1. NodeTypeOK'
    BY <1>18 DEF SetOutboundPropagationNode, CancelPropagationNodeRequests, NodeTypeOK
  <2>2. LinkTypeOK'
    <3>1. \/ TearDown({propagationLink}) /\ propagationLink \in Attempt
          \/ UNCHANGED <<status, callbacks>>
      BY <1>18
         DEF SetOutboundPropagationNode, CancelPropagationNodeRequests, NodeTypeOK
    <3>2. UNCHANGED <<nodeOf, directLinks>>
      BY <1>18 DEF SetOutboundPropagationNode, CancelPropagationNodeRequests
    <3>3. {propagationLink} \in SUBSET Attempt \/ UNCHANGED <<status, callbacks>>
      BY <3>1
    <3>4. directLinks' \in [Dest -> Attempt \cup {NoLink}]
      BY <3>2 DEF LinkTypeOK
    <3>5. CASE UNCHANGED <<status, callbacks>>
      BY <3>2, <3>5 DEF LinkTypeOK
    <3> QED
      BY <3>1, <3>2, <3>3, <3>4, <3>5, TearDownType
  <2> QED
    BY <1>18, <2>1, <2>2
       DEF SetOutboundPropagationNode, CancelPropagationNodeRequests,
           EntryTypeOK, LoopTypeOK, SendTypeOK, ReportTypeOK
<1> QED
  BY <1>1, <1>2, <1>3, <1>4, <1>5, <1>6, <1>7, <1>8, <1>9, <1>10, <1>11, <1>12,
     <1>13, <1>14, <1>15, <1>16, <1>17, <1>18
     DEF Next, Caller, Loop, Attempting, Network, Clock

\* Every variable keeps its type, whatever the callers, the network and the
\* clock do: in particular no entry is attempted more than
\* MaxDeliveryAttempts times, and the loop's snapshot holds queued entries.
THEOREM TypeCorrect == Spec => []TypeOK
<1>1. Init => TypeOK
  BY TypeInit
<1>2. TypeOK /\ [Next]_vars => TypeOK'
  BY TypeStep
<1> QED
  BY <1>1, <1>2, PTL DEF Spec

-----------------------------------------------------------------------------
(* What a step may do to entry e: give it a state that is not final, or a  *)
(* final one that is reported, or about to be; bring it into the queue; or *)
(* drop it from the queue when it is finished.  Reports are never taken    *)
(* back.                                                                   *)

LEMMA SaidOf ==
  \A m, s : s \in Said(m) <=> \/ s \in reported[m]
                              \/ \E id \in Attempt : MsgOf(id[1]) = m /\ s \in untold[id]
BY DEF Said

WillSay(m, s) ==
  \/ s \in reported'[m]
  \/ \E id \in Attempt : MsgOf(id[1]) = m /\ s \in untold'[id]

LEMMA WillSayIs ==
  ASSUME UNCHANGED call
  PROVE  \A e \in Entry : \A s : WillSay(MsgOf(e), s) <=> s \in Said(MsgOf(e))'
BY DEF Said, WillSay, MsgOf

StateStep(e) ==
  \/ state'[e] = state[e]
  \/ state[e] # "generating" /\ state'[e] \in {"outbound", "sending"}
  \/ /\ state[e] # "generating"
     /\ state'[e] \in Conclusive /\ WillSay(MsgOf(e), state'[e])
  \/ state'[e] = "outbound" /\ e \in queue'

QueueStep(e) ==
  /\ e \in queue' => e \in queue \/ state'[e] = "outbound"
  /\ e \in queue => e \in queue' \/ (Finished(e) /\ state'[e] = state[e])

ReportsKept ==
  /\ \A m \in Msg : reported[m] \subseteq reported'[m]
  /\ \A id \in Attempt : untold[id] \subseteq untold'[id] \cup reported'[MsgOf(id[1])]

EntryStep == /\ call' = call /\ ReportsKept
             /\ \A e \in Entry : StateStep(e) /\ QueueStep(e)

\* What was said, or was about to be, stays so.
LEMMA SaidKept ==
  ASSUME TypeOK, UNCHANGED call, ReportsKept, NEW e \in Entry
  PROVE  Said(MsgOf(e)) \subseteq Said(MsgOf(e))'
<1> SUFFICES ASSUME NEW s \in Said(MsgOf(e)) PROVE WillSay(MsgOf(e), s)
  BY WillSayIs
<1>1. CASE s \in reported[MsgOf(e)]
  BY <1>1, CallTypes DEF TypeOK, ReportsKept, WillSay
<1>2. CASE \E id \in Attempt : MsgOf(id[1]) = MsgOf(e) /\ s \in untold[id]
  BY <1>2 DEF ReportsKept, WillSay
<1> QED
  BY <1>1, <1>2, SaidOf

LEMMA ReportKeeps ==
  ASSUME TypeOK, NEW e \in Entry, NEW S, Report(MsgOf(e), S), UNCHANGED untold
  PROVE  ReportsKept /\ S \subseteq reported'[MsgOf(e)]
BY CallTypes DEF TypeOK, ReportTypeOK, Report, ReportsKept

LEMMA OweKeeps ==
  ASSUME TypeOK, NEW id \in Attempt, NEW s, Owe(id, s), UNCHANGED reported
  PROVE  ReportsKept /\ WillSay(MsgOf(id[1]), s)
BY DEF TypeOK, ReportTypeOK, Owe, ReportsKept, WillSay

LEMMA QuietStep ==
  ASSUME TypeOK, UNCHANGED <<call, state, queue, reported, untold>>
  PROVE  EntryStep
BY DEF EntryStep, StateStep, QueueStep, ReportsKept

\* One queued entry gets a new state, and the queue stays as it is.
LEMMA OneEntryStep ==
  ASSUME TypeOK, UNCHANGED <<call, queue>>, ReportsKept,
         NEW e \in Entry, state[e] # "generating",
         \/ state'[e] \in {"outbound", "sending"}
         \/ state'[e] \in Conclusive /\ WillSay(MsgOf(e), state'[e]),
         \A f \in Entry \ {e} : state'[f] = state[f]
  PROVE  EntryStep
<1>1. \A f \in Entry : QueueStep(f)
  BY DEF QueueStep
<1>2. \A f \in Entry : StateStep(f)
  BY DEF StateStep
<1> QED
  BY <1>1, <1>2 DEF EntryStep

LEMMA SetStep ==
  ASSUME TypeOK, UNCHANGED <<call, queue>>, ReportsKept,
         NEW e \in Entry, state[e] # "generating",
         NEW s \in {"outbound", "sending", "sent", "failed"}, Set(e, s),
         s \in Conclusive => WillSay(MsgOf(e), s)
  PROVE  EntryStep
<1>1. state'[e] = s /\ \A f \in Entry \ {e} : state'[f] = state[f]
  BY DEF Set, TypeOK, EntryTypeOK
<1>2. \/ state'[e] \in {"outbound", "sending"}
      \/ state'[e] \in Conclusive /\ WillSay(MsgOf(e), state'[e])
  BY <1>1 DEF Conclusive
<1> QED
  BY <1>1, <1>2, OneEntryStep

LEMMA SendOverLinkKeeps ==
  ASSUME TypeOK, NEW id \in Attempt, NEW l, NEW also, SendOverLink(id, l, also),
         UNCHANGED untold
  PROVE  ReportsKept /\ also \subseteq reported'[MsgOf(id[1])]
<1>1. id[1] \in Entry
  OBVIOUS
<1>2. CASE Report(MsgOf(id[1]), {"sent"} \cup also)
  BY <1>1, <1>2, ReportKeeps
<1>3. CASE Report(MsgOf(id[1]), {"failed"} \cup also)
  BY <1>1, <1>3, ReportKeeps
<1> QED
  BY <1>2, <1>3 DEF SendOverLink

\* A mark goes to a queued entry of the message, and to no other.
LEMMA MarkedShape ==
  ASSUME TypeOK, NEW id \in Attempt, NEW s, NEW e \in Entry,
         Marked(id, s)[e] # state[e]
  PROVE  e \in queue /\ MsgOf(e) = MsgOf(id[1]) /\ Marked(id, s)[e] = s
BY DEF Marked, IsFirst

LEMMA EveryStep ==
  ASSUME IndInv, [Next]_vars
  PROVE  EntryStep
<1> USE DEF IndInv
<1>1. CASE UNCHANGED vars
  BY <1>1, QuietStep DEF vars, entryVars, loopVars, reportVars
<1>2. ASSUME NEW e \in Entry, Send(e) PROVE EntryStep
  <2>1. ReportsKept /\ state'[e] = "outbound" /\ e \in queue'
    BY <1>2, ReportKeeps DEF Send, Set, TypeOK, EntryTypeOK
  <2>2. \A f \in Entry \ {e} : state'[f] = state[f] /\ (f \in queue' <=> f \in queue)
    BY <1>2 DEF Send, Set, TypeOK, EntryTypeOK
  <2>3. \A f \in Entry : StateStep(f)
    BY <2>1, <2>2 DEF StateStep
  <2>4. \A f \in Entry : QueueStep(f)
    <3>1. QueueStep(e)
      <4>1. e \in queue => FALSE
        BY <1>2 DEF Send, ConcludedReported
      <4> QED
        BY <2>1, <4>1 DEF QueueStep
    <3>2. \A f \in Entry \ {e} : QueueStep(f)
      BY <2>2 DEF QueueStep
    <3> QED
      BY <3>1, <3>2
  <2> QED
    BY <1>2, <2>1, <2>3, <2>4 DEF EntryStep, Send
<1>3. ASSUME NEW e \in Entry, GiveUp(e) PROVE EntryStep
  <2>1. state[e] # "generating" /\ UNCHANGED <<call, queue>>
    BY <1>3 DEF GiveUp, Taking, TypeOK, LoopTypeOK, ConcludedReported
  <2>2. ReportsKept /\ WillSay(MsgOf(e), "failed")
    BY <1>3, ReportKeeps DEF GiveUp, WillSay
  <2> QED
    BY <1>3, <2>1, <2>2, SetStep DEF GiveUp
<1>4. ASSUME NEW e \in Entry,
             AttemptOpportunistic(e) \/ AttemptDirect(e) \/ AttemptPropagated(e)
      PROVE  EntryStep
  <2>1. Trying(e) /\ UNCHANGED untold
    BY <1>4 DEF AttemptOpportunistic, AttemptDirect, AttemptPropagated, Postpone, reportVars
  <2>2. /\ UNCHANGED <<call, queue>> /\ state[e] # "generating"
        /\ This(e) \in Attempt /\ This(e)[1] = e
    BY <2>1, TryingType
       DEF Trying, Taking, This, TypeOK, LoopTypeOK, ConcludedReported
  <2>3. UNCHANGED reported => ReportsKept
    BY <2>1 DEF ReportsKept
  <2>4. CASE WaitFor(e) /\ UNCHANGED reported
    BY <2>2, <2>3, <2>4, SetStep DEF WaitFor, Conclusive
  <2>5. CASE Set(e, "sending") /\ UNCHANGED reported
    BY <2>2, <2>3, <2>5, SetStep DEF Conclusive
  <2>6. ASSUME NEW s \in Conclusive, Set(e, s), Report(MsgOf(e), {s}) PROVE EntryStep
    <3>1. ReportsKept /\ WillSay(MsgOf(e), s)
      BY <2>1, <2>6, ReportKeeps DEF WillSay
    <3> QED
      BY <2>2, <2>6, <3>1, SetStep DEF Conclusive
  <2>7. CASE /\ Set(e, "sent")
             /\ SendOverLink(This(e), directLinks[DestOf[MsgOf(e)]], {"sent"})
    <3>1. {"sent"} \subseteq reported'[MsgOf(This(e)[1])] /\ ReportsKept
      BY <2>1, <2>2, <2>7, SendOverLinkKeeps
    <3>2. WillSay(MsgOf(e), "sent")
      BY <2>2, <3>1 DEF WillSay
    <3> QED
      BY <2>2, <2>7, <3>1, <3>2, SetStep
  <2>8. CASE /\ Set(e, "sending")
             /\ SendOverLink(This(e), directLinks[DestOf[MsgOf(e)]], {})
    <3>1. ReportsKept
      BY <2>1, <2>2, <2>8, SendOverLinkKeeps
    <3> QED
      BY <2>2, <2>8, <3>1, SetStep DEF Conclusive
  <2>9. CASE AttemptOpportunistic(e)
    BY <2>4, <2>6, <2>7, <2>9 DEF AttemptOpportunistic, Postpone, reportVars, Conclusive
  <2>10. CASE AttemptDirect(e)
    BY <2>4, <2>5, <2>8, <2>10 DEF AttemptDirect, Postpone, reportVars
  <2>11. CASE AttemptPropagated(e)
    BY <2>4, <2>5, <2>6, <2>11
       DEF AttemptPropagated, SendPacket, NothingSent, Postpone, reportVars, Conclusive
  <2> QED
    BY <1>4, <2>9, <2>10, <2>11
<1>5. CASE RemoveFinished
  <2>1. UNCHANGED <<call, state, reported, untold>>
    BY <1>5 DEF RemoveFinished, entryVars, reportVars
  <2>2. \A e \in Entry : StateStep(e) /\ QueueStep(e)
    BY <1>5, <2>1 DEF RemoveFinished, StateStep, QueueStep
  <2> QED
    BY <2>1, <2>2 DEF EntryStep, ReportsKept
<1>6. ASSUME \/ Tick \/ CleanInactiveLinks \/ Stop \/ LoopExit
             \/ \E e \in Entry : TimePasses(e) \/ Sign(e)
             \/ \E n \in Node \cup {NoNode} : SetOutboundPropagationNode(n)
             \/ CancelPropagationNodeRequests
             \/ \E l \in Attempt : \/ LinkUp(l) \/ LinkDown(l) \/ DirectClosed(l)
                                   \/ PropagationEstablished(l)
                                   \/ PropagationClosed(l)
      PROVE  EntryStep
  <2>1. UNCHANGED <<call, state, queue, reported, untold>>
    BY <1>6 DEF Tick, CleanInactiveLinks, Stop, LoopExit, TimePasses, Sign,
       SetOutboundPropagationNode, CancelPropagationNodeRequests, LinkUp, LinkDown,
       DirectClosed, PropagationEstablished, PropagationClosed,
       entryVars, loopVars, reportVars
  <2> QED
    BY <2>1, QuietStep
<1>7. ASSUME NEW l \in Attempt, DirectEstablished(l) \/ DirectConcluded(l) \/ Tell(l)
      PROVE  EntryStep
  <2>1. UNCHANGED <<call, state, queue>>
    BY <1>7 DEF DirectEstablished, DirectConcluded, Tell, entryVars, loopVars
  <2>2. ReportsKept
    <3>1. CASE DirectEstablished(l)
      BY <3>1, SendOverLinkKeeps DEF DirectEstablished
    <3>2. CASE DirectConcluded(l)
      <4>1. /\ l[1] \in Entry /\ UNCHANGED untold
            /\ \E s \in {"delivered", "failed"} : Report(MsgOf(l[1]), {s})
        BY <3>2 DEF DirectConcluded
      <4> QED
        BY <4>1, ReportKeeps
    <3>3. CASE Tell(l)
      <4>1. l[1] \in Entry /\ MsgOf(l[1]) \in Msg
        BY CallTypes DEF TypeOK
      <4> QED
        BY <3>3, <4>1 DEF Tell, Report, ReportsKept, TypeOK, ReportTypeOK
    <3> QED
      BY <1>7, <3>1, <3>2, <3>3
  <2> QED
    BY <2>1, <2>2 DEF EntryStep, StateStep, QueueStep
<1>8. ASSUME NEW l \in Attempt, PropagationSend(l) PROVE EntryStep
  <2> DEFINE e == found[l]
  <2>1. /\ e \in Entry /\ state[e] # "generating" /\ MsgOf(e) = MsgOf(l[1])
        /\ UNCHANGED <<call, queue, reported>>
    BY <1>8 DEF PropagationSend, TypeOK, SendTypeOK, FoundIsQueued, loopVars
  <2>2. CASE SendPacket(l, l, e) /\ Owe(l, "sent")
    <3>1. ReportsKept /\ WillSay(MsgOf(e), "sent")
      BY <2>1, <2>2, OweKeeps
    <3> QED
      BY <2>1, <2>2, <3>1, SetStep DEF SendPacket
  <2>3. CASE UNCHANGED <<state, untold>>
    BY <2>1, <2>3, QuietStep
  <2>4. CASE NothingSent(e) /\ UNCHANGED untold
    <3>1. ReportsKept
      BY <2>1, <2>4 DEF ReportsKept
    <3> QED
      BY <2>1, <2>4, <3>1, SetStep DEF NothingSent, WaitFor, Conclusive
  <2> QED
    BY <1>8, <2>2, <2>3, <2>4 DEF PropagationSend
<1>9. ASSUME NEW id \in Attempt, ResourceStarted(id) PROVE EntryStep
  <2> DEFINE e == IF found[id] = 0 THEN id[1] ELSE found[id]
  <2>1. /\ e \in Entry /\ state[e] # "generating" /\ Set(e, "sending")
        /\ UNCHANGED <<call, queue, untold>> /\ id[1] \in Entry
    BY <1>9 DEF ResourceStarted, TypeOK, SendTypeOK, FoundIsQueued, loopVars
  <2>2. ReportsKept
    BY <1>9, <2>1, ReportKeeps DEF ResourceStarted
  <2> QED
    BY <2>1, <2>2, SetStep DEF Conclusive
<1>10. ASSUME NEW id \in Attempt, PropagatedConcluded(id) PROVE EntryStep
  <2>1. PICK s \in Conclusive : state' = Marked(id, s) /\ Owe(id, s)
    BY <1>10 DEF PropagatedConcluded
  <2>2. UNCHANGED <<call, queue, reported>>
    BY <1>10 DEF PropagatedConcluded, loopVars
  <2>3. ReportsKept /\ WillSay(MsgOf(id[1]), s)
    BY <2>1, <2>2, OweKeeps
  <2>4. ASSUME NEW e \in Entry, state'[e] # state[e] PROVE StateStep(e)
    <3>1. e \in queue /\ MsgOf(e) = MsgOf(id[1]) /\ state'[e] = s
      BY <2>1, <2>4, MarkedShape
    <3>2. state[e] # "generating"
      BY <3>1 DEF ConcludedReported
    <3> QED
      BY <2>3, <3>1, <3>2 DEF StateStep
  <2>5. \A e \in Entry : StateStep(e)
    BY <2>4 DEF StateStep
  <2>6. \A e \in Entry : QueueStep(e)
    BY <2>2 DEF QueueStep
  <2> QED
    BY <2>2, <2>3, <2>5, <2>6 DEF EntryStep
<1> QED
  BY <1>1, <1>2, <1>3, <1>4, <1>5, <1>6, <1>7, <1>8, <1>9, <1>10
     DEF Next, Caller, Loop, Attempting, Network, Clock

\* found changes only when a propagation callback looks an entry up, or
\* has sent it; starting, when an attempt or such a callback starts a resource.
LEMMA FoundStep ==
  ASSUME IndInv, [Next]_vars, NEW l \in Attempt
  PROVE  /\ \/ found'[l] \in {found[l], 0}
            \/ found'[l] \in queue /\ MsgOf(found'[l]) = MsgOf(l[1])
         /\ l \in starting' /\ found'[l] = 0
              => (l \in starting /\ found[l] = 0) \/ state[l[1]] # "generating"
<1> DEFINE Goal ==
      /\ \/ found'[l] \in {found[l], 0}
         \/ found'[l] \in queue /\ MsgOf(found'[l]) = MsgOf(l[1])
      /\ l \in starting' /\ found'[l] = 0
           => (l \in starting /\ found[l] = 0) \/ state[l[1]] # "generating"
<1> USE DEF IndInv, TypeOK, SendTypeOK
<1>1. ASSUME NEW k \in Attempt, PropagationEstablished(k) PROVE Goal
  BY <1>1 DEF PropagationEstablished, IsFirst, LoopTypeOK
<1>2. ASSUME NEW k \in Attempt, PropagationSend(k) PROVE Goal
  <2>1. CASE NewResource(k, found[k]) /\ UNCHANGED found
    BY <1>2, <2>1 DEF PropagationSend, NewResource
  <2>2. CASE found' = [found EXCEPT ![k] = 0] /\ UNCHANGED starting
    BY <1>2, <2>2 DEF PropagationSend
  <2> QED
    BY <1>2, <2>1, <2>2 DEF PropagationSend, SendPacket, NothingSent
<1>3. CASE UNCHANGED <<found, starting>>
  BY <1>3
<1>4. CASE UNCHANGED vars
  BY <1>4, <1>3 DEF vars, sendVars
<1>5. CASE Caller \/ Clock
  <2>1. UNCHANGED <<found, starting>>
    BY <1>5 DEF Caller, Clock, Send, Sign, SetOutboundPropagationNode, TimePasses,
       CancelPropagationNodeRequests, Stop, sendVars
  <2> QED
    BY <2>1, <1>3
<1>6. CASE Loop
  <2>1. CASE \E e \in Entry : AttemptPropagated(e)
    <3>1. PICK e \in Entry : AttemptPropagated(e)
      BY <2>1
    <3>2. UNCHANGED found /\ (UNCHANGED starting \/ starting' = starting \cup {This(e)})
      BY <3>1 DEF AttemptPropagated, SendPacket, NewResource, NothingSent, sendVars
    <3>3. This(e)[1] = e /\ state[e] # "generating"
      BY <3>1 DEF AttemptPropagated, Trying, Taking, This, LoopTypeOK, ConcludedReported
    <3> QED
      BY <3>2, <3>3
  <2>2. CASE \/ Tick \/ RemoveFinished \/ CleanInactiveLinks \/ LoopExit
             \/ \E e \in Entry : GiveUp(e) \/ AttemptOpportunistic(e) \/ AttemptDirect(e)
    <3>1. UNCHANGED <<found, starting>>
      BY <2>2 DEF Tick, GiveUp, AttemptOpportunistic, AttemptDirect, RemoveFinished,
         CleanInactiveLinks, LoopExit, sendVars
    <3> QED
      BY <3>1, <1>3
  <2> QED
    BY <1>6, <2>1, <2>2 DEF Loop, Attempting
<1>7. ASSUME NEW k \in Attempt,
             \/ LinkUp(k) \/ LinkDown(k) \/ DirectEstablished(k) \/ DirectClosed(k)
             \/ PropagationClosed(k) \/ DirectConcluded(k) \/ PropagatedConcluded(k)
             \/ Tell(k)
      PROVE  Goal
  <2>1. UNCHANGED <<found, starting>>
    BY <1>7 DEF LinkUp, LinkDown, DirectEstablished, DirectClosed, PropagationClosed,
       DirectConcluded, PropagatedConcluded, Tell, sendVars
  <2> QED
    BY <2>1, <1>3
<1>8. ASSUME NEW k \in Attempt, ResourceStarted(k) PROVE Goal
  BY <1>8 DEF ResourceStarted
<1> QED
  BY <1>1, <1>2, <1>4, <1>5, <1>6, <1>7, <1>8 DEF Next, Network

LEMMA IndInit == Init => IndInv
<1> SUFFICES ASSUME Init PROVE IndInv
  OBVIOUS
<1>1. TypeOK
  BY TypeInit
<1>2. ConcludedReported /\ FoundIsQueued /\ NoSilentDrop
  BY DEF Init, ConcludedReported, FoundIsQueued, NoSilentDrop, Conclusive
<1> QED
  BY <1>1, <1>2 DEF IndInv

LEMMA IndStep ==
  ASSUME IndInv, [Next]_vars
  PROVE  IndInv'
<1>1. TypeOK /\ TypeOK'
  BY TypeStep DEF IndInv
<1>2. /\ \A e \in Entry : StateStep(e) /\ QueueStep(e)
      /\ ReportsKept /\ call' = call
  BY EveryStep DEF EntryStep
<1>3. \A e \in Entry : MsgOf(e)' = MsgOf(e) /\ (Finished(e) => state[e] \in Completed)
  BY <1>2 DEF MsgOf, Finished, Completed
<1>4. \A e \in Entry : /\ Said(MsgOf(e)) \subseteq Said(MsgOf(e))'
                       /\ \A s : WillSay(MsgOf(e), s) => s \in Said(MsgOf(e))'
  BY <1>1, <1>2, SaidKept, WillSayIs
<1>5. ConcludedReported'
  <2>1. SUFFICES ASSUME NEW e \in Entry
                 PROVE  /\ state'[e] \notin {"delivered", "cancelled", "rejected"}
                        /\ state'[e] \in Conclusive
                             => Said(MsgOf(e))' \cap Conclusive # {}
                        /\ e \in queue' => state'[e] # "generating"
    BY DEF ConcludedReported, Conclusive
  <2>2. /\ state[e] \notin {"delivered", "cancelled", "rejected"}
        /\ state[e] \in Conclusive => Said(MsgOf(e)) \cap Conclusive # {}
        /\ e \in queue => state[e] # "generating"
    BY DEF IndInv, ConcludedReported
  <2>3. StateStep(e) /\ QueueStep(e)
    BY <1>2
  <2>4. /\ Said(MsgOf(e)) \subseteq Said(MsgOf(e))'
        /\ \A s : WillSay(MsgOf(e), s) => s \in Said(MsgOf(e))'
    BY <1>4
  <2> QED
    BY <2>2, <2>3, <2>4 DEF StateStep, QueueStep, Conclusive
<1>6. \A e \in Entry : state[e] # "generating" => state'[e] # "generating"
  BY <1>2 DEF StateStep, Conclusive
<1>7. FoundIsQueued'
  <2>1. ASSUME NEW l \in Attempt, found'[l] # 0
        PROVE  state'[found'[l]] # "generating" /\ MsgOf(found[l])' = MsgOf(l[1])'
    <3>1. l[1] \in Entry /\ found'[l] \in Entry
      BY <1>1, <2>1 DEF TypeOK, SendTypeOK
    <3>2. state[found'[l]] # "generating" /\ MsgOf(found'[l]) = MsgOf(l[1])
      <4>1. CASE found'[l] = found[l]
        BY <4>1, <2>1 DEF IndInv, FoundIsQueued
      <4>2. CASE found'[l] \in queue /\ MsgOf(found'[l]) = MsgOf(l[1])
        BY <4>2, <3>1 DEF IndInv, ConcludedReported
      <4> QED
        BY <4>1, <4>2, <2>1, FoundStep
    <3> QED
      BY <1>2, <1>6, <3>1, <3>2 DEF MsgOf
  <2>2. ASSUME NEW id \in starting', found'[id] = 0 PROVE state'[id[1]] # "generating"
    <3>1. id \in Attempt /\ id[1] \in Entry
      BY <1>1, <2>2 DEF TypeOK, SendTypeOK
    <3>2. state[id[1]] # "generating"
      BY <2>2, <3>1, FoundStep DEF IndInv, FoundIsQueued
    <3> QED
      BY <1>6, <3>1, <3>2
  <2> QED
    BY <2>1, <2>2 DEF FoundIsQueued
<1>8. NoSilentDrop'
  <2>1. SUFFICES ASSUME NEW e \in Entry, state'[e] # "generating", e \notin queue'
                 PROVE  Said(MsgOf(e))' \cap Conclusive # {}
    BY DEF NoSilentDrop, Conclusive
  <2>2. Said(MsgOf(e)) \subseteq Said(MsgOf(e))'
    BY <1>4
  <2>3. state[e] # "generating"
    BY <1>2, <2>1 DEF StateStep
  <2>4. CASE e \in queue
    <3>1. state[e] \in Completed
      BY <1>2, <1>3, <2>1, <2>4 DEF QueueStep
    <3> QED
      BY <2>2, <3>1 DEF IndInv, ConcludedReported, Completed, Conclusive
  <2>5. CASE e \notin queue
    BY <2>2, <2>3, <2>5 DEF IndInv, NoSilentDrop, Conclusive
  <2> QED
    BY <2>4, <2>5
<1> QED
  BY <1>1, <1>5, <1>7, <1>8 DEF IndInv

\* No message is dropped in silence: of an entry that has left the queue the
\* application was told that it was sent or failed, or the callback that
\* decided it is about to tell, whatever was queued, removed or signed anew
\* between its two steps, and however often the same message was sent.
THEOREM NothingDropped == Spec => []NoSilentDrop
<1>1. IndInv => NoSilentDrop
  BY DEF IndInv
<1> QED
  BY <1>1, IndInit, IndStep, PTL DEF Spec

\* The invariant the two theorems above rest on holds of every behaviour: each
\* conclusion was reported for its own message, or is about to be, and what a
\* propagation callback looked up or started belongs to a message that was sent.
THEOREM OutboundInvariant == Spec => []IndInv
BY IndInit, IndStep, PTL DEF Spec

=============================================================================
