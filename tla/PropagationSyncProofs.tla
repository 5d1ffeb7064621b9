------------------------ MODULE PropagationSyncProofs ------------------------
(***************************************************************************)
(* Theorems about PropagationSync, for all sets of nodes, messages and     *)
(* outbound links, and any number of requests: fetching implements         *)
(* Mailbox, and a request for a path is never forgotten.                   *)
(***************************************************************************)
EXTENDS PropagationSync, TLAPS

USE SyncAssumption DEF Request, Link, Direct

-----------------------------------------------------------------------------
(* Types, and the links they depend on.                                    *)

LEMMA TypeInit == Init => TypeOK /\ LinksOpened
BY DEF Init, TypeOK, StateTypeOK, LinkTypeOK, RequestTypeOK, MessageTypeOK,
       LinksOpened, TransferState

\* Tearing links down opens none, and owes callbacks to open ones only.
LEMMA TearDownKeeps ==
  ASSUME LinkTypeOK, LinksOpened, NEW l \in Link, TearDown(l)
  PROVE  /\ status' \in [Link -> {"none", "pending", "active", "closed"}]
         /\ callbacks' \subseteq Link \X {"established", "closed"}
         /\ \A k \in Link : status'[k] = "none" <=> status[k] = "none"
         /\ \A c \in callbacks' : status[c[1]] # "none"
<1>1. CASE status[l] \in {"pending", "active"}
  <2>1. /\ status' = [status EXCEPT ![l] = "closed"]
        /\ callbacks' = callbacks \cup {<<l, "closed">>}
    BY <1>1 DEF TearDown
  <2>2. \A k \in Link : status'[k] = "none" <=> status[k] = "none"
    BY <1>1, <2>1 DEF LinkTypeOK
  <2>3. \A c \in callbacks' : status[c[1]] # "none"
    <3>1. SUFFICES ASSUME NEW c \in callbacks' PROVE status[c[1]] # "none"
      OBVIOUS
    <3>2. CASE c \in callbacks
      BY <3>2 DEF LinksOpened
    <3>3. CASE c = <<l, "closed">>
      BY <3>3, <1>1
    <3> QED
      BY <2>1, <3>2, <3>3
  <2> QED
    BY <2>1, <2>2, <2>3 DEF LinkTypeOK
<1>2. CASE status[l] \notin {"pending", "active"}
  BY <1>2 DEF TearDown, LinkTypeOK, LinksOpened
<1> QED
  BY <1>1, <1>2

LEMMA TearDownPropagationLinkKeeps ==
  ASSUME StateTypeOK, LinkTypeOK, LinksOpened, TearDownPropagationLink
  PROVE  /\ status' \in [Link -> {"none", "pending", "active", "closed"}]
         /\ callbacks' \subseteq Link \X {"established", "closed"}
         /\ \A k \in Link : status'[k] = "none" <=> status[k] = "none"
         /\ \A c \in callbacks' : status[c[1]] # "none"
         /\ leadsTo' = leadsTo
<1>1. CASE propagationLink = NoLink
  BY <1>1 DEF TearDownPropagationLink, LinkTypeOK, LinksOpened
<1>2. CASE propagationLink # NoLink
  <2>1. propagationLink \in Link /\ TearDown(propagationLink) /\ leadsTo' = leadsTo
    BY <1>2 DEF StateTypeOK, TearDownPropagationLink
  <2> HIDE DEF Link
  <2> QED
    BY <2>1, TearDownKeeps
<1> QED
  BY <1>1, <1>2

\* A new link leads to the node that it was opened for.
LEMMA EstablishKeeps ==
  ASSUME LinkTypeOK, LinksOpened, NEW r \in Request, NEW n \in Node,
         EstablishPropagationLink(r, n)
  PROVE  /\ propagationState' \in {"Failed", "LinkFailed", "LinkEstablishing"}
         /\ status' \in [Link -> {"none", "pending", "active", "closed"}]
         /\ leadsTo' \in [Link -> Node \cup {NoNode}]
         /\ callbacks' = callbacks
         /\ \A k \in Link : /\ status'[k] # "none" => leadsTo'[k] \in Node
                            /\ status[k] # "none" => status'[k] # "none"
<1>1. CASE /\ propagationState' \in {"Failed", "LinkFailed"}
           /\ UNCHANGED linkVars
  BY <1>1 DEF linkVars, LinkTypeOK, LinksOpened
<1>2. CASE /\ propagationState' = "LinkEstablishing"
           /\ status' = [status EXCEPT ![r] = "pending"]
           /\ leadsTo' = [leadsTo EXCEPT ![r] = n]
           /\ UNCHANGED callbacks
  BY <1>2 DEF LinkTypeOK, LinksOpened
<1> QED
  BY <1>1, <1>2 DEF EstablishPropagationLink, Become

LEMMA TypeStep ==
  ASSUME TypeOK, LinksOpened, [Next]_vars
  PROVE  TypeOK' /\ LinksOpened'
<1> USE DEF TypeOK, StateTypeOK, LinkTypeOK, RequestTypeOK, MessageTypeOK, LinksOpened,
            nodeVars, stateVars, waitVars, linkVars, requestVars, messageVars,
            TransferState, Become, BecomeComplete
<1>1. ASSUME NEW n \in Node \cup {NoNode}, SetOutboundPropagationNode(n)
      PROVE  TypeOK' /\ LinksOpened'
  BY <1>1, TearDownPropagationLinkKeeps DEF SetOutboundPropagationNode
<1>2. ASSUME CancelPropagationNodeRequests
      PROVE  TypeOK' /\ LinksOpened'
  BY <1>2, TearDownPropagationLinkKeeps DEF CancelPropagationNodeRequests
<1>3. ASSUME RequestOverActiveLink
      PROVE  TypeOK' /\ LinksOpened'
  BY <1>3 DEF RequestOverActiveLink, Asking, LinkIsActive
<1>4. ASSUME RequestOverNewLink
      PROVE  TypeOK' /\ LinksOpened'
  <2>1. propagationNode \in Node /\ asked + 1 \in Request /\ asked' = asked + 1
    BY <1>4 DEF RequestOverNewLink, Asking
  <2>2. CASE EstablishPropagationLink(asked + 1, propagationNode) /\ UNCHANGED waiting
    <3>1. /\ propagationState' \in {"Failed", "LinkFailed", "LinkEstablishing"}
          /\ status' \in [Link -> {"none", "pending", "active", "closed"}]
          /\ leadsTo' \in [Link -> Node \cup {NoNode}]
          /\ callbacks' = callbacks
          /\ \A k \in Link : /\ status'[k] # "none" => leadsTo'[k] \in Node
                             /\ status[k] # "none" => status'[k] # "none"
      BY <2>1, <2>2, EstablishKeeps
    <3>2. /\ propagationLink' = NoLink
          /\ propagationProgress' = "zero"
          /\ UNCHANGED <<propagationNode, propagationMu, requestVars, messageVars>>
      BY <1>4 DEF RequestOverNewLink, Asking
    <3>3. StateTypeOK' /\ RequestTypeOK' /\ MessageTypeOK'
      BY <3>1, <3>2
    <3>4. LinkTypeOK'
      BY <2>1, <2>2, <3>1
    <3>5. \A k \in Link : status'[k] # "none" => leadsTo'[k] \in Node
      BY <3>1
    <3>6. /\ \A c \in callbacks' : status'[c[1]] # "none"
          /\ \A r \in identified' \cup listing' : status'[r] # "none"
          /\ \A g \in getting' : status'[g.over] # "none"
      BY <3>1, <3>2
    <3> QED
      BY <3>3, <3>4, <3>5, <3>6
  <2>3. CASE /\ propagationState' = "PathRequested"
             /\ waiting' = [waiting EXCEPT ![asked + 1] = propagationNode]
             /\ UNCHANGED linkVars
    BY <1>4, <2>1, <2>3 DEF RequestOverNewLink, Asking
  <2> QED
    BY <1>4, <2>2, <2>3 DEF RequestOverNewLink
<1>5. ASSUME NEW r \in Request, PathFound(r)
      PROVE  TypeOK' /\ LinksOpened'
  <2>1. CASE StillWaiting(r)
    <3>1. waiting[r] \in Node /\ EstablishPropagationLink(r, waiting[r])
      BY <1>5, <2>1 DEF PathFound, WaiterReturns
    <3>2. /\ propagationState' \in {"Failed", "LinkFailed", "LinkEstablishing"}
          /\ status' \in [Link -> {"none", "pending", "active", "closed"}]
          /\ leadsTo' \in [Link -> Node \cup {NoNode}]
          /\ callbacks' = callbacks
          /\ \A k \in Link : /\ status'[k] # "none" => leadsTo'[k] \in Node
                             /\ status[k] # "none" => status'[k] # "none"
      BY <3>1, EstablishKeeps
    <3> QED
      BY <1>5, <3>2 DEF PathFound, WaiterReturns
  <2>2. CASE ~StillWaiting(r)
    BY <1>5, <2>2 DEF PathFound, WaiterReturns
  <2> QED
    BY <2>1, <2>2
<1>6. ASSUME NEW r \in Request, PathTimeout(r)
      PROVE  TypeOK' /\ LinksOpened'
  BY <1>6 DEF PathTimeout, WaiterReturns, StillWaiting
<1>7. ASSUME NEW l \in Link, LinkUp(l)
      PROVE  TypeOK' /\ LinksOpened'
  BY <1>7 DEF LinkUp
<1>8. ASSUME NEW l \in Link, LinkDown(l)
      PROVE  TypeOK' /\ LinksOpened'
  BY <1>8, TearDownKeeps DEF LinkDown
<1>9. ASSUME NEW r \in Request, SyncEstablished(r)
      PROVE  TypeOK' /\ LinksOpened'
  BY <1>9 DEF SyncEstablished, Called
<1>10. ASSUME NEW r \in Request, SyncClosed(r)
      PROVE  TypeOK' /\ LinksOpened'
  BY <1>10 DEF SyncClosed, Called
<1>11. ASSUME NEW r \in Request, SendListRequest(r)
      PROVE  TypeOK' /\ LinksOpened'
  BY <1>11 DEF SendListRequest
<1>12. ASSUME NEW l \in OutboundLink, OutboundOpens(l)
      PROVE  TypeOK' /\ LinksOpened'
  BY <1>12 DEF OutboundOpens
<1>13. ASSUME NEW l \in OutboundLink, OutboundEstablished(l)
      PROVE  TypeOK' /\ LinksOpened'
  BY <1>13 DEF OutboundEstablished, Called
<1>14. ASSUME NEW l \in OutboundLink, OutboundClosed(l)
      PROVE  TypeOK' /\ LinksOpened'
  BY <1>14 DEF OutboundClosed, Called
<1>15. ASSUME NEW r \in Request, ListRefused(r)
      PROVE  TypeOK' /\ LinksOpened'
  BY <1>15, TearDownPropagationLinkKeeps DEF ListRefused, ListAnswered, ErrorCode
<1>16. ASSUME NEW r \in Request, Listed(r)
      PROVE  TypeOK' /\ LinksOpened'
  <2> DEFINE ids == stored[leadsTo[r]]
             haves == ids \cap Known("transient")
             wants == ids \ haves
             get == [by |-> r, over |-> propagationLink, wants |-> wants]
  <2>1. status[r] # "none" /\ leadsTo[r] \in Node
    BY <1>16 DEF Listed, ListAnswered
  <2>2. ids \subseteq Msg /\ haves \subseteq Msg /\ wants \subseteq Msg
    BY <2>1
  <2>3. /\ StateTypeOK'
        /\ listing' \subseteq listing
        /\ progressing' \subseteq progressing \cup {r}
        /\ UNCHANGED <<waitVars, linkVars, identified, handling, dispatching, stored,
                       deliveredIDs, copies>>
    BY <1>16 DEF Listed, ListAnswered
  <2>4. CASE ~LinkIsActive
    BY <1>16, <2>3, <2>4 DEF Listed
  <2>5. CASE LinkIsActive
    <3> HIDE DEF ids, haves, wants
    <3>1. /\ propagationLink \in Link
          /\ status[propagationLink] # "none"
          /\ leadsTo[propagationLink] \in Node
      BY <2>5 DEF LinkIsActive
    <3>2. /\ cleanup' = cleanup \cup ({leadsTo[propagationLink]} \X haves)
          /\ getting' \subseteq getting \cup {get}
      BY <1>16, <2>5 DEF Listed, ids, haves, wants
    <3>3. MessageTypeOK'
      BY <2>2, <2>3, <3>1, <3>2
    <3>4. getting' \subseteq [by : Request, over : Link, wants : SUBSET Msg]
      BY <2>2, <3>1, <3>2
    <3>5. \A g \in getting' : status[g.over] # "none"
      BY <3>1, <3>2
    <3> QED
      BY <2>3, <3>3, <3>4, <3>5
  <2> QED
    BY <2>4, <2>5
<1>17. ASSUME NEW r \in progressing, MessageGetProgress(r)
      PROVE  TypeOK' /\ LinksOpened'
  BY <1>17 DEF MessageGetProgress
<1>18. ASSUME NEW g \in getting, GetRefused(g)
      PROVE  TypeOK' /\ LinksOpened'
  BY <1>18, TearDownPropagationLinkKeeps DEF GetRefused, ErrorCode
<1>19. ASSUME NEW g \in getting, GetAnswered(g)
      PROVE  TypeOK' /\ LinksOpened'
  BY <1>19 DEF GetAnswered
<1>20. ASSUME NEW h \in handling, Acknowledge(h)
      PROVE  TypeOK' /\ LinksOpened'
  BY <1>20 DEF Acknowledge, LinkIsActive, Busy
<1>21. ASSUME NEW h \in handling, NEW m \in h.todo, Handle(h, m)
      PROVE  TypeOK' /\ LinksOpened'
  <2> DEFINE rest == [h EXCEPT !.todo = @ \ {m}]
             call == [msg |-> m, by |-> h.by, isNew |-> FALSE]
  <2>1. h \in [by : Request, todo : SUBSET Msg, haves : SUBSET Msg] /\ m \in Msg
    BY <1>21
  <2>2. rest \in [by : Request, todo : SUBSET Msg, haves : SUBSET Msg]
    BY <2>1
  <2>3. call \in [msg : Msg, by : Request \cup {Direct}, isNew : BOOLEAN]
    BY <2>1
  <2>4. handling' = (handling \ {h}) \cup {rest}
    BY <1>21 DEF Handle
  <2>5. /\ deliveredIDs' \subseteq deliveredIDs \cup {<<"transient", m>>}
        /\ dispatching' \subseteq dispatching \cup {call}
        /\ UNCHANGED <<nodeVars, stateVars, waitVars, linkVars, identified, listing,
                       getting, progressing, copies, stored,
                       cleanup>>
    BY <1>21 DEF Handle
  <2> HIDE DEF rest, call
  <2>6. MessageTypeOK'
    BY <2>1, <2>3, <2>5
  <2>7. RequestTypeOK'
    BY <2>2, <2>4, <2>5
  <2> QED
    BY <2>5, <2>6, <2>7
<1>22. ASSUME NEW d \in dispatching, CheckDuplicate(d)
      PROVE  TypeOK' /\ LinksOpened'
  <2> DEFINE new == [d EXCEPT !.isNew = TRUE]
  <2>1. d \in [msg : Msg, by : Request \cup {Direct}, isNew : BOOLEAN]
    BY <1>22
  <2>2. d.msg \in Msg /\ new \in [msg : Msg, by : Request \cup {Direct}, isNew : BOOLEAN]
    BY <2>1
  <2>3. /\ deliveredIDs' = deliveredIDs \cup {<<"hash", d.msg>>}
        /\ dispatching' \subseteq dispatching \cup {new}
        /\ UNCHANGED <<nodeVars, stateVars, waitVars, linkVars, requestVars, copies,
                       stored, cleanup>>
    BY <1>22 DEF CheckDuplicate
  <2> HIDE DEF new
  <2>4. MessageTypeOK'
    BY <2>2, <2>3
  <2> QED
    BY <2>3, <2>4
<1>23. ASSUME NEW d \in dispatching, EmitReceived(d)
      PROVE  TypeOK' /\ LinksOpened'
  BY <1>23 DEF EmitReceived
<1>24. ASSUME MessageGetFailed
      PROVE  TypeOK' /\ LinksOpened'
  BY <1>24, TearDownPropagationLinkKeeps DEF MessageGetFailed
<1>25. ASSUME NEW n \in Node, NEW m \in Msg, Cleanup(n, m)
      PROVE  TypeOK' /\ LinksOpened'
  BY <1>25 DEF Cleanup
<1>26. ASSUME NEW m \in AlsoDirect, ReceiveDirectly(m)
      PROVE  TypeOK' /\ LinksOpened'
  <2> DEFINE call == [msg |-> m, by |-> Direct, isNew |-> FALSE]
  <2>1. call \in [msg : Msg, by : Request \cup {Direct}, isNew : BOOLEAN]
    OBVIOUS
  <2>2. /\ dispatching' = dispatching \cup {call}
        /\ UNCHANGED <<deliveredIDs, copies, stored, cleanup>>
    BY <1>26 DEF ReceiveDirectly
  <2> HIDE DEF call
  <2>3. MessageTypeOK'
    BY <2>1, <2>2
  <2> QED
    BY <1>26, <2>3 DEF ReceiveDirectly
<1>27. CASE UNCHANGED vars
  BY <1>27 DEF vars
<1> QED
  <2> HIDE DEF TypeOK, LinksOpened
  <2> QED
    BY <1>1, <1>2, <1>3, <1>4, <1>5, <1>6, <1>7, <1>8, <1>9, <1>10, <1>11, <1>12, <1>13, <1>14, <1>15, <1>16, <1>17, <1>18, <1>19, <1>20, <1>21, <1>22, <1>23, <1>24, <1>25, <1>26, <1>27
       DEF Next, Application, Waiter, LinkEvent, Answer, Elsewhere

-----------------------------------------------------------------------------
(* Fetching implements Mailbox.                                            *)

\* Eight of the actions touch the messages or the answers being worked through.
LEMMA MessageSteps ==
  ASSUME [Next]_vars
  PROVE  \/ \E h \in handling : \E m \in h.todo : Handle(h, m)
         \/ \E d \in dispatching : CheckDuplicate(d)
         \/ \E d \in dispatching : EmitReceived(d)
         \/ \E m \in AlsoDirect : ReceiveDirectly(m)
         \/ \E r \in Request : Listed(r)
         \/ \E g \in getting : GetAnswered(g)
         \/ \E h \in handling : Acknowledge(h)
         \/ \E n \in Node, m \in Msg : Cleanup(n, m)
         \/ UNCHANGED <<messageVars, handling>>
<1> USE DEF requestVars, messageVars
<1>1. CASE Application
  BY <1>1 DEF Application, SetOutboundPropagationNode, CancelPropagationNodeRequests,
              RequestOverActiveLink, RequestOverNewLink
<1>2. CASE \E r \in Request : Waiter(r)
  BY <1>2 DEF Waiter, PathFound, PathTimeout, WaiterReturns
<1>3. CASE LinkEvent
  BY <1>3 DEF LinkEvent, LinkUp, LinkDown, SyncEstablished, SyncClosed, SendListRequest,
              OutboundOpens, OutboundEstablished, OutboundClosed, Called
<1>4. CASE Answer
  <2>1. \A r \in Request : ListRefused(r) => UNCHANGED <<messageVars, handling>>
    BY DEF ListRefused, ListAnswered
  <2>2. /\ \A r \in progressing :
             MessageGetProgress(r) => UNCHANGED <<messageVars, handling>>
        /\ \A g \in getting : GetRefused(g) => UNCHANGED <<messageVars, handling>>
    BY DEF MessageGetProgress, GetRefused
  <2>3. MessageGetFailed => UNCHANGED <<messageVars, handling>>
    BY DEF MessageGetFailed
  <2> QED
    BY <1>4, <2>1, <2>2, <2>3 DEF Answer
<1>5. CASE Elsewhere
  BY <1>5 DEF Elsewhere
<1>6. CASE UNCHANGED vars
  BY <1>6 DEF vars
<1> QED
  BY <1>1, <1>2, <1>3, <1>4, <1>5, <1>6 DEF Next

\* No mark is ever taken back, so what is settled stays settled.
LEMMA SettledGrows ==
  ASSUME [Next]_vars
  PROVE  /\ deliveredIDs \subseteq deliveredIDs'
         /\ Accepted \subseteq Accepted'
         /\ Settled \subseteq Settled'
<1>1. deliveredIDs \subseteq deliveredIDs'
  BY MessageSteps DEF Handle, CheckDuplicate, EmitReceived, ReceiveDirectly, Listed,
     ListAnswered, GetAnswered, Acknowledge, Cleanup, messageVars
<1> QED
  BY <1>1 DEF Settled, Accepted, Known

LEMMA OneWinnerStep ==
  ASSUME TypeOK, OneWinner, [Next]_vars
  PROVE  OneWinner'
<1> DEFINE Types == [msg : Msg, by : Request \cup {Direct}, isNew : BOOLEAN]
<1>0. /\ dispatching \subseteq Types
      /\ copies \in [Msg -> Nat]
  BY DEF TypeOK, MessageTypeOK
<1>1. ASSUME UNCHANGED <<dispatching, deliveredIDs, copies>> PROVE OneWinner'
  BY <1>1 DEF OneWinner, Known
<1>2. ASSUME NEW c \in Types, c.msg \notin Unreadable, c.isNew = FALSE,
             dispatching' \in {dispatching, dispatching \cup {c}},
             deliveredIDs \subseteq deliveredIDs', copies' = copies
      PROVE  OneWinner'
  BY <1>0, <1>2 DEF OneWinner, Known
<1>3. ASSUME NEW h \in handling, NEW m \in h.todo, Handle(h, m) PROVE OneWinner'
  <2> DEFINE call == [msg |-> m, by |-> h.by, isNew |-> FALSE]
  <2>1. call \in Types /\ call.msg = m /\ call.isNew = FALSE
    BY <1>3 DEF TypeOK, RequestTypeOK
  <2>2. /\ dispatching' \in {dispatching, dispatching \cup {call}}
        /\ deliveredIDs \subseteq deliveredIDs'
        /\ copies' = copies
    BY <1>3 DEF Handle
  <2>3. CASE m \in Unreadable
    BY <1>1, <1>3, <2>3 DEF Handle
  <2>4. CASE m \notin Unreadable
    <3> HIDE DEF call
    <3> QED
      BY <1>2, <2>1, <2>2, <2>4
  <2> QED
    BY <2>3, <2>4
<1>4. ASSUME NEW d \in dispatching, CheckDuplicate(d) PROVE OneWinner'
  <2> DEFINE new == [d EXCEPT !.isNew = TRUE]
  <2>1. d \in Types /\ new \in Types /\ new.msg = d.msg /\ new.isNew = TRUE
    BY <1>0
  <2>2. /\ deliveredIDs' = deliveredIDs \cup {<<"hash", d.msg>>}
        /\ copies' = copies
        /\ dispatching' = (dispatching \ {d}) \cup
             {c \in {new} : d.msg \notin Known("hash") \cup Unstamped}
    BY <1>4 DEF CheckDuplicate
  <2> HIDE DEF new, Types
  <2>3. CASE d.msg \in Known("hash") \cup Unstamped
    <3>1. dispatching' \subseteq dispatching
      BY <2>2, <2>3
    <3> QED
      BY <2>2, <3>1 DEF OneWinner, Known
  <2>4. CASE d.msg \notin Known("hash") \cup Unstamped
    <3>1. dispatching' \subseteq dispatching \cup {new}
      BY <2>2
    <3>2. copies[d.msg] = 0 /\ d.msg \notin Unreadable /\ d.msg \in Msg
      BY <2>1, <2>4 DEF OneWinner, Types
    <3>3. d.msg \in Known("hash")'
      BY <2>2, <3>2 DEF Known
    <3>4. \A c \in dispatching : c.isNew => c.msg # d.msg
      BY <2>4 DEF OneWinner
    <3>5. Known("hash") \subseteq Known("hash")'
      BY <2>2 DEF Known
    <3>6. \A c \in dispatching' :
            /\ c.msg \notin Unreadable
            /\ c.isNew => c.msg \in Known("hash")' \ Unstamped /\ copies'[c.msg] = 0
      BY <2>1, <2>2, <2>4, <3>1, <3>2, <3>3, <3>5 DEF OneWinner
    <3>7. \A b, c \in dispatching' : b.isNew /\ c.isNew /\ b.msg = c.msg => b = c
      BY <2>1, <3>1, <3>4 DEF OneWinner
    <3>8. \A m \in Msg : copies'[m] # 0 => m \in Known("hash")'
      BY <2>2, <3>5 DEF OneWinner
    <3> QED
      BY <3>6, <3>7, <3>8 DEF OneWinner
  <2> QED
    BY <2>3, <2>4
<1>5. ASSUME NEW d \in dispatching, EmitReceived(d) PROVE OneWinner'
  <2>1. /\ d.isNew /\ d \in Types
        /\ dispatching' = dispatching \ {d}
        /\ deliveredIDs' = deliveredIDs
        /\ copies' = [copies EXCEPT ![d.msg] = @ + 1]
    BY <1>0, <1>5 DEF EmitReceived
  <2>2. \A c \in dispatching' : c.isNew => c.msg # d.msg
    BY <2>1 DEF OneWinner
  <2>3. d.msg \in Known("hash")
    BY <2>1 DEF OneWinner
  <2> QED
    BY <1>0, <2>1, <2>2, <2>3 DEF OneWinner, Known
<1>6. ASSUME NEW m \in AlsoDirect, ReceiveDirectly(m) PROVE OneWinner'
  <2> DEFINE call == [msg |-> m, by |-> Direct, isNew |-> FALSE]
  <2>1. call \in Types /\ call.msg \notin Unreadable /\ call.isNew = FALSE
    OBVIOUS
  <2>2. /\ dispatching' \in {dispatching, dispatching \cup {call}}
        /\ deliveredIDs \subseteq deliveredIDs'
        /\ copies' = copies
    BY <1>6 DEF ReceiveDirectly
  <2> HIDE DEF call
  <2> QED
    BY <1>2, <2>1, <2>2
<1>7. ASSUME \/ \E r \in Request : Listed(r)
             \/ \E g \in getting : GetAnswered(g)
             \/ \E h \in handling : Acknowledge(h)
             \/ \E n \in Node, m \in Msg : Cleanup(n, m)
             \/ UNCHANGED <<messageVars, handling>>
      PROVE  OneWinner'
  <2>1. UNCHANGED <<dispatching, deliveredIDs, copies>>
    BY <1>7 DEF Listed, ListAnswered, GetAnswered, Acknowledge, Cleanup, messageVars
  <2> QED
    BY <1>1, <2>1
<1> QED
  BY <1>3, <1>4, <1>5, <1>6, <1>7, MessageSteps

LEMMA AcksSettledStep ==
  ASSUME TypeOK, LinksOpened, AcksSettled, [Next]_vars
  PROVE  AcksSettled'
<1>1. Settled \subseteq Settled'
  BY SettledGrows
<1>2. ASSUME cleanup' \subseteq cleanup, handling' \subseteq handling PROVE AcksSettled'
  BY <1>1, <1>2 DEF AcksSettled
<1>3. ASSUME NEW h \in handling, NEW m \in h.todo, Handle(h, m) PROVE AcksSettled'
  <2> DEFINE rest == [h EXCEPT !.todo = @ \ {m}]
  <2>1. h \in [by : Request, todo : SUBSET Msg, haves : SUBSET Msg] /\ m \in Msg
    BY DEF TypeOK, RequestTypeOK
  <2>2. m \in Settled'
    BY <1>3, <2>1 DEF Handle, Settled, Accepted, Known
  <2>3. rest.haves = h.haves /\ rest.todo = h.todo \ {m}
    BY <2>1
  <2>4. cleanup' = cleanup /\ handling' = (handling \ {h}) \cup {rest}
    BY <1>3 DEF Handle
  <2> HIDE DEF rest
  <2>5. rest.haves \ rest.todo \subseteq Settled'
    BY <1>1, <2>2, <2>3 DEF AcksSettled
  <2> QED
    BY <1>1, <2>4, <2>5 DEF AcksSettled
<1>4. ASSUME NEW r \in Request, Listed(r) PROVE AcksSettled'
  <2>1. handling' = handling
    BY <1>4 DEF Listed, ListAnswered
  <2>2. \A c \in cleanup' : c \in cleanup \/ c[2] \in Known("transient")
    BY <1>4 DEF Listed
  <2>3. Known("transient") \subseteq Settled
    BY DEF Settled, Accepted
  <2> QED
    BY <1>1, <2>1, <2>2, <2>3 DEF AcksSettled
<1>5. ASSUME NEW g \in getting, GetAnswered(g) PROVE AcksSettled'
  <2>1. PICK sent : handling' = handling \cup {[by |-> g.by, todo |-> sent, haves |-> sent]}
    BY <1>5 DEF GetAnswered
  <2>2. cleanup' = cleanup
    BY <1>5 DEF GetAnswered, messageVars
  <2> QED
    BY <1>1, <2>1, <2>2 DEF AcksSettled
<1>6. ASSUME NEW h \in handling, Acknowledge(h) PROVE AcksSettled'
  <2>1. h.todo = {} /\ handling' = handling \ {h}
    BY <1>6 DEF Acknowledge
  <2>2. \A c \in cleanup' : c \in cleanup \/ c[2] \in h.haves
    BY <1>6 DEF Acknowledge
  <2>3. h.haves \subseteq Settled
    BY <2>1 DEF AcksSettled
  <2> QED
    BY <1>1, <2>1, <2>2, <2>3 DEF AcksSettled
<1>7. ASSUME \/ \E d \in dispatching : CheckDuplicate(d) \/ EmitReceived(d)
             \/ \E m \in AlsoDirect : ReceiveDirectly(m)
             \/ \E n \in Node, m \in Msg : Cleanup(n, m)
             \/ UNCHANGED <<messageVars, handling>>
      PROVE  AcksSettled'
  <2>1. cleanup' \subseteq cleanup /\ handling' = handling
    BY <1>7 DEF CheckDuplicate, EmitReceived, ReceiveDirectly, Cleanup, messageVars, requestVars
  <2> QED
    BY <1>2, <2>1
<1> QED
  BY <1>3, <1>4, <1>5, <1>6, <1>7, MessageSteps

LEMMA SyncInit == Init => SyncInv
<1>1. Init => OneWinner /\ AcksSettled
  BY DEF Init, OneWinner, AcksSettled
<1> QED
  BY <1>1, TypeInit DEF SyncInv

LEMMA SyncStep == SyncInv /\ [Next]_vars => SyncInv'
BY TypeStep, OneWinnerStep, AcksSettledStep DEF SyncInv

\* The invariant of fetching: every variable keeps its type, links and the
\* requests over them lead to a node, one call of dispatchMessage per message
\* gets past the duplicate check, and only settled messages are acknowledged.
THEOREM SyncInvariant == Spec => []SyncInv
BY SyncInit, SyncStep, PTL DEF Spec

\* Every variable of the sync client keeps its type; PRResponseReceived is
\* never reached.
LEMMA SyncTypes == Spec => []TypeOK
<1>1. SyncInv => TypeOK
  BY DEF SyncInv
<1> QED
  BY <1>1, SyncInvariant, PTL

LEMMA MailboxInit == Init => M!Init
BY DEF Init, M!Init, Accepted, Known

\* Marking a message, by either key, accepts it if that is news.
LEMMA MarkAccepts ==
  ASSUME NEW k \in {"transient", "hash"}, NEW m \in Msg \ Unreadable,
         deliveredIDs' = deliveredIDs \cup {<<k, m>>},
         UNCHANGED <<stored, copies>>
  PROVE  [M!Next]_M!vars
<1>1. Accepted' = Accepted \cup ({m} \ Unstamped)
  BY DEF Accepted, Known
<1>2. CASE m \in Accepted \cup Unstamped
  BY <1>1, <1>2 DEF M!vars
<1>3. CASE m \notin Accepted \cup Unstamped
  BY <1>1, <1>3 DEF M!Next, M!Accept
<1> QED
  BY <1>2, <1>3

LEMMA MailboxStep == SyncInv /\ [Next]_vars => [M!Next]_M!vars
<1> SUFFICES ASSUME SyncInv, [Next]_vars PROVE [M!Next]_M!vars
  OBVIOUS
<1>0. TypeOK /\ OneWinner /\ AcksSettled
  BY DEF SyncInv
<1>1. ASSUME UNCHANGED <<stored, deliveredIDs, copies>> PROVE [M!Next]_M!vars
  BY <1>1 DEF M!vars, Accepted, Known
<1>2. ASSUME NEW h \in handling, NEW m \in h.todo, Handle(h, m) PROVE [M!Next]_M!vars
  <2>1. m \in Msg
    BY <1>0 DEF TypeOK, RequestTypeOK
  <2>2. CASE m \in Unreadable
    BY <1>1, <1>2, <2>2 DEF Handle
  <2>3. CASE m \notin Unreadable
    BY <1>2, <2>1, <2>3, MarkAccepts DEF Handle
  <2> QED
    BY <2>2, <2>3
<1>3. ASSUME NEW d \in dispatching, CheckDuplicate(d) PROVE [M!Next]_M!vars
  <2>1. d.msg \in Msg \ Unreadable
    BY <1>0 DEF TypeOK, MessageTypeOK, OneWinner
  <2> QED
    BY <1>3, <2>1, MarkAccepts DEF CheckDuplicate
<1>4. ASSUME NEW d \in dispatching, EmitReceived(d) PROVE [M!Next]_M!vars
  <2>1. /\ d.msg \in Msg /\ copies \in [Msg -> Nat]
        /\ d.msg \in Accepted /\ copies[d.msg] = 0
    BY <1>0, <1>4 DEF TypeOK, MessageTypeOK, OneWinner, EmitReceived, Accepted
  <2>2. /\ copies' = [copies EXCEPT ![d.msg] = 1]
        /\ stored' = stored
        /\ Accepted' = Accepted
    BY <1>4, <2>1 DEF EmitReceived, Accepted, Known
  <2> QED
    BY <2>1, <2>2 DEF M!Next, M!Deliver
<1>5. ASSUME NEW n \in Node, NEW m \in Msg, Cleanup(n, m) PROVE [M!Next]_M!vars
  <2>1. /\ m \in Settled
        /\ stored \in [Node -> SUBSET Msg]
        /\ stored' = [stored EXCEPT ![n] = @ \ {m}]
        /\ copies' = copies
        /\ Accepted' = Accepted
    BY <1>0, <1>5 DEF TypeOK, MessageTypeOK, AcksSettled, Cleanup, Accepted, Known
  <2>2. CASE m \in stored[n]
    BY <2>1, <2>2 DEF M!Next, M!Forget, Settled
  <2>3. CASE m \notin stored[n]
    BY <2>1, <2>3 DEF M!vars
  <2> QED
    BY <2>2, <2>3
<1>6. ASSUME \/ \E m \in AlsoDirect : ReceiveDirectly(m)
             \/ \E r \in Request : Listed(r)
             \/ \E g \in getting : GetAnswered(g)
             \/ \E h \in handling : Acknowledge(h)
             \/ UNCHANGED <<messageVars, handling>>
      PROVE  [M!Next]_M!vars
  <2>1. UNCHANGED <<stored, deliveredIDs, copies>>
    BY <1>6 DEF ReceiveDirectly, Listed, ListAnswered, GetAnswered, Acknowledge, messageVars
  <2> QED
    BY <1>1, <2>1
<1> QED
  BY <1>2, <1>3, <1>4, <1>5, <1>6, MessageSteps

\* Fetching implements the mailbox: over any number of overlapping requests,
\* nodes and direct arrivals, a message is given to the application at most
\* once, and a node forgets only what the router took on or cannot deliver.
THEOREM FetchingImplementsMailbox == Spec => ImplementsMailbox
BY MailboxInit, MailboxStep, SyncInvariant, PTL DEF Spec, M!Spec, ImplementsMailbox

-----------------------------------------------------------------------------
(* The transfer state.                                                     *)

Untouched == UNCHANGED <<propagationState, propagationProgress, propagationNode, waiting>>

\* How a step may leave the transfer state: with a waiter for a path that was
\* just asked for, complete with full progress, as it was (when a waiter that
\* no longer counts returns, too), or in a state that asks for nothing.
LEMMA TransferSteps ==
  ASSUME TypeOK, [Next]_vars
  PROVE  \/ propagationState' \notin {"PathRequested", "Complete"}
         \/ propagationState' = "Complete" /\ propagationProgress' = "full"
         \/ /\ propagationState' = "PathRequested"
            /\ propagationNode' # NoNode
            /\ \E k \in Request : waiting'[k] = propagationNode'
         \/ Untouched
         \/ /\ UNCHANGED <<propagationState, propagationProgress, propagationNode>>
            /\ \E r \in Request : /\ ~StillWaiting(r)
                                  /\ waiting' = [waiting EXCEPT ![r] = NoNode]
<1> USE DEF Untouched, nodeVars, stateVars, waitVars, Become, BecomeComplete
<1>1. CASE Application
  <2>1. ASSUME NEW n \in Node \cup {NoNode}, SetOutboundPropagationNode(n)
        PROVE  propagationState' = "Idle"
    BY <2>1 DEF SetOutboundPropagationNode
  <2>2. ASSUME CancelPropagationNodeRequests PROVE propagationState' = "Idle"
    BY <2>2 DEF CancelPropagationNodeRequests
  <2>3. ASSUME RequestOverActiveLink PROVE propagationState' = "LinkEstablished"
    BY <2>3 DEF RequestOverActiveLink
  <2>4. ASSUME RequestOverNewLink
        PROVE  \/ propagationState' \in {"Failed", "LinkFailed", "LinkEstablishing"}
               \/ /\ propagationState' = "PathRequested"
                  /\ propagationNode' # NoNode
                  /\ \E k \in Request : waiting'[k] = propagationNode'
    <3>1. asked + 1 \in Request /\ propagationNode # NoNode /\ propagationNode' = propagationNode
      BY <2>4 DEF RequestOverNewLink, Asking, TypeOK, LinkTypeOK
    <3>2. CASE EstablishPropagationLink(asked + 1, propagationNode)
      BY <3>2 DEF EstablishPropagationLink
    <3>3. CASE /\ propagationState' = "PathRequested"
               /\ waiting' = [waiting EXCEPT ![asked + 1] = propagationNode]
      <4>1. waiting'[asked + 1] = propagationNode'
        BY <3>1, <3>3 DEF TypeOK, LinkTypeOK
      <4> QED
        BY <3>1, <3>3, <4>1
    <3> QED
      BY <2>4, <3>2, <3>3 DEF RequestOverNewLink
  <2> QED
    BY <1>1, <2>1, <2>2, <2>3, <2>4 DEF Application
<1>2. ASSUME NEW r \in Request, Waiter(r)
      PROVE  \/ propagationState' \in {"Failed", "LinkFailed", "LinkEstablishing", "NoPath"}
             \/ /\ UNCHANGED <<propagationState, propagationProgress, propagationNode>>
                /\ ~StillWaiting(r)
                /\ waiting' = [waiting EXCEPT ![r] = NoNode]
  <2>1. /\ waiting' = [waiting EXCEPT ![r] = NoNode]
        /\ UNCHANGED <<propagationProgress, propagationNode>>
    BY <1>2 DEF Waiter, PathFound, PathTimeout, WaiterReturns
  <2>2. CASE StillWaiting(r)
    BY <1>2, <2>2 DEF Waiter, PathFound, PathTimeout, EstablishPropagationLink
  <2>3. CASE ~StillWaiting(r)
    BY <1>2, <2>1, <2>3 DEF Waiter, PathFound, PathTimeout
  <2> QED
    BY <2>2, <2>3
<1>3. CASE LinkEvent
  <2>1. ASSUME NEW r \in Request, SyncClosed(r)
        PROVE  propagationState' = "LinkFailed" \/ Untouched
    BY <2>1 DEF SyncClosed, Called
  <2>2. ASSUME NEW r \in Request, SyncEstablished(r) \/ SendListRequest(r)
        PROVE  propagationState' \in {"LinkEstablished", "RequestSent"}
    BY <2>2 DEF SyncEstablished, SendListRequest
  <2>3. ASSUME \/ \E l \in Link : LinkUp(l) \/ LinkDown(l)
               \/ \E l \in OutboundLink :
                    OutboundOpens(l) \/ OutboundEstablished(l) \/ OutboundClosed(l)
        PROVE  Untouched
    BY <2>3 DEF LinkUp, LinkDown, OutboundOpens, OutboundEstablished, OutboundClosed, Called
  <2> QED
    BY <1>3, <2>1, <2>2, <2>3 DEF LinkEvent
<1>4. CASE Answer
  <2>1. ASSUME NEW r \in Request, ListRefused(r)
        PROVE  propagationState' \notin {"PathRequested", "Complete"}
    BY <2>1 DEF ListRefused, ErrorCode
  <2>2. ASSUME NEW r \in Request, Listed(r)
        PROVE  \/ propagationState' = "Complete" /\ propagationProgress' = "full"
               \/ Untouched
    BY <2>2 DEF Listed, ListAnswered
  <2>3. ASSUME \/ \E r \in progressing : MessageGetProgress(r)
               \/ \E g \in getting : GetRefused(g)
        PROVE  propagationState' \notin {"PathRequested", "Complete"}
    BY <2>3 DEF MessageGetProgress, GetRefused, ErrorCode
  <2>4. ASSUME NEW h \in handling, Acknowledge(h)
        PROVE  propagationState' = "Complete" /\ propagationProgress' = "full"
    BY <2>4 DEF Acknowledge
  <2>5. ASSUME MessageGetFailed PROVE propagationState' = "TransferFailed"
    BY <2>5 DEF MessageGetFailed
  <2>6. ASSUME \/ \E g \in getting : GetAnswered(g)
               \/ \E h \in handling : \E m \in h.todo : Handle(h, m)
               \/ \E d \in dispatching : CheckDuplicate(d) \/ EmitReceived(d)
        PROVE  Untouched
    BY <2>6 DEF GetAnswered, Handle, CheckDuplicate, EmitReceived
  <2> QED
    BY <1>4, <2>1, <2>2, <2>3, <2>4, <2>5, <2>6 DEF Answer
<1>5. CASE Elsewhere
  BY <1>5 DEF Elsewhere, Cleanup, ReceiveDirectly
<1>6. CASE UNCHANGED vars
  BY <1>6 DEF vars
<1> QED
  BY <1>1, <1>2, <1>3, <1>4, <1>5, <1>6 DEF Next

LEMMA PathStep == TypeOK /\ PathHasWaiter /\ [Next]_vars => PathHasWaiter'
<1> SUFFICES ASSUME TypeOK, PathHasWaiter, [Next]_vars, propagationState' = "PathRequested"
             PROVE  \E k \in Request : waiting'[k] = propagationNode' /\ propagationNode' # NoNode
  BY DEF PathHasWaiter
<1>1. CASE Untouched
  BY <1>1 DEF PathHasWaiter, Untouched
<1>2. ASSUME UNCHANGED <<propagationState, propagationNode>>,
             NEW r \in Request, ~StillWaiting(r), waiting' = [waiting EXCEPT ![r] = NoNode]
      PROVE  \E k \in Request : waiting'[k] = propagationNode' /\ propagationNode' # NoNode
  <2>1. PICK k \in Request : waiting[k] = propagationNode /\ propagationNode # NoNode
    BY <1>2 DEF PathHasWaiter
  <2>2. k # r
    BY <1>2, <2>1 DEF StillWaiting
  <2>3. waiting'[k] = propagationNode'
    BY <1>2, <2>1, <2>2 DEF TypeOK, LinkTypeOK
  <2> QED
    BY <1>2, <2>1, <2>3
<1> QED
  BY <1>1, <1>2, TransferSteps

\* A request for a path is never forgotten: while the state tells of one, a
\* goroutine waits for the path to the node that is configured.
THEOREM PathIsAwaited == Spec => []PathHasWaiter
<1>1. Init => PathHasWaiter
  BY DEF Init, PathHasWaiter
<1> QED
  BY <1>1, PathStep, SyncTypes, PTL DEF Spec

\* Complete always comes with full progress, however the answers to several
\* requests and their progress callbacks interleave.
THEOREM CompleteWithProgress == Spec => []CompleteIsFull
<1>1. Init => CompleteIsFull
  BY DEF Init, CompleteIsFull
<1>2. TypeOK /\ CompleteIsFull /\ [Next]_vars => CompleteIsFull'
  BY TransferSteps DEF CompleteIsFull, Untouched
<1> QED
  BY <1>1, <1>2, SyncTypes, PTL DEF Spec

==============================================================================
