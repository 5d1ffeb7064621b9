--------------------------- MODULE PropagationSync ---------------------------
(***************************************************************************)
(* Fetching messages from a propagation node (PN).  The application asks,  *)
(* waits for a path if there is none, opens a link, lists what the node    *)
(* holds, gets what it wants, and tells the node what it may forget; each  *)
(* answer runs on a goroutine of RNS.  All of them, and the outbound side, *)
(* which opens links to the node as well, share one record of the node,    *)
(* the link and the transfer state, under propagationMu.                   *)
(*                                                                         *)
(* Source: device/node/propagation.go, and dispatchMessage of              *)
(* device/node/router.go for what becomes of a fetched message.            *)
(*                                                                         *)
(* An action is one critical section of propagationMu with the code around *)
(* it that changes nothing shared.  Request r of the application names the *)
(* goroutine that waits for a path and the link that is opened for it.     *)
(***************************************************************************)
EXTENDS Naturals

CONSTANTS
  Node,          \* propagation nodes
  Msg,           \* messages the nodes keep for us, by transient id
  Unreadable,    \* messages that do not decrypt, or do not parse
  Unstamped,     \* messages without a valid stamp, where EnforceStamps is set
  AlsoDirect,    \* messages that the sender delivers directly as well
  MaxRequests,   \* bound on the calls of RequestMessages
  OutboundLink,  \* links that attemptPropagated may open
  NoLink, NoNode \* nil

Request == 1..MaxRequests
Link    == Request \cup OutboundLink
Direct  == 0      \* in place of a request: the message came without one

ASSUME SyncAssumption ==
  /\ MaxRequests \in Nat
  /\ Unreadable \subseteq Msg /\ Unstamped \subseteq Msg
  /\ AlsoDirect \subseteq Msg \ Unreadable
  /\ OutboundLink \cap Request = {}
  /\ NoLink \notin Link
  /\ NoNode \notin Node

\* PropagationTransferState, without PRResponseReceived, which is never set.
TransferState ==
  {"Idle", "PathRequested", "LinkEstablishing", "LinkEstablished", "RequestSent",
   "Receiving", "Complete", "NoPath", "LinkFailed", "TransferFailed",
   "NoIdentityRcvd", "NoAccess", "Failed"}

VARIABLES
  propagationNode,      \* LXMRouter.propagationNode
  propagationLink,      \* LXMRouter.propagationLink
  propagationState,     \* LXMRouter.propagationState
  propagationProgress,  \* LXMRouter.propagationProgress: "zero", "some" or "full"
  propagationMu,        \* "free", or "held" between actions
  asked,                \* how many calls of RequestMessages were made
  waiting,              \* the node each waitForPropagationPath waits for
  status,               \* link.Status
  callbacks,            \* link callbacks RNS has yet to run
  leadsTo,              \* the node a link leads to
  identified,           \* links whose callback is about to send the list request
  listing,              \* links with an unanswered list request
  getting,              \* unanswered get requests: [by, over, wants]
  progressing,          \* requests whose get was sent: a goroutine of RNS may yet
                        \* run its progress callback, also after its response
  handling,             \* get responses being worked through: [by, todo, haves]
  dispatching,          \* calls of dispatchMessage: [msg, by, isNew], isNew once
                        \* deliveredMu has shown that the hash is new
  stored,               \* the messages each node keeps for us
  cleanup,              \* what nodes were told to forget, not yet arrived
  deliveredIDs,         \* LXMRouter.deliveredIDs: transient ids and hashes
  copies                \* history: MessageReceived events per message

nodeVars    == <<propagationNode, propagationLink>>
stateVars   == <<propagationState, propagationProgress, propagationMu>>
waitVars    == <<asked, waiting>>
linkVars    == <<status, callbacks, leadsTo>>
requestVars == <<identified, listing, getting, progressing, handling>>
messageVars == <<dispatching, deliveredIDs, copies, stored, cleanup>>
vars == <<nodeVars, stateVars, waitVars, linkVars, requestVars, messageVars>>

StateTypeOK ==
  /\ propagationNode \in Node \cup {NoNode}
  /\ propagationLink \in Link \cup {NoLink}
  /\ propagationState \in TransferState
  /\ propagationProgress \in {"zero", "some", "full"}
  /\ propagationMu \in {"free", "held"}

LinkTypeOK ==
  /\ asked \in 0..MaxRequests
  /\ waiting \in [Request -> Node \cup {NoNode}]
  /\ status \in [Link -> {"none", "pending", "active", "closed"}]
  /\ callbacks \subseteq Link \X {"established", "closed"}
  /\ leadsTo \in [Link -> Node \cup {NoNode}]

RequestTypeOK ==
  /\ identified \subseteq Request
  /\ listing \subseteq Request
  /\ getting \subseteq [by : Request, over : Link, wants : SUBSET Msg]
  /\ progressing \subseteq Request
  /\ handling \subseteq [by : Request, todo : SUBSET Msg, haves : SUBSET Msg]

MessageTypeOK ==
  /\ dispatching \subseteq [msg : Msg, by : Request \cup {Direct}, isNew : BOOLEAN]
  /\ deliveredIDs \subseteq {"transient", "hash"} \X Msg
  /\ copies \in [Msg -> Nat]
  /\ stored \in [Node -> SUBSET Msg]
  /\ cleanup \subseteq Node \X Msg

TypeOK == StateTypeOK /\ LinkTypeOK /\ RequestTypeOK /\ MessageTypeOK

-----------------------------------------------------------------------------
\* link.Teardown, as RNS shows it to the router.
TearDown(l) ==
  IF status[l] \in {"pending", "active"}
  THEN /\ status' = [status EXCEPT ![l] = "closed"]
       /\ callbacks' = callbacks \cup {<<l, "closed">>}
  ELSE UNCHANGED <<status, callbacks>>

\* if r.propagationLink != nil { r.propagationLink.Teardown() }
TearDownPropagationLink ==
  /\ IF propagationLink = NoLink THEN UNCHANGED <<status, callbacks>>
     ELSE TearDown(propagationLink)
  /\ UNCHANGED leadsTo

Become(s) == propagationState' = s
BecomeComplete == Become("Complete") /\ propagationProgress' = "full"

LinkIsActive == propagationLink # NoLink /\ status[propagationLink] = "active"

Known(kind) == {m \in Msg : <<kind, m>> \in deliveredIDs}

-----------------------------------------------------------------------------
Init ==
  /\ propagationNode = NoNode
  /\ propagationLink = NoLink
  /\ propagationState = "Idle"
  /\ propagationProgress = "zero"
  /\ propagationMu = "free"
  /\ asked = 0
  /\ waiting = [r \in Request |-> NoNode]
  /\ status = [l \in Link |-> "none"]
  /\ callbacks = {}
  /\ leadsTo = [l \in Link |-> NoNode]
  /\ identified = {}
  /\ listing = {}
  /\ getting = {}
  /\ progressing = {}
  /\ handling = {}
  /\ dispatching = {}
  /\ stored = [n \in Node |-> Msg]
  /\ cleanup = {}
  /\ deliveredIDs = {}
  /\ copies = [m \in Msg |-> 0]

(* The application.                                                        *)

\* Variant: the transfer state survives the switch.
SwitchKeepingState(n) ==
  /\ propagationMu = "free"
  /\ IF propagationLink # NoLink /\ propagationNode # n
     THEN TearDownPropagationLink /\ propagationLink' = NoLink
     ELSE UNCHANGED <<linkVars, propagationLink>>
  /\ propagationNode' = n
  /\ UNCHANGED <<stateVars, waitVars, requestVars, messageVars>>

\* nil clears the node.
SetOutboundPropagationNode(n) ==
  /\ propagationMu = "free"
  /\ IF propagationLink # NoLink /\ propagationNode # n
     THEN TearDownPropagationLink /\ propagationLink' = NoLink
     ELSE UNCHANGED <<linkVars, propagationLink>>
  /\ propagationNode' = n
  /\ Become("Idle") /\ propagationProgress' = "zero"
  /\ UNCHANGED <<propagationMu, waitVars, requestVars, messageVars>>

CancelPropagationNodeRequests ==
  /\ propagationMu = "free"
  /\ TearDownPropagationLink
  /\ propagationLink' = NoLink
  /\ Become("Idle") /\ propagationProgress' = "zero"
  /\ UNCHANGED <<propagationNode, propagationMu, waitVars, requestVars, messageVars>>

\* establishPropagationLink for request r, under propagationMu.
EstablishPropagationLink(r, n) ==
  \/ Become("Failed") /\ UNCHANGED linkVars
  \/ Become("LinkFailed") /\ UNCHANGED linkVars
  \/ /\ Become("LinkEstablishing")
     /\ status' = [status EXCEPT ![r] = "pending"]
     /\ leadsTo' = [leadsTo EXCEPT ![r] = n]
     /\ UNCHANGED callbacks

Asking == /\ propagationMu = "free"
          /\ propagationNode # NoNode
          /\ asked < MaxRequests
          /\ asked' = asked + 1
          /\ propagationProgress' = "zero"

\* With an active link, sendListRequest is called under propagationMu and
\* locks it again: it never returns, and the mutex is never unlocked.
RequestOverActiveLink ==
  /\ Asking
  /\ LinkIsActive
  /\ Become("LinkEstablished")
  /\ propagationMu' = "held"
  /\ UNCHANGED <<nodeVars, waiting, linkVars, requestVars, messageVars>>

\* The path to the node is known, or it is not.
RequestOverNewLink ==
  /\ Asking
  /\ ~LinkIsActive
  /\ propagationLink' = NoLink
  /\ \/ /\ EstablishPropagationLink(asked + 1, propagationNode)
        /\ UNCHANGED waiting
     \/ /\ Become("PathRequested")
        /\ waiting' = [waiting EXCEPT ![asked + 1] = propagationNode]
        /\ UNCHANGED linkVars
  /\ UNCHANGED <<propagationNode, propagationMu, requestVars, messageVars>>

-----------------------------------------------------------------------------
(* waitForPropagationPath.                                                 *)

StillWaiting(r) ==
  propagationNode = waiting[r] /\ propagationState = "PathRequested"

WaiterReturns(r) ==
  /\ propagationMu = "free"
  /\ waiting[r] # NoNode
  /\ waiting' = [waiting EXCEPT ![r] = NoNode]
  /\ UNCHANGED <<asked, nodeVars, propagationProgress, propagationMu, requestVars,
                 messageVars>>

PathFound(r) ==
  /\ WaiterReturns(r)
  /\ IF StillWaiting(r) THEN EstablishPropagationLink(r, waiting[r])
     ELSE UNCHANGED <<propagationState, linkVars>>

\* Variant: the deadline passes without a word.
PathTimeoutSilent(r) ==
  /\ WaiterReturns(r)
  /\ UNCHANGED <<propagationState, linkVars>>

PathTimeout(r) ==
  /\ WaiterReturns(r)
  /\ IF StillWaiting(r) THEN Become("NoPath") ELSE UNCHANGED propagationState
  /\ UNCHANGED linkVars

-----------------------------------------------------------------------------
(* Links.                                                                  *)

LinkUp(l) ==
  /\ status[l] = "pending"
  /\ status' = [status EXCEPT ![l] = "active"]
  /\ callbacks' = callbacks \cup {<<l, "established">>}
  /\ UNCHANGED <<leadsTo, nodeVars, stateVars, waitVars, requestVars, messageVars>>

LinkDown(l) ==
  /\ status[l] \in {"pending", "active"}
  /\ TearDown(l)
  /\ UNCHANGED <<leadsTo, nodeVars, stateVars, waitVars, requestVars, messageVars>>

Called(l, kind) ==
  /\ propagationMu = "free"
  /\ <<l, kind>> \in callbacks
  /\ callbacks' = callbacks \ {<<l, kind>>}
  /\ UNCHANGED <<status, leadsTo, propagationNode, propagationProgress,
                 propagationMu, waitVars, listing, getting, progressing, handling,
                 messageVars>>

\* The callbacks of establishPropagationLink's link.
SyncEstablished(r) ==
  /\ Called(r, "established")
  /\ propagationLink' = r
  /\ Become("LinkEstablished")
  /\ identified' = identified \cup {r}

SyncClosed(r) ==
  /\ Called(r, "closed")
  /\ IF propagationLink = r
     THEN /\ propagationLink' = NoLink
          /\ Become(IF propagationState = "Complete" THEN "Complete" ELSE "LinkFailed")
     ELSE UNCHANGED <<propagationLink, propagationState>>
  /\ UNCHANGED identified

\* Those of attemptPropagated's link, which leave the transfer state alone.
OutboundOpens(l) ==
  /\ propagationMu = "free"
  /\ status[l] = "none"
  /\ propagationNode # NoNode /\ ~LinkIsActive
  /\ status' = [status EXCEPT ![l] = "pending"]
  /\ leadsTo' = [leadsTo EXCEPT ![l] = propagationNode]
  /\ UNCHANGED <<callbacks, nodeVars, stateVars, waitVars, requestVars, messageVars>>

OutboundEstablished(l) ==
  /\ Called(l, "established")
  /\ propagationLink' = l
  /\ UNCHANGED <<propagationState, identified>>

OutboundClosed(l) ==
  /\ Called(l, "closed")
  /\ propagationLink' = IF propagationLink = l THEN NoLink ELSE propagationLink
  /\ UNCHANGED <<propagationState, identified>>

-----------------------------------------------------------------------------
(* Requests over the link, and their answers.                              *)

SendListRequest(r) ==
  /\ propagationMu = "free"
  /\ r \in identified
  /\ identified' = identified \ {r}
  /\ Become("RequestSent")
  /\ listing' = listing \cup {r}
  /\ UNCHANGED <<nodeVars, propagationProgress, propagationMu, waitVars, linkVars,
                 getting, progressing, handling, messageVars>>

\* An answer that is an error code.
ErrorCode ==
  /\ \E s \in {"NoIdentityRcvd", "NoAccess", "Failed"} : Become(s)
  /\ TearDownPropagationLink
  /\ UNCHANGED <<propagationProgress, propagationLink>>

\* messageListResponse, in its part of an answer to request r.
ListAnswered(r) ==
  /\ propagationMu = "free"
  /\ r \in listing
  /\ listing' = listing \ {r}
  /\ UNCHANGED <<propagationNode, propagationMu, waitVars, identified, handling,
                 dispatching, deliveredIDs, copies, stored>>

ListRefused(r) ==
  /\ ListAnswered(r)
  /\ \/ ErrorCode
     \/ /\ Become("TransferFailed")      \* not a list
        /\ TearDownPropagationLink
        /\ UNCHANGED <<propagationProgress, propagationLink>>
  /\ UNCHANGED <<getting, progressing, cleanup>>

\* Variant: what was asked for is reported as had with the request.
ListedAllHad(r) ==
  /\ ListAnswered(r)
  /\ LinkIsActive
  /\ LET ids == stored[leadsTo[r]] IN
       /\ ids # {}
       /\ cleanup' = cleanup \cup ({leadsTo[propagationLink]} \X ids)
       /\ getting' = getting \cup {[by |-> r, over |-> propagationLink, wants |-> ids]}
       /\ progressing' = progressing \cup {r}
  /\ UNCHANGED <<propagationState, propagationProgress, propagationLink, linkVars>>

\* What to get and what to report as had is decided by transient id.  A node
\* may list nothing, and what we already have.
Listed(r) ==
  /\ ListAnswered(r)
  /\ LET ids   == stored[leadsTo[r]]
         haves == ids \cap Known("transient")
         wants == ids \ haves
         node  == leadsTo[propagationLink]
     IN  /\ IF ~LinkIsActive THEN UNCHANGED cleanup
            ELSE cleanup' = cleanup \cup ({node} \X haves)
         /\ IF ~LinkIsActive \/ wants = {} THEN UNCHANGED <<getting, progressing>>
            ELSE /\ getting' = getting \cup
                      {[by |-> r, over |-> propagationLink, wants |-> wants]}
                 /\ progressing' = progressing \cup {r}
         /\ IF wants = {} THEN BecomeComplete
            ELSE UNCHANGED <<propagationState, propagationProgress>>
  /\ UNCHANGED <<propagationLink, linkVars>>

\* Variant: progress alone is noted.
ProgressOnly(r) ==
  /\ propagationMu = "free"
  /\ r \in progressing
  /\ propagationProgress' \in {"some", "full"}
  /\ UNCHANGED <<propagationState, nodeVars, propagationMu, waitVars, linkVars,
                 requestVars, messageVars>>

\* It asks neither whether the response was handled already, nor whether it is
\* the state of another request, or of another node, that it overwrites.
MessageGetProgress(r) ==
  /\ propagationMu = "free"
  /\ r \in progressing
  /\ Become("Receiving")
  /\ propagationProgress' \in {"some", "full"}
  /\ UNCHANGED <<nodeVars, propagationMu, waitVars, linkVars, requestVars, messageVars>>

\* messageGetResponse with an answer that holds no messages.
GetRefused(g) ==
  /\ propagationMu = "free"
  /\ g \in getting
  /\ getting' = getting \ {g}
  /\ \/ ErrorCode
     \/ /\ Become("TransferFailed")      \* not a list: the link stays up
        /\ UNCHANGED <<propagationProgress, propagationLink, linkVars>>
  /\ UNCHANGED <<propagationNode, propagationMu, waitVars, identified, listing,
                 progressing, handling, messageVars>>

\* messageGetResponse starts on the messages the node sent: all that were
\* wanted and it still has, or as many as the limit allows.
GetAnswered(g) ==
  /\ g \in getting
  /\ getting' = getting \ {g}
  /\ \E sent \in SUBSET (g.wants \cap stored[leadsTo[g.over]]) :
       handling' = handling \cup {[by |-> g.by, todo |-> sent, haves |-> sent]}
  /\ UNCHANGED <<nodeVars, stateVars, waitVars, linkVars, identified, listing,
                 progressing, messageVars>>

Busy(r) == \E d \in dispatching : d.by = r

\* One message of the answer, up to its call of dispatchMessage.
Handle(h, m) ==
  /\ h \in handling /\ m \in h.todo /\ ~Busy(h.by)
  /\ handling' = (handling \ {h}) \cup {[h EXCEPT !.todo = @ \ {m}]}
  /\ IF m \in Unreadable THEN UNCHANGED <<deliveredIDs, dispatching>>
     ELSE /\ deliveredIDs' = deliveredIDs \cup {<<"transient", m>>}
          /\ dispatching' = dispatching \cup {[msg |-> m, by |-> h.by, isNew |-> FALSE]}
  /\ UNCHANGED <<nodeVars, stateVars, waitVars, linkVars, identified, listing,
                 getting, progressing, copies, stored, cleanup>>

\* Variant: no duplicate is dropped.
CheckNothing(d) ==
  /\ d \in dispatching /\ ~d.isNew
  /\ deliveredIDs' = deliveredIDs \cup {<<"hash", d.msg>>}
  /\ dispatching' = (dispatching \ {d}) \cup
       {c \in {[d EXCEPT !.isNew = TRUE]} : d.msg \notin Unstamped}
  /\ UNCHANGED <<nodeVars, stateVars, waitVars, linkVars, requestVars, copies, stored,
                 cleanup>>

\* Variant: a marked transient id counts as a duplicate too.
CheckBothIDs(d) ==
  /\ d \in dispatching /\ ~d.isNew
  /\ deliveredIDs' = deliveredIDs \cup {<<"hash", d.msg>>}
  /\ dispatching' = (dispatching \ {d}) \cup
       {c \in {[d EXCEPT !.isNew = TRUE]} :
          d.msg \notin Known("hash") \cup Known("transient") \cup Unstamped}
  /\ UNCHANGED <<nodeVars, stateVars, waitVars, linkVars, requestVars, copies, stored,
                 cleanup>>

\* dispatchMessage up to its return, or to the event that it will emit.
CheckDuplicate(d) ==
  /\ d \in dispatching /\ ~d.isNew
  /\ deliveredIDs' = deliveredIDs \cup {<<"hash", d.msg>>}
  /\ dispatching' = (dispatching \ {d}) \cup
       {c \in {[d EXCEPT !.isNew = TRUE]} : d.msg \notin Known("hash") \cup Unstamped}
  /\ UNCHANGED <<nodeVars, stateVars, waitVars, linkVars, requestVars, copies, stored,
                 cleanup>>

\* emit(MessageReceived).
EmitReceived(d) ==
  /\ d \in dispatching /\ d.isNew
  /\ dispatching' = dispatching \ {d}
  /\ copies' = [copies EXCEPT ![d.msg] = @ + 1]
  /\ UNCHANGED <<nodeVars, stateVars, waitVars, linkVars, requestVars, deliveredIDs,
                 stored, cleanup>>

\* The end of messageGetResponse.
Acknowledge(h) ==
  /\ propagationMu = "free"
  /\ h \in handling /\ h.todo = {} /\ ~Busy(h.by)
  /\ handling' = handling \ {h}
  /\ cleanup' = IF LinkIsActive
                THEN cleanup \cup ({leadsTo[propagationLink]} \X h.haves) ELSE cleanup
  /\ BecomeComplete
  /\ UNCHANGED <<nodeVars, propagationMu, waitVars, linkVars, identified, listing,
                 getting, progressing, dispatching, deliveredIDs, copies, stored>>

\* messageGetFailed, of a list or of a get request.
MessageGetFailed ==
  /\ propagationMu = "free"
  /\ \/ \E r \in listing : listing' = listing \ {r} /\ UNCHANGED getting
     \/ \E g \in getting : getting' = getting \ {g} /\ UNCHANGED listing
  /\ Become("TransferFailed")
  /\ TearDownPropagationLink
  /\ propagationLink' = NoLink
  /\ UNCHANGED <<propagationNode, propagationProgress, propagationMu, waitVars,
                 identified, progressing, handling, messageVars>>

\* The node learns what it may forget; a cleanup request may also be lost.
Cleanup(n, m) ==
  /\ <<n, m>> \in cleanup
  /\ cleanup' = cleanup \ {<<n, m>>}
  /\ stored' = [stored EXCEPT ![n] = @ \ {m}]
  /\ UNCHANGED <<nodeVars, stateVars, waitVars, linkVars, requestVars, dispatching,
                 deliveredIDs, copies>>

\* The message comes over a link or as a packet.
ReceiveDirectly(m) ==
  /\ dispatching' = dispatching \cup {[msg |-> m, by |-> Direct, isNew |-> FALSE]}
  /\ UNCHANGED <<nodeVars, stateVars, waitVars, linkVars, requestVars, deliveredIDs,
                 copies, stored, cleanup>>

-----------------------------------------------------------------------------
Application ==
  \/ \E n \in Node \cup {NoNode} : SetOutboundPropagationNode(n)
  \/ CancelPropagationNodeRequests
  \/ RequestOverActiveLink
  \/ RequestOverNewLink

Waiter(r) == PathFound(r) \/ PathTimeout(r)

LinkEvent ==
  \/ \E l \in Link : LinkUp(l) \/ LinkDown(l)
  \/ \E r \in Request : SyncEstablished(r) \/ SyncClosed(r) \/ SendListRequest(r)
  \/ \E l \in OutboundLink :
       OutboundOpens(l) \/ OutboundEstablished(l) \/ OutboundClosed(l)

Answer ==
  \/ \E r \in Request : ListRefused(r) \/ Listed(r)
  \/ \E r \in progressing : MessageGetProgress(r)
  \/ \E g \in getting : GetRefused(g) \/ GetAnswered(g)
  \/ \E h \in handling : Acknowledge(h) \/ \E m \in h.todo : Handle(h, m)
  \/ \E d \in dispatching : CheckDuplicate(d) \/ EmitReceived(d)
  \/ MessageGetFailed

Elsewhere ==
  \/ \E n \in Node, m \in Msg : Cleanup(n, m)
  \/ \E m \in AlsoDirect : ReceiveDirectly(m)

Next == Application \/ (\E r \in Request : Waiter(r)) \/ LinkEvent \/ Answer \/ Elsewhere

Spec == Init /\ [][Next]_vars

\* A goroutine that waits for a path polls until its deadline; a link that is
\* being established comes up or times out, and RNS runs the callbacks it owes;
\* a goroutine that dispatches a message gets on with it.  A node need not
\* answer, and the application need not ask.
Fairness ==
  /\ \A r \in Request : WF_vars(Waiter(r))
  /\ \A l \in Link : WF_vars(status[l] = "pending" /\ (LinkUp(l) \/ LinkDown(l)))
  /\ \A r \in Request : WF_vars(SyncEstablished(r)) /\ WF_vars(SyncClosed(r))
  /\ \A m \in Msg : /\ WF_vars(\E d \in dispatching : d.msg = m /\ CheckDuplicate(d))
                     /\ WF_vars(\E d \in dispatching : d.msg = m /\ EmitReceived(d))

FairSpec == Spec /\ Fairness

-----------------------------------------------------------------------------
(* Correctness.                                                            *)

\* While the state says that a path was asked for, a goroutine waits for the
\* path to the configured node: however nodes are switched and requests are
\* repeated and cancelled, the request is not forgotten.
PathHasWaiter ==
  propagationState = "PathRequested"
    => \E r \in Request : waiting[r] = propagationNode /\ propagationNode # NoNode

\* A path request comes to an end, found or not.
PathRequestEnds == propagationState = "PathRequested" ~> propagationState # "PathRequested"

\* "Complete" comes with full progress, also when answers to two requests, late
\* progress callbacks and a new request interleave.
CompleteIsFull == propagationState = "Complete" => propagationProgress = "full"

\* What the router took on for the application, by either key.
Accepted == (Known("transient") \cup Known("hash")) \ Unstamped
Settled  == Accepted \cup Unreadable \cup Unstamped

\* A link leads somewhere from the moment it is opened, and only opened links
\* have callbacks and requests.
LinksOpened ==
  /\ \A l \in Link : status[l] # "none" => leadsTo[l] \in Node
  /\ \A c \in callbacks : status[c[1]] # "none"
  /\ \A r \in identified \cup listing : status[r] # "none"
  /\ \A g \in getting : status[g.over] # "none"

\* One call of dispatchMessage per message gets past the duplicate check, and
\* the event it will emit is the first.
OneWinner ==
  /\ \A d \in dispatching :
       /\ d.msg \notin Unreadable
       /\ d.isNew => d.msg \in Known("hash") \ Unstamped /\ copies[d.msg] = 0
  /\ \A c, d \in dispatching : c.isNew /\ d.isNew /\ c.msg = d.msg => c = d
  /\ \A m \in Msg : copies[m] # 0 => m \in Known("hash")

\* What is acknowledged, or about to be, was settled before.
AcksSettled ==
  /\ \A c \in cleanup : c[2] \in Settled
  /\ \A h \in handling : h.haves \ h.todo \subseteq Settled

\* What makes the refinement of Mailbox inductive.
SyncInv == TypeOK /\ LinksOpened /\ OneWinner /\ AcksSettled

\* Fetching implements the mailbox: no message is accepted or given to the
\* application twice, though it is listed by two nodes, got over two links and
\* received directly at the same time; and a node forgets only what the router
\* accepted.
M == INSTANCE Mailbox WITH
       Undeliverable <- Unreadable \cup Unstamped, accepted <- Accepted

ImplementsMailbox == M!Spec

\* A message whose transient id is marked as delivered, so that it is asked for
\* no more, does reach the application, or is dropped for its stamp.
MarkedIsGiven ==
  \A m \in Msg \ Unstamped :
    (m \in Known("transient") \cup Known("hash")) ~> copies[m] > 0
==============================================================================
