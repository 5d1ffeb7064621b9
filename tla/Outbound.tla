------------------------------ MODULE Outbound ------------------------------
(***************************************************************************)
(* The outbound half of the LXMF router: the queue of messages waiting for *)
(* delivery, the goroutine that attempts them every few seconds, the three *)
(* delivery methods, and the callbacks by which the Reticulum stack (RNS)  *)
(* answers later, on goroutines of its own.                                *)
(*                                                                         *)
(* Source: device/node/outbound.go, Send and below in device/node/router.go*)
(* and attemptPropagated and below in device/node/propagation.go.          *)
(*                                                                         *)
(* A call of Send is named by its number, which is also the position of    *)
(* its entry in the queue; so the queue is a set of numbers and the first  *)
(* entry that has a property is the least one.                             *)
(*                                                                         *)
(* Attempt a of entry e is <<e, a>>; it names the link that the attempt    *)
(* opens and the transfer that it starts.                                  *)
(*                                                                         *)
(* The entries of several calls may share one *LXMessage.  Callbacks find  *)
(* an entry by its message's hash, which changes when a call of Send signs *)
(* the message anew; so a hash is a message and one of its versions.       *)
(***************************************************************************)
EXTENDS Naturals

CONSTANTS
  Dest,                 \* destination hashes of the recipients
  Msg,                  \* LXMessages
  DestOf,               \* the recipient of each message
  Node,                 \* propagation nodes
  Calls,                \* what callers may ask, call by call, of Send
  MaxSends,             \* bound on the calls of Send
  MaxDeliveryAttempts,  \* maxDeliveryAttempts
  MaxHashes,            \* bound on the hashes a message takes
  NoLink, NoNode        \* nil

Method == {"opportunistic", "direct", "propagated"}

\* "small" fits every packet, "medium" a link packet but not an encrypted one
\* and not one wrapped for propagation, "large" needs a resource transfer.
Size == {"small", "medium", "large"}

State == {"generating", "outbound", "sending", "sent", "delivered",
          "rejected", "cancelled", "failed"}

\* The arguments of Send: the message, as it is signed and packed, and how.
Offer == [msg : Msg, method : Method, size : Size]

Entry   == 1..MaxSends
Attempt == Entry \X (1..MaxDeliveryAttempts)
Hash    == 1..MaxHashes

\* What tells the application how a message fared.
Conclusive == {"sent", "failed"}

ASSUME OutboundAssumption ==
  /\ MaxSends \in Nat
  /\ MaxDeliveryAttempts \in Nat \ {0}
  /\ MaxHashes \in Nat \ {0}
  /\ DestOf \in [Msg -> Dest]
  /\ Calls \subseteq [Entry -> Offer]
  /\ NoLink \notin Attempt
  /\ NoNode \notin Node

VARIABLES
  call,             \* what each call of Send asks, fixed from the start
  hash,             \* LXMessage.Hash
  state,            \* entry.State
  attempts,         \* entry.Attempts
  due,              \* entry.NextAttempt has been reached
  queue,            \* outboundQueue.entries
  batch,            \* what the loop still has to attempt of ready()'s result
  loop,             \* where processOutboundLoop stands
  stopped,          \* stopCh is closed
  status,           \* link.Status, for the link an attempt opens
  callbacks,        \* link callbacks RNS has yet to run
  nodeOf,           \* the node a propagation link leads to
  directLinks,      \* LXMRouter.directLinks
  propagationNode,  \* LXMRouter.propagationNode
  propagationLink,  \* LXMRouter.propagationLink
  found,            \* the entry a propagation callback looked up, 0 for none
  msgHash,          \* the hash that the callbacks of an attempt hold
  starting,         \* attempts back from NewResource, which have yet to set State
  transfer,         \* what is in flight for an attempt
  handed,           \* history: the attempts whose message RNS accepted
  untold,           \* what callbacks that marked an entry have yet to report
  reported          \* history: the states DeliveryUpdate gave per message

entryVars  == <<call, hash, state, attempts, due>>
loopVars   == <<queue, batch, loop, stopped>>
linkVars   == <<status, callbacks, nodeOf, directLinks>>
nodeVars   == <<propagationNode, propagationLink>>
sendVars   == <<found, msgHash, starting>>
reportVars == <<transfer, handed, untold, reported>>
vars       == <<entryVars, loopVars, linkVars, nodeVars, sendVars, reportVars>>

EntryTypeOK ==
  /\ call \in [Entry -> Offer]
  /\ hash \in [Msg -> Hash]
  /\ state \in [Entry -> State]
  /\ attempts \in [Entry -> 0..MaxDeliveryAttempts]
  /\ due \in [Entry -> BOOLEAN]

LoopTypeOK ==
  /\ queue \subseteq Entry
  /\ batch \subseteq queue
  /\ loop \in {"select", "processing", "exited"}
  /\ stopped \in BOOLEAN

LinkTypeOK ==
  /\ status \in [Attempt -> {"none", "pending", "active", "closed"}]
  /\ callbacks \subseteq Attempt \X {"established", "closed"}
  /\ nodeOf \in [Attempt -> Node \cup {NoNode}]
  /\ directLinks \in [Dest -> Attempt \cup {NoLink}]

NodeTypeOK ==
  /\ propagationNode \in Node \cup {NoNode}
  /\ propagationLink \in Attempt \cup {NoLink}

SendTypeOK ==
  /\ found \in [Attempt -> Entry \cup {0}]
  /\ msgHash \in [Attempt -> Hash]
  /\ starting \subseteq Attempt

ReportTypeOK ==
  /\ transfer \in [Attempt -> {"none", "packet", "resource"}]
  /\ handed \subseteq Attempt
  /\ untold \in [Attempt -> SUBSET Conclusive]
  /\ reported \in [Msg -> SUBSET State]

TypeOK ==
  /\ EntryTypeOK /\ LoopTypeOK /\ LinkTypeOK /\ NodeTypeOK /\ SendTypeOK
  /\ ReportTypeOK

-----------------------------------------------------------------------------
MsgOf(e) == call[e].msg

\* Send escalates an opportunistic message that exceeds the encrypted MDU.
MethodOf(e) ==
  IF call[e].method = "opportunistic" /\ call[e].size # "small"
  THEN "direct" ELSE call[e].method

\* len(data) <= link.MDU, for Packed and for PropagationPacked.  An entry
\* that was not sent by propagation has no PropagationPacked: nil fits.
FitsLink(e)       == call[e].size # "large"
FitsPropagated(e) == MethodOf(e) = "propagated" => call[e].size = "small"

\* Variant: ready() also skips entries whose attempt is under way.
CompletedOrSending == {"sent", "delivered", "failed", "cancelled", "sending"}

\* The states ready() skips, and those removeFinished() drops.
Completed == {"sent", "delivered", "failed", "cancelled"}
Finished(e) ==
  \/ state[e] \in {"delivered", "failed", "cancelled"}
  \/ state[e] = "sent" /\ MethodOf(e) = "opportunistic"

Report(m, states) == reported' = [reported EXCEPT ![m] = @ \cup states]

Set(e, s)  == state' = [state EXCEPT ![e] = s]
WaitFor(e) == Set(e, "outbound") /\ due' = [due EXCEPT ![e] = FALSE]

\* A search of the queue for the hash that attempt id holds ends at e.
IsFirst(e, id) ==
  /\ e \in queue /\ MsgOf(e) = MsgOf(id[1])
  /\ hash[MsgOf(e)] = msgHash[id]
  /\ \A f \in queue : MsgOf(f) = MsgOf(e) => e <= f

\* markState: the states after it.
Marked(id, s) == [e \in Entry |-> IF IsFirst(e, id) THEN s ELSE state[e]]

\* link.Teardown of every link in L, as RNS shows it to the router.
TearDown(L) ==
  LET open == {l \in L : status[l] \in {"pending", "active"}}
  IN  /\ status' = [l \in Attempt |-> IF l \in open THEN "closed" ELSE status[l]]
      /\ callbacks' = callbacks \cup (open \X {"closed"})

OpenLink(l, n) ==
  /\ status' = [status EXCEPT ![l] = "pending"]
  /\ nodeOf' = [nodeOf EXCEPT ![l] = n]
  /\ UNCHANGED <<callbacks, directLinks>>

-----------------------------------------------------------------------------
Init ==
  /\ call \in Calls
  /\ hash = [m \in Msg |-> 1]
  /\ state = [e \in Entry |-> "generating"]
  /\ attempts = [e \in Entry |-> 0]
  /\ due = [e \in Entry |-> TRUE]
  /\ queue = {}
  /\ batch = {}
  /\ loop = "select"
  /\ stopped = FALSE
  /\ status = [l \in Attempt |-> "none"]
  /\ callbacks = {}
  /\ nodeOf = [l \in Attempt |-> NoNode]
  /\ directLinks = [d \in Dest |-> NoLink]
  /\ propagationNode = NoNode
  /\ propagationLink = NoLink
  /\ found = [l \in Attempt |-> 0]
  /\ msgHash = [l \in Attempt |-> 1]
  /\ starting = {}
  /\ transfer = [l \in Attempt |-> "none"]
  /\ handed = {}
  /\ untold = [l \in Attempt |-> {}]
  /\ reported = [m \in Msg |-> {}]

\* Send signs the message before it queues an entry, or fails to.  The hash
\* changes with the payload, also for the entries that are queued already.
Sign(e) ==
  /\ state[e] = "generating"
  /\ \E h \in Hash : hash' = [hash EXCEPT ![MsgOf(e)] = h]
  /\ UNCHANGED <<call, state, attempts, due, loopVars, linkVars, nodeVars, sendVars,
                 reportVars>>

\* Send, when signing and packing succeed: otherwise nothing is queued.  Only
\* an opportunistic message may have to wait for a path before its first try.
Send(e) ==
  /\ state[e] = "generating"
  /\ \A f \in Entry : f < e => state[f] # "generating"
  /\ \E now \in {TRUE} \cup {MethodOf(e) # "opportunistic"} :
        due' = [due EXCEPT ![e] = now]
  /\ Set(e, "outbound")
  /\ queue' = queue \cup {e}
  /\ Report(MsgOf(e), {"outbound"})
  /\ UNCHANGED <<call, hash, attempts, batch, loop, stopped, linkVars, nodeVars,
                 sendVars, transfer, handed, untold>>

\* The clock reaches an entry's NextAttempt.
TimePasses(e) ==
  /\ ~due[e]
  /\ due' = [due EXCEPT ![e] = TRUE]
  /\ UNCHANGED <<call, hash, state, attempts, loopVars, linkVars, nodeVars, sendVars,
                 reportVars>>

-----------------------------------------------------------------------------
(* The loop goroutine.                                                     *)

\* The ticker fires: processOutbound takes its snapshot, ready().
Tick ==
  /\ loop = "select"
  /\ loop' = "processing"
  /\ batch' = {e \in queue : state[e] \notin Completed /\ due[e]}
  /\ UNCHANGED <<entryVars, queue, stopped, linkVars, nodeVars, sendVars, reportVars>>

\* The loop is not in the middle of an attempt: what is starting was looked up
\* by callbacks.
Between == \A id \in starting : found[id] # 0

\* The entry of the snapshot whose turn it is.
Taking(e) ==
  /\ loop = "processing" /\ Between
  /\ e \in batch /\ \A f \in batch : e <= f
  /\ batch' = batch \ {e}
  /\ UNCHANGED <<call, hash, queue, loop, stopped>>

\* Variant: one attempt too few.
GiveUpTooSoon(e) ==
  /\ Taking(e)
  /\ attempts[e] + 1 >= MaxDeliveryAttempts
  /\ Set(e, "failed")
  /\ Report(MsgOf(e), {"failed"})
  /\ UNCHANGED <<attempts, due, linkVars, nodeVars, sendVars, transfer, handed, untold>>

\* Max delivery attempts reached.
GiveUp(e) ==
  /\ Taking(e)
  /\ attempts[e] >= MaxDeliveryAttempts
  /\ Set(e, "failed")
  /\ Report(MsgOf(e), {"failed"})
  /\ UNCHANGED <<attempts, due, linkVars, nodeVars, sendVars, transfer, handed, untold>>

\* Variant: one attempt too many.
TryingTooOften(e) ==
  /\ Taking(e)
  /\ attempts[e] <= MaxDeliveryAttempts
  /\ attempts' = [attempts EXCEPT ![e] = @ + 1]

\* processOutbound starts an attempt.
Trying(e) ==
  /\ Taking(e)
  /\ attempts[e] < MaxDeliveryAttempts
  /\ attempts' = [attempts EXCEPT ![e] = @ + 1]

This(e) == <<e, attempts[e] + 1>>

\* getActiveDirectLink finds one.
HasDirectLink(e) ==
  LET l == directLinks[DestOf[MsgOf(e)]]
  IN  l # NoLink /\ status[l] = "active"

\* Variant: "sent" is reported before the receipt is looked at.
SendOverLinkUnchecked(id, l, also) ==
  \/ /\ handed' = handed \cup {id}
     /\ transfer' = [transfer EXCEPT ![id] = "packet"]
     /\ Report(MsgOf(id[1]), {"sent"} \cup also)
  \/ /\ Report(MsgOf(id[1]), {"sent", "failed"} \cup also)
     /\ UNCHANGED <<handed, transfer>>

\* Variant: the callbacks are set on a packet that yielded no receipt as well.
SendOverLinkAwaits(id, l, also) ==
  /\ transfer' = [transfer EXCEPT ![id] = "packet"]
  /\ \/ handed' = handed \cup {id} /\ Report(MsgOf(id[1]), {"sent"} \cup also)
     \/ handed' = handed /\ Report(MsgOf(id[1]), {"failed"} \cup also)

\* sendOverLink over l, for attempt id.  A link packet over a link that is no
\* longer active yields no receipt; a resource object is created regardless.
\* also: what the caller reports after it.
SendOverLink(id, l, also) ==
  LET m == MsgOf(id[1])
  IN  \/ /\ status[l] = "active" \/ ~FitsLink(id[1])
         /\ handed' = handed \cup {id}
         /\ transfer' = [transfer EXCEPT ![id] =
                           IF FitsLink(id[1]) THEN "packet" ELSE "resource"]
         /\ Report(m, {"sent"} \cup also)
      \/ /\ Report(m, {"failed"} \cup also)
         /\ UNCHANGED <<handed, transfer>>

\* No identity or path yet, or an RNS object could not be made: try later.
Postpone(e) == WaitFor(e) /\ UNCHANGED <<linkVars, reportVars>>

\* Variant: over a link, the entry is left to the link's callbacks.
AttemptOpportunisticUnmarked(e) ==
  /\ Trying(e)
  /\ MethodOf(e) = "opportunistic"
  /\ IF HasDirectLink(e)
     THEN /\ SendOverLink(This(e), directLinks[DestOf[MsgOf(e)]], {"sent"})
          /\ Set(e, "sending")
          /\ UNCHANGED <<due, linkVars, untold>>
     ELSE Postpone(e)
  /\ UNCHANGED <<nodeVars, sendVars>>

AttemptOpportunistic(e) ==
  /\ Trying(e)
  /\ MethodOf(e) = "opportunistic"
  /\ \/ /\ HasDirectLink(e)
        /\ SendOverLink(This(e), directLinks[DestOf[MsgOf(e)]], {"sent"})
        /\ Set(e, "sent")
        /\ UNCHANGED <<due, linkVars, untold>>
     \/ ~HasDirectLink(e) /\ Postpone(e)
     \/ /\ ~HasDirectLink(e)
        /\ handed' = handed \cup {This(e)}
        /\ Set(e, "sent")
        /\ Report(MsgOf(e), {"sent"})
        /\ UNCHANGED <<due, linkVars, transfer, untold>>
  /\ UNCHANGED <<nodeVars, sendVars>>

AttemptDirect(e) ==
  /\ Trying(e)
  /\ MethodOf(e) = "direct"
  /\ \/ /\ HasDirectLink(e)
        /\ SendOverLink(This(e), directLinks[DestOf[MsgOf(e)]], {})
        /\ Set(e, "sending")
        /\ UNCHANGED <<due, linkVars, untold>>
     \/ ~HasDirectLink(e) /\ Postpone(e)
     \/ /\ ~HasDirectLink(e)
        /\ OpenLink(This(e), NoNode)
        /\ Set(e, "sending")
        /\ UNCHANGED <<due, reportVars>>
  /\ UNCHANGED <<nodeVars, sendVars>>

\* Variant: the receipt is ignored.
SendPacketUnchecked(id, l, e) ==
  /\ FitsPropagated(e)
  /\ Set(e, "sent")
  /\ transfer' = [transfer EXCEPT ![id] = "packet"]
  /\ handed' = IF status[l] = "active" THEN handed \cup {id} ELSE handed
  /\ UNCHANGED <<due, starting>>

\* sendPropagatedOverLink over l, for attempt id, of entry e, ends in one of
\* three ways.  Its caller reports what it has to.  A packet needs a link that
\* is still active, and of an entry of another method there is nothing to give.
SendPacket(id, l, e) ==
  /\ status[l] = "active" /\ FitsPropagated(e)
  /\ Set(e, "sent")
  /\ transfer' = [transfer EXCEPT ![id] = "packet"]
  /\ handed' = IF MethodOf(e) = "propagated" THEN handed \cup {id} ELSE handed
  /\ UNCHANGED <<due, starting>>

\* A resource may conclude before State is set to sending.
NewResource(id, e) ==
  /\ ~FitsPropagated(e)
  /\ transfer' = [transfer EXCEPT ![id] = "resource"]
  /\ handed' = handed \cup {id}
  /\ starting' = starting \cup {id}
  /\ UNCHANGED due

NothingSent(e) == WaitFor(e) /\ UNCHANGED <<transfer, handed, starting>>

\* Back from NewResource, in the loop or in the callback of a link.
ResourceStarted(id) ==
  /\ id \in starting
  /\ starting' = starting \ {id}
  /\ found' = [found EXCEPT ![id] = 0]
  /\ Set(IF found[id] = 0 THEN id[1] ELSE found[id], "sending")
  /\ Report(MsgOf(id[1]), {"sending"})
  /\ UNCHANGED <<call, hash, attempts, due, loopVars, linkVars, nodeVars, msgHash,
                 transfer, handed, untold>>

\* msgHash := e.Message.Hash, as it is then.
Hold(id, e) == msgHash' = [msgHash EXCEPT ![id] = hash[MsgOf(e)]]

HasPropagationLink ==
  propagationLink # NoLink /\ status[propagationLink] = "active"

AttemptPropagated(e) ==
  /\ Trying(e)
  /\ MethodOf(e) = "propagated"
  /\ \/ /\ propagationNode = NoNode
        /\ Set(e, "failed")
        /\ Report(MsgOf(e), {"failed"})
        /\ UNCHANGED <<due, linkVars, sendVars, transfer, handed>>
     \/ /\ propagationNode # NoNode /\ HasPropagationLink
        /\ Hold(This(e), e)
        /\ \/ SendPacket(This(e), propagationLink, e) /\ Report(MsgOf(e), {"sent"})
           \/ NewResource(This(e), e) /\ Set(e, "sending") /\ UNCHANGED reported
           \/ NothingSent(e) /\ UNCHANGED reported
        /\ UNCHANGED <<linkVars, found>>
     \/ /\ propagationNode # NoNode /\ ~HasPropagationLink
        /\ Postpone(e)
        /\ UNCHANGED sendVars
     \/ /\ propagationNode # NoNode /\ ~HasPropagationLink
        /\ OpenLink(This(e), propagationNode)
        /\ Set(e, "sending")
        /\ Hold(This(e), e)
        /\ UNCHANGED <<due, found, starting, reportVars>>
  /\ UNCHANGED <<nodeVars, untold>>

\* Variant: exhausted entries go too.
RemoveExhausted ==
  /\ loop = "processing" /\ batch = {} /\ Between
  /\ queue' = {e \in queue : ~Finished(e) /\ attempts[e] < MaxDeliveryAttempts}
  /\ loop' = "select"
  /\ UNCHANGED <<entryVars, batch, stopped, linkVars, nodeVars, sendVars, reportVars>>

\* The end of processOutbound.
RemoveFinished ==
  /\ loop = "processing" /\ batch = {} /\ Between
  /\ queue' = {e \in queue : ~Finished(e)}
  /\ loop' = "select"
  /\ UNCHANGED <<entryVars, batch, stopped, linkVars, nodeVars, sendVars, reportVars>>

\* Variant: only idle links are cleaned, a closed one is left to its callback.
CleanIdleLinks ==
  /\ loop = "select"
  /\ \E stale \in SUBSET {d \in Dest : directLinks[d] # NoLink
                                     /\ status[directLinks[d]] = "active"} :
       /\ TearDown({directLinks[d] : d \in stale})
       /\ directLinks' = [d \in Dest |-> IF d \in stale THEN NoLink ELSE directLinks[d]]
  /\ UNCHANGED <<nodeOf, entryVars, loopVars, nodeVars, sendVars, reportVars>>

\* The cleanup ticker fires.  idle: active links without data for too long.
CleanInactiveLinks ==
  /\ loop = "select"
  /\ \E idle \in SUBSET Dest :
       LET stale == {d \in Dest : /\ directLinks[d] # NoLink
                                  /\ d \in idle \/ status[directLinks[d]] # "active"}
       IN  /\ TearDown({directLinks[d] : d \in stale})
           /\ directLinks' = [d \in Dest |-> IF d \in stale THEN NoLink
                                             ELSE directLinks[d]]
  /\ UNCHANGED <<nodeOf, entryVars, loopVars, nodeVars, sendVars, reportVars>>

Stop ==
  /\ stopped' = TRUE
  /\ UNCHANGED <<entryVars, queue, batch, loop, linkVars, nodeVars, sendVars,
                 reportVars>>

LoopExit ==
  /\ loop = "select" /\ stopped
  /\ loop' = "exited"
  /\ UNCHANGED <<entryVars, queue, batch, stopped, linkVars, nodeVars, sendVars,
                 reportVars>>

-----------------------------------------------------------------------------
(* The Reticulum stack: links come up and go down at any time, and the     *)
(* callbacks that say so run later, in no particular order.                *)

LinkUp(l) ==
  /\ status[l] = "pending"
  /\ status' = [status EXCEPT ![l] = "active"]
  /\ callbacks' = callbacks \cup {<<l, "established">>}
  /\ UNCHANGED <<nodeOf, directLinks, entryVars, loopVars, nodeVars, sendVars,
                 reportVars>>

LinkDown(l) ==
  /\ status[l] \in {"pending", "active"}
  /\ TearDown({l})
  /\ UNCHANGED <<nodeOf, directLinks, entryVars, loopVars, nodeVars, sendVars,
                 reportVars>>

\* RNS runs the callback.
Called(l, kind) ==
  /\ <<l, kind>> \in callbacks
  /\ callbacks' = callbacks \ {<<l, kind>>}
  /\ UNCHANGED <<status, nodeOf>>

\* attemptDirect's two callbacks.
DirectEstablished(l) ==
  /\ MethodOf(l[1]) # "propagated"
  /\ Called(l, "established")
  /\ directLinks' = [directLinks EXCEPT ![DestOf[MsgOf(l[1])]] = l]
  /\ SendOverLink(l, l, {})
  /\ UNCHANGED <<entryVars, loopVars, nodeVars, sendVars, untold>>

DirectClosed(l) ==
  /\ MethodOf(l[1]) # "propagated"
  /\ Called(l, "closed")
  /\ directLinks' = [d \in Dest |-> IF directLinks[d] = l THEN NoLink
                                    ELSE directLinks[d]]
  /\ UNCHANGED <<entryVars, loopVars, nodeVars, sendVars, reportVars>>

\* attemptPropagated's callbacks.  The first one looks the entry up under the
\* queue's lock, by message hash, and sends what it found after unlocking.
PropagationEstablished(l) ==
  /\ MethodOf(l[1]) = "propagated"
  /\ Called(l, "established")
  /\ propagationLink' = l
  /\ IF \E e \in queue : IsFirst(e, l)
     THEN \E e \in queue : IsFirst(e, l) /\ found' = [found EXCEPT ![l] = e]
     ELSE UNCHANGED found
  /\ UNCHANGED <<directLinks, propagationNode, msgHash, starting, entryVars, loopVars,
                 reportVars>>

\* A report that a callback is about to make.
Owe(id, s) == untold' = [untold EXCEPT ![id] = @ \cup {s}]

PropagationSend(l) ==
  /\ found[l] # 0 /\ l \notin starting
  /\ Hold(l, found[l])
  /\ \/ /\ SendPacket(l, l, found[l])
        /\ Owe(l, "sent")
        /\ found' = [found EXCEPT ![l] = 0]
     \/ /\ NewResource(l, found[l])
        /\ UNCHANGED <<state, found, untold>>
     \/ /\ NothingSent(found[l])
        /\ found' = [found EXCEPT ![l] = 0]
        /\ UNCHANGED untold
  /\ UNCHANGED <<call, hash, attempts, loopVars, linkVars, nodeVars, reported>>

PropagationClosed(l) ==
  /\ MethodOf(l[1]) = "propagated"
  /\ Called(l, "closed")
  /\ propagationLink' = IF propagationLink = l THEN NoLink ELSE propagationLink
  /\ UNCHANGED <<directLinks, propagationNode, sendVars, entryVars, loopVars, reportVars>>

\* Variant: the callbacks mark the entry, whatever its state.
DirectConcludedMarks(id) ==
  /\ transfer[id] # "none"
  /\ MethodOf(id[1]) # "propagated"
  /\ transfer' = [transfer EXCEPT ![id] = "none"]
  /\ \E s \in {"delivered", "failed"} :
       state' = Marked(id, s) /\ Report(MsgOf(id[1]), {s})
  /\ UNCHANGED <<call, hash, attempts, due, loopVars, linkVars, nodeVars, sendVars, handed,
                 untold>>

\* A link packet is proved or times out, a resource transfer concludes.  The
\* callbacks of sendLinkPacket and sendLinkResource only report.
DirectConcluded(id) ==
  /\ transfer[id] # "none"
  /\ MethodOf(id[1]) # "propagated"
  /\ transfer' = [transfer EXCEPT ![id] = "none"]
  /\ \E s \in {"delivered", "failed"} : Report(MsgOf(id[1]), {s})
  /\ UNCHANGED <<entryVars, loopVars, linkVars, nodeVars, sendVars, handed, untold>>

\* Variant: the entry is marked, and nobody is told.
PropagatedConcludedSilently(id) ==
  /\ transfer[id] # "none"
  /\ MethodOf(id[1]) = "propagated"
  /\ transfer' = [transfer EXCEPT ![id] = "none"]
  /\ \E s \in Conclusive : state' = Marked(id, s)
  /\ UNCHANGED <<call, hash, attempts, due, loopVars, linkVars, nodeVars, sendVars, handed,
                 untold, reported>>

\* Those of sendPropagatedOverLink mark the entry first; they report after the
\* queue is unlocked.  Those of a packet are set when "sent" was reported.
PropagatedConcluded(id) ==
  /\ transfer[id] # "none"
  /\ MethodOf(id[1]) = "propagated"
  /\ transfer[id] = "packet" => untold[id] = {}
  /\ transfer' = [transfer EXCEPT ![id] = "none"]
  /\ \E s \in Conclusive : state' = Marked(id, s) /\ Owe(id, s)
  /\ UNCHANGED <<call, hash, attempts, due, loopVars, linkVars, nodeVars, sendVars, handed,
                 reported>>

\* A callback that wrote State gets to its report.
Tell(id) ==
  /\ \E s \in untold[id] :
       /\ untold' = [untold EXCEPT ![id] = @ \ {s}]
       /\ Report(MsgOf(id[1]), {s})
  /\ UNCHANGED <<entryVars, loopVars, linkVars, nodeVars, sendVars, transfer, handed>>

\* SetOutboundPropagationNode; nil clears the node.
SetOutboundPropagationNode(n) ==
  /\ propagationNode' = n
  /\ IF propagationLink # NoLink /\ propagationNode # n
     THEN TearDown({propagationLink}) /\ propagationLink' = NoLink
     ELSE UNCHANGED <<status, callbacks, propagationLink>>
  /\ UNCHANGED <<nodeOf, directLinks, sendVars, entryVars, loopVars, reportVars>>

CancelPropagationNodeRequests ==
  /\ propagationLink # NoLink
  /\ TearDown({propagationLink})
  /\ propagationLink' = NoLink
  /\ UNCHANGED <<nodeOf, directLinks, propagationNode, sendVars, entryVars,
                 loopVars, reportVars>>

-----------------------------------------------------------------------------
Caller ==
  \/ \E e \in Entry : Sign(e) \/ Send(e)
  \/ \E n \in Node \cup {NoNode} : SetOutboundPropagationNode(n)
  \/ CancelPropagationNodeRequests
  \/ Stop

Attempting ==
  \E e \in Entry : \/ GiveUp(e)
                   \/ AttemptOpportunistic(e)
                   \/ AttemptDirect(e)
                   \/ AttemptPropagated(e)

Loop == Tick \/ Attempting \/ RemoveFinished \/ CleanInactiveLinks \/ LoopExit

Network ==
  \E l \in Attempt : \/ LinkUp(l) \/ LinkDown(l)
                     \/ DirectEstablished(l) \/ DirectClosed(l)
                     \/ PropagationEstablished(l) \/ PropagationSend(l)
                     \/ PropagationClosed(l)
                     \/ DirectConcluded(l) \/ PropagatedConcluded(l)
                     \/ ResourceStarted(l) \/ Tell(l)

Clock == \E e \in Entry : TimePasses(e)

Next == Caller \/ Loop \/ Network \/ Clock

Spec == Init /\ [][Next]_vars

\* The loop's goroutine is scheduled, its ticker keeps firing, and time goes
\* on.  select picks at random among the channels that are ready, and a tick
\* of the cleanup ticker stays in its channel until it is taken: the cleanup
\* runs if it is possible again and again.  A goroutine that is not waiting for
\* the network goes on, in the loop or in a callback.  Nothing is asked of the
\* network, and the loop never waits for propagationMu (PropagationSync).
Fairness ==
  /\ WF_vars(Tick) /\ WF_vars(Attempting) /\ WF_vars(RemoveFinished)
  /\ \A e \in Entry : WF_vars(TimePasses(e))
  /\ SF_vars(CleanInactiveLinks)
  /\ \A id \in Attempt : WF_vars(ResourceStarted(id)) /\ WF_vars(Tell(id))

FairSpec == Spec /\ Fairness

-----------------------------------------------------------------------------
(* Correctness.                                                            *)

\* No call of Send gives this entry's message to a propagation node, whose
\* callbacks would mark the entry: its state is for the loop to decide.
LoopDecides(e) == \A f \in Entry : MsgOf(f) = MsgOf(e) => MethodOf(f) # "propagated"

\* All calls of Send with this entry's message ask for one method.
OneMethod(e) == \A f \in Entry : MsgOf(f) = MsgOf(e) => MethodOf(f) = MethodOf(e)

\* What the application was told of a message, or is about to be.
Said(m) == reported[m] \cup UNION {untold[id] : id \in {i \in Attempt : MsgOf(i[1]) = m}}

\* An entry leaves the queue only when the application was told how its message
\* fared, or the callback that decided it is about to: the loop may drop the entry
\* between the two, and when the message was signed anew the callback decides
\* nothing.
NoSilentDrop ==
  \A e \in Entry :
    state[e] # "generating" /\ e \notin queue => Said(MsgOf(e)) \cap Conclusive # {}

\* "sent" is reported for a direct or a propagated message only if RNS took
\* the message in some attempt, unless it is sent by several methods at once;
\* "delivered" only if RNS took it for its recipient, whatever else was tried.
SentImpliesHanded ==
  \A e \in Entry :
    /\ OneMethod(e) /\ MethodOf(e) # "opportunistic" /\ "sent" \in Said(MsgOf(e))
         => \E id \in handed : MsgOf(id[1]) = MsgOf(e)
    /\ "delivered" \in Said(MsgOf(e))
         => \E id \in handed : MsgOf(id[1]) = MsgOf(e) /\ MethodOf(id[1]) # "propagated"

\* The loop abandons an opportunistic or direct message only after all its
\* attempts: no transient failure of an attempt is taken for the last word.
NeverGivenUpEarly ==
  \A e \in Entry :
    LoopDecides(e) /\ state[e] = "failed" => attempts[e] = MaxDeliveryAttempts

\* RNS is given an opportunistic message once: an attempt that gave it away is
\* never followed by another, from a stale snapshot or after a retry.
OpportunisticOnce ==
  \A e \in Entry :
    MethodOf(e) = "opportunistic" /\ LoopDecides(e) =>
      \A a, b \in 1..MaxDeliveryAttempts :
        <<e, a>> \in handed /\ <<e, b>> \in handed => a = b

\* No step of the loop and no late callback takes an opportunistic or direct
\* entry out of a terminal state.
ConcludedStable ==
  [][\A e \in Entry :
       LoopDecides(e) /\ Finished(e) => state'[e] = state[e]]_vars

\* While the loop runs every queued message is concluded: sent by propagation,
\* or finished.  No schedule of callbacks keeps it retrying for ever.
EventuallyConcluded ==
  \A e \in Entry : e \in queue
    ~> state[e] \in {"sent", "delivered", "failed", "cancelled"} \/ stopped

\* And the application is told how its message fared, by the loop or by the
\* callback that decided it, in whatever order they come.
EventuallyTold ==
  \A e \in Entry : e \in queue
    ~> reported[MsgOf(e)] \cap Conclusive # {} \/ stopped

\* What makes NoSilentDrop inductive: of an entry at rest the application was
\* told, or is about to be, and a propagation callback holds an entry of the
\* message its link was opened for.
ConcludedReported ==
  \A e \in Entry :
    /\ state[e] \notin {"delivered", "cancelled", "rejected"}
    /\ state[e] \in Conclusive => Said(MsgOf(e)) \cap Conclusive # {}
    /\ e \in queue => state[e] # "generating"

FoundIsQueued ==
  /\ \A l \in Attempt :
       found[l] # 0 => /\ state[found[l]] # "generating"
                       /\ MsgOf(found[l]) = MsgOf(l[1])
  /\ \A id \in starting : found[id] = 0 => state[id[1]] # "generating"

IndInv == TypeOK /\ ConcludedReported /\ FoundIsQueued /\ NoSilentDrop

\* Attempts open links for direct and propagated messages only, and what looks an
\* entry up, or starts a resource with a mark, is an attempt at propagation.
LinksHaveMethod ==
  \A l \in Attempt :
    /\ status[l] # "none" => MethodOf(l[1]) # "opportunistic"
    /\ \A kind \in {"established", "closed"} : <<l, kind>> \in callbacks => status[l] # "none"
    /\ found[l] # 0 \/ l \in starting => MethodOf(l[1]) = "propagated"

\* The loop's snapshot never grows stale for a message that only the loop may
\* conclude: whatever concludes one takes it out of the batch.
BatchUndecided ==
  \A e \in batch : LoopDecides(e) => state[e] \notin Completed

\* A transfer in flight carries a message that RNS took; but the callback of a
\* propagation link that finds an entry of another method sends it empty.
CarriesMessage(id) == MethodOf(id[1]) # "propagated" \/ OneMethod(id[1])

TransfersHanded ==
  \A id \in Attempt : CarriesMessage(id) /\ transfer[id] # "none" => id \in handed

\* An opportunistic message that RNS took is at rest.
HandedIsSent ==
  \A id \in handed :
    LoopDecides(id[1]) /\ MethodOf(id[1]) = "opportunistic" => state[id[1]] = "sent"

\* What makes the promises about one message inductive.
DeliveryInv ==
  /\ TypeOK /\ ConcludedReported /\ FoundIsQueued
  /\ LinksHaveMethod /\ BatchUndecided /\ TransfersHanded /\ HandedIsSent
  /\ NeverGivenUpEarly /\ OpportunisticOnce /\ SentImpliesHanded

\* The fate of an entry as Delivery tells it.  A message that goes to a
\* propagation node, in this call or another, is told of by late callbacks, and
\* is promised nothing.
ClassOf(e) ==
  CASE ~LoopDecides(e) -> "other"
    [] LoopDecides(e) /\ MethodOf(e) = "opportunistic" -> "best effort"
    [] LoopDecides(e) /\ MethodOf(e) = "direct" -> "over a link"

StageOf(e) ==
  CASE state[e] = "generating"                -> "unsent"
    [] state[e] \in {"outbound", "sending"}   -> "waiting"
    [] state[e] = "failed"                    -> "abandoned"
    [] OTHER                                  -> "given"

Life == INSTANCE Delivery WITH
  Message <- Entry,
  class   <- [e \in Entry |-> ClassOf(e)],
  stage   <- [e \in Entry |-> IF ClassOf(e) = "other" THEN "unsent" ELSE StageOf(e)],
  tries   <- [e \in Entry |-> IF ClassOf(e) = "other" THEN 0 ELSE attempts[e]],
  taken   <- [e \in Entry |-> IF ClassOf(e) = "best effort"
                              THEN {a \in 1..MaxDeliveryAttempts : <<e, a>> \in handed} ELSE {}]

\* Every step of the loop, the callbacks and the network is, for each message, a
\* step of the delivery it was promised, or none.
ImplementsDelivery == Life!Spec

\* A link that closed does not stay the recorded link to a destination, even
\* when its established callback ran after its closed callback.
DeadLinksForgotten ==
  \A d \in Dest, l \in Attempt :
    directLinks[d] = l /\ status[l] = "closed" ~> directLinks[d] # l \/ stopped
=============================================================================
