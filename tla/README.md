# lxmf-go in TLA+

TLA+ models of lxmf-go, a Go implementation of the LXMF message router on top of
the Reticulum stack (RNS): what its goroutines and callbacks do to the state they
share, model-checked with TLC on small instances, and proved with TLAPS where a
theorem is listed. Every definition is translated from the source; file and line
numbers below are those of the repository.

## The system

| component | source | state | operations |
|---|---|---|---|
| Outbound queue and delivery | `device/node/outbound.go`, `router.go` 267-752, `propagation.go` 442-600 | `outboundQueue.entries` (with `State`, `Attempts`, `NextAttempt`), `directLinks`, `stopCh` | `Send`, `processOutboundLoop`, `processOutbound`, `attemptOpportunistic/Direct/Propagated`, `sendOverLink`, `sendPropagatedOverLink`, `markState`, `removeFinished`, `cleanInactiveLinks`, `Stop`; callbacks of links, receipts and resources |
| Propagation sync client | `propagation.go` 19-440 | `propagationNode`, `propagationLink`, `propagationState`, `propagationProgress` (all under `propagationMu`) | `SetOutboundPropagationNode`, `RequestMessages`, `CancelPropagationNodeRequests`, `waitForPropagationPath`, `establishPropagationLink`, `sendListRequest`, `messageListResponse`, `messageGetResponse`, `messageGetProgress`, `messageGetFailed` |
| Inbound dispatch | `router.go` 774-790, 865-1010 | `deliveredIDs` (under `deliveredMu`) | `handlePacket`, `handleLinkPacket`, `handleResourceConcluded`, `dispatchMessage`, `cleanDeliveredIDs` |
| Inbound and backchannel links | `router.go` 795-861, 907-925 | `backchannelLinks` (under `linkMu`) | `handleLinkEstablished`, `handleRemoteIdentified`, `registerBackchannelFromSource`, `removeLinkFromMaps` |
| Tickets | `core/ticket.go` | `inbound`, `outbound`, `lastDeliveries` | `GenerateTicket`, `RecordTicketDelivery`, `RememberTicket`, `GetOutboundTicket`, `GetInboundTickets`, `Clean` |
| Stamps | `core/stamper.go` | the result channel and context of one mining | `GenerateStamp`, `StampValid`, `StampValue`, `ValidateStamp` |
| Announces, stamp costs | `announce.go`, `router.go` 700-718 | `stampCosts` | two announce handlers, `updateStampCost`, `getStampCost` |
| Message format | `core/message.go`, `core/fields.go` | none | `Sign`, `Pack`, `Unpack`, `Verify` |
| Lifecycle, events | `router.go` 141-228, 754-770, `device/event/events.go` | `stopCh`, `handlers` | `Start`, `Stop`, `OnEvent`, `emit` |

RNS (package `rns`, not in the repository) is external: links, packets, receipts,
resources, paths and identities are modelled by how the code uses them.

**How the parts meet.** The application calls `Send`, `RequestMessages`, ... on its
own goroutines. One goroutine runs the outbound loop; it takes a snapshot of the
queue and attempts each entry. RNS answers later, on goroutines of its own, through
the closures given to `NewLink`, `NewResource`, `Link.Request` and receipts; these
closures write the queue, the link maps and the propagation state. The outbound half
and the sync client both open links to the propagation node and share
`propagationLink`. A fetched message goes through `dispatchMessage`, like one that
came as a packet or over a link.

**What is hard.** Entries change between the snapshot and their turn; links close
between the check of their status and their use; link callbacks run in any order
and long after the request they were made for was cancelled; several goroutines
wait for paths at once; the same message arrives by three ways at once; a
confirmation races the retry that it should prevent. `PROJECT.json` lists each
hazard at its line, with the properties that cover it.

**What makes each part correct.**
- Outbound: no message leaves the queue unless its fate was told or is about to be; "sent"
  is true; no transient failure is final; a best-effort message is given to the network
  once; conclusions of direct and best-effort messages stand; every message is concluded,
  and told of; dead links are forgotten.
- Sync: each message is given to the application once; a node forgets only what the
  router has taken; what is marked as delivered is delivered; a request for a path
  is never forgotten and ends; completion comes with full progress.
- Inbound dispatch: a message passes the duplicate check once in the life of its mark,
  and nothing but duplicates is dropped there; when stamps are enforced the application is
  given only what was worked for or carries a ticket that its sender was given, and a
  sender that knew the cost is refused for one of three causes only.
- Links: a link that is up and was stored is found in a map until a later one takes its
  place; a message does not displace a live link; dead links are forgotten for good.
- Tickets: a ticket that a peer may hold and believe valid is accepted; new ones are made
  only in the last `TicketRenew` of the one before.
- Stamps: mining ends with the first valid stamp or with the context, loses no stamp that
  was found, and leaves no worker behind; the value reported reaches the cost.

## Modules

| module | what it is |
|---|---|
| `Outbound` | the outbound half, with its properties, implementing `Delivery` |
| `OutboundClaims` | a comment about it that the code contradicts, as a property |
| `Delivery` | abstract: what `Send` promises about each message |
| `OutboundProofs` | theorems about `Outbound`: types, and that nothing is dropped untold |
| `OutboundDeliveryProofs` | theorems about what each message is promised, the refinement of `Delivery` among them |
| `MCOutbound` | instances for TLC |
| `Mailbox` | abstract: what fetching promises the application |
| `PropagationSync` | the sync client, with its properties, implementing `Mailbox` |
| `PropagationSyncClaims` | comments about it that the code contradicts |
| `PropagationSyncProofs` | theorems about `PropagationSync`, the refinement of `Mailbox` among them |
| `MCPropagationSync` | instances for TLC |
| `Exchange` | routers that exchange messages with stamps and tickets, a clock, a network that loses, repeats and reorders |
| `ExchangeClaims` | a comment about it that the code contradicts |
| `Inbound` | the ways in: links of both sides, the two maps, handlers, the duplicate check with its expiry |
| `StampMiner` | the goroutines of one call of `GenerateStamp`; `StampValid` and `StampValue` |
| `ExchangeProofs`, `InboundProofs`, `StampMinerProofs` | theorems about these three |
| `MCExchange`, `MCInbound`, `MCStampMiner` | instances for TLC |

Definitions marked "Variant" next to an operation are faulty versions of it, used
to confirm that a property can fail; no specification refers to them.

### Outbound

A call of `Send` is numbered; the number is its `outboundEntry` and its place in the
queue, so `queue` is a set of numbers and a search by hash finds the least one.
`<<e, a>>`, attempt `a` of entry `e`, names the link that the attempt opens and the
transfer it starts. `call` holds what each call asks (message, method, size), fixed from
the start; `DestOf` is the recipient of each message; a size stands for the comparisons
with the packet and link MDUs.

`Msg` are `LXMessage`s, which the entries of several calls may share. `hash` is the
message's `Hash`, one of `MaxHashes` versions: `Send` signs the message before it queues an
entry (`Sign`, which may also fail afterwards and queue nothing), and so may change the hash
under entries that are queued already. `msgHash` is the copy that an attempt's callbacks
hold (`Hold`); `IsFirst` compares the two. Mining and packing touch no shared queue state.

`Tick` is `ready()`; `GiveUp`, `AttemptOpportunistic`, `AttemptDirect` and
`AttemptPropagated` are one turn of the loop of `processOutbound`, each the whole
attempt function; `RemoveFinished` ends it. Where the code lets go of the queue between two
steps the model has two actions:
- `PropagationEstablished` finds the entry and remembers it in `found`, `PropagationSend`
  sends it;
- `sendPropagatedOverLink` ends in one of three ways, `SendPacket`, `NewResource` and
  `NothingSent`; after `NewResource` the attempt is in `starting`, its callback may run, and
  `ResourceStarted` then writes `StateSending`. While the loop's own attempt is in
  `starting` the loop does nothing else (`Between`);
- a callback of a propagated message marks the entry and puts what it is about to report
  into `untold` (`PropagatedConcluded`, `Owe`), and reports it later (`Tell`); so does
  `PropagationSend`, which writes `StateSent` before it reports. The callbacks of a packet
  are set after "sent" was reported, those of a resource are not.

`DirectConcluded` are the receipt and resource callbacks of direct messages, which only
report. Two history variables record which attempts RNS accepted (`handed`) and which states
`DeliveryUpdate` reported per message, under whatever hash it had then (`reported`).
`Said(m)` is what was reported of `m` with what is about to be.

Deliberate abstractions: an attempt function is atomic except for the splits above
(the loop's own write of `State` and its report are one step, as only the loop removes
entries), the state of a link being read once in it; sending over a link that is no longer active may
be reached because the established callback of a link runs any time after it; unlocked
writes to `entry.State` take effect in some order; backchannel links, never read by
the sending code, are left out; a direct entry's `NextAttempt` stays in the past, as
in the code. `CancelPropagationNodeRequests` without a link changes nothing here.

`Delivery` is the promise of `Send`, message by message, in four moves: `Submit`, `Retry`,
`Give`, `Abandon`. A message waits until it is given away or all attempts are spent, and
then it stays where it is. The stage of an entry is its `State` (`StageOf`): outbound and
sending are waiting. Only an opportunistic message can be given; a direct one has no such
move, because `router.go:644` and `router.go:669` report a confirmed delivery and leave the
entry as it is (the run `outbound_redelivery`), so it is tried until it is abandoned. No
promise is made about a message that any call of `Send` gives to a propagation node: the
callbacks find entries by hash, and late ones may mark an entry failed after sent and sent
after failed, the entries of other calls with the same message included. The properties of
`Outbound` that concern one entry's state are bounded in the same way (`LoopDecides`), and
no other: a message may be sent again, directly or opportunistically, as often as wished.
What holds of propagated messages as well is `NoSilentDrop` and `EventuallyTold`.

### PropagationSync

An action is one critical section of `propagationMu` or of `deliveredMu`, with the
code around it that changes nothing shared; where a handler takes `propagationMu`
twice in a row with only a request between, the sections are one action.
`RequestMessages` number `r` names the goroutine that may wait for a path
(`waiting[r]` is the node it waits for) and the link that it opens.
`RequestOverActiveLink` leaves `propagationMu` held, which is what `sync.Mutex` does
when its holder locks it again; every action that locks it is guarded by it being free.
`listing`, `getting` and `handling` are requests unanswered and answers being worked
through; `progressing` are the gets whose progress callback may run, at any time after the
request and on a goroutine of its own, also after the response was handled; `dispatching` are calls of `dispatchMessage`, before and after the duplicate
check. A message is identified by its transient id and its hash at once: both are
functions of the message, and `deliveredIDs` tells the two kinds of key apart.
`Unstamped` are messages that `EnforceStamps` drops, `Unreadable` those that
`Decrypt` or `Unpack` refuse. The propagation node is a set of stored messages that
answers requests, or not, and forgets what it is told to, or not.

Left out: the expiry of `deliveredIDs` (delivery is once *within the expiry*), the
clock of the path timeout (a waiter may give up at any time), the delivery limit
(a node may send any part of what was wanted).

`Mailbox` is the promise to the application in three actions: `Accept`, `Deliver`,
`Forget`. A message counts as accepted once its transient id or its hash is marked
in `deliveredIDs`; the node may be told to forget it from then on, which is before
the application is called. So the promise is about a router that keeps running:
nothing here is persisted, and a crash between the two loses the message.

### Exchange

Any number of routers, each with its ticket store (`inbound`, `outbound`,
`lastDeliveries` by peer), its cache of announced costs and its `deliveredIDs`. `Send` is
split where other calls may come in between: `Send` up to `GenerateTicket`,
`RecordTicketDelivery`, and `SignAndPack`, before which a stamp may take its time to mine
and which may fail (`SignFails`). What is packed stays on the `wire`, to be delivered late,
repeatedly, out of order or never; how the queue gets it there is `Outbound`'s.
`DispatchMessage` is the whole of `dispatchMessage`; `Clean` is the ticket store's part of
the cleanup. `given` and `refused` are histories, and so is `knew`: the cost and the ticket
that the caches of the sender held when `Send` was called. It goes with the message on the
`wire`, where no receiver looks at it.

A ticket is named by the instant it expires; that names one ticket per peer because two
are never made for the same instant, which `RenewalsApart` implies. The instant is cut to
seconds on the wire (`Unix`), so the receiver stops using a ticket up to a second early.
Go compares with `Before`, so at the very instant of expiry the issuer refuses and the
holder would still use it; `TicketsHonoured` therefore speaks of `now < Unix(t)`. A stamp
is the hash that it was made for, and a ticket or an amount of work; the amount is the
greatest cost at which `StampValid` accepts it. A hash covers the payload without the stamp: the
message, its ticket, and the order in which its fields were encoded. A Go map with two or
more entries is walked in a different order each time, so `Sign` and `Pack` choose theirs
independently.

Assumed: all routers read one clock; hash functions have no collisions, and a ticket
stamp is not by chance also work; the ticket field is decoded to the types that
`dispatchMessage` asks for; an announced cost is what the router was configured with;
`rand.Read` does not fail (since Go 1.24 it cannot).

### Inbound

`Out` are links that `attemptDirect` opens, `In` links that peers open. `hooks` are the
callbacks the router has set on a link, `todo` those that RNS has yet to run.
`handleLinkEstablished` is two actions, because messages may arrive, and the link may
close, after its message callbacks are set and before the other two are. An arrival is
numbered; its `handler` looks at the link's status (`HandleLinkMessage`), stores the link
under the message's source (`RegisterBackchannelFromSource`) and makes the duplicate check
(`CheckDuplicate`), each a step of its own. The source of a message need not be the peer
of the link: a peer may have several destinations. `CleanUp` is the cleanup ticker's case
without the tickets. `Send` and what is sent over direct links are `Outbound`'s, where
backchannel links play no part.

`stored` is a history: the links that were put into a map and not displaced since.

### StampMiner

One call of `GenerateStamp`. A stamp is represented by its digest with the workblock, a
row of `Bits` bits from the most significant one; `Target` is the shifted 1 of `StampValid`,
`AtMost` the comparison of `big.Int`, bit by bit. `MCStampMiner` has TLC check that both
agree with the numbers that the rows stand for. `found` is a history. The caller starts the workers one by one, so
that the first may have ended before the last begins; a worker looks at the context,
draws, sends without blocking and cancels, each a step of its own; the channel holds one
stamp. The cost is any from one too low to one too high to be met.

### Assumptions about RNS

Callbacks run on their own goroutines and not inside the call that causes them:
`cleanInactiveLinks` and `SetOutboundPropagationNode` call `Teardown` under the mutex
that the closed callback locks, so with callbacks run in line they would never return.
Callbacks of one link may run in either order. A link that is established may be
reported after it closed. Event handlers do not call back into the router: several
events are emitted under `propagationMu`.

## Runs

| run | specification and bounds | shows |
|---|---|---|
| `outbound_shared` | `Spec`; two messages (direct and opportunistic, small and large) to one recipient, or one message by both methods, two attempts each; 503,684 states | `TypeOK`, `SentImpliesHanded`, `NeverGivenUpEarly`, `OpportunisticOnce`, `ConcludedStable`; the inductive invariant `DeliveryInv`; `ImplementsDelivery` |
| `outbound_single` | `FairSpec`; one message by any method, a propagation node that is set and cleared, two attempts; 140,398 states | the inductive invariant `IndInv`; `SentImpliesHanded` for propagation; `EventuallyConcluded`, `DeadLinksForgotten` |
| `outbound_mixed` | `FairSpec`; one message by propagation, as a resource or as a packet, and opportunistically, before or after, signed anew between (two hashes), one attempt each; 160,532 states | `NoSilentDrop`, `EventuallyTold`; the inductive invariant `DeliveryInv` |
| `outbound_redelivery` | `Spec`; one direct message, or one propagated as a resource | refutes `outbound.go:45`: a message whose delivery was confirmed is attempted again. TLC stops at the shorter way, the direct one; with the propagated message alone the property fails by the overwritten mark of `propagation.go:597` |
| `sync_requests` | `FairSpec`; two requests, one node, one message that also arrives directly; 309,440 states | the inductive invariant `SyncInv`; `PathHasWaiter`, `CompleteIsFull`, `ImplementsMailbox`, `PathRequestEnds`, `MarkedIsGiven` |
| `sync_nodes` | `Spec`; one request, two nodes, three messages (one good, one unstamped, one unreadable), a link of the outbound side; 1,004,700 states | `ImplementsMailbox` |
| `exchange` | `Spec`; two routers, `a` with a cost, enforcement and tickets, `b` with none; two messages one way, one the other with fields in two orders; tickets live 3 ticks (grace 1, renewal 1, interval 1), costs 2, seconds of 2 ticks, time to 4; 1,336,641 states | the inductive invariant `ExchangeInv`; `TicketsHonoured`, `RenewalsApart`, `RefusedHasReason`, `PaidFor` |
| `exchange_ticket_unused` | as `exchange`, one message each way | refutes `ticket.go:29`: a valid ticket is not used where no cost is known |
| `inbound` | `FairSpec`; one link from each side, messages of two destinations of the peer, two arrivals, marks that live 1 tick, time to 2; 154,704 states | the inductive invariant `InboundInv`; `OncePerExpiry`, `OnlyReplacedAreLost`, `LiveBackchannelKept`, `DeadLinksForgotten` |
| `stamp_miner` | `FairSpec`; three workers, digests of 3 bits, costs 0 to 3; 47,242 states | the inductive invariant `MinerInv`; `ErrorMeansNoneFound`, `ValueMeetsCost`, `Returns`, `NoneLeftBehind` |
| `sync_deadlock` | `Spec`; two requests | refutes `propagation.go:56`: asking over an active link never returns |
| `sync_stuck` | `FairSpec`; one request, no message | refutes `propagation.go:45`: a link that does not come up is not reported |

`CHECK_DEADLOCK FALSE`: the bounds on calls stop the models, and the program itself
may be idle, stopped or, as `sync_deadlock` shows, stuck.

**Why these bounds.** A direct link is shared by two entries; two attempts are the
least at which one attempt's late callbacks meet the next, and the give-up branch is
reached. Where one message is given to a node and sent to its recipient as well
(`outbound_mixed`), the callbacks of one entry find the other, and two hashes are the least
at which they find neither; `MaxHashes` is 1 in the other runs, where the hash matters
nothing (`outbound_single` has one entry, `outbound_shared` no callback that searches). One
attempt each keeps that run small; retries of a propagated message are `outbound_single`'s.
Two requests are the least at which a stale waiter, link, list or get of one meets
the state of another; a third repeats the second. Two nodes are needed only where an
answer comes over one link and the acknowledgement leaves over another. `exchange`: two
messages with tickets are the least for overlapping calls of `Send`, a renewal and an
overtaking; the message the other way is sent at any time before, at and after the
expiry of what it holds. The two with tickets are interchangeable, which the run uses as
a symmetry; it checks no liveness. `inbound`: a link from each side is the least at which
one displaces another, as a backchannel link is also a direct one; two arrivals are the
least at which the same message arrives twice, and one after its mark was cleaned.
`stamp_miner`: of three workers one sends, one fills the channel after the caller has
read it, and one finds it full.

**Fairness.** `Outbound`: the loop's goroutine is scheduled and its ticker fires
(weak fairness of `Tick`, an attempt, `RemoveFinished`), time reaches `NextAttempt`,
and the cleanup ticker is served though `select` may prefer the other ticker (strong
fairness: its tick stays in the channel, and `select` chooses at random among ready
channels). A goroutine that is back from `NewResource`, or is to report what it marked, goes
on (weak fairness of `ResourceStarted` and `Tell`). Nothing is assumed of the network, so
`EventuallyConcluded` and `EventuallyTold` hold with links that never come up. Liveness is
claimed until `Stop`. **The loop is taken never to block for good on a mutex.** The code does
not guarantee that: `attemptPropagated` locks `propagationMu`, and `sync_deadlock` shows
that `RequestMessages` may hold it for ever. After that the loop stops at the next
propagated message, and neither `EventuallyConcluded`, `EventuallyTold` nor
`DeadLinksForgotten` (in `Outbound` and `Inbound`, whose cleanup runs in the same goroutine)
can be relied on; they are promises of a router on which this defect has not struck.
`PropagationSync`: a
waiter polls until its deadline; a link in establishment comes up or times out; RNS
runs the callbacks it owes; a goroutine that dispatches a message is scheduled. The
node need not answer. Starvation on `propagationMu` is not assumed away for the
waiters beyond what weak fairness of an enabled action gives. `Inbound`: the cleanup
ticker is served (weak fairness of `CleanUp`, with the same proviso); links, callbacks and handlers may stall for
ever. `StampMiner`: goroutines are scheduled (weak fairness of each), and draws that can
succeed infinitely often do so once (strong fairness of `Find`): they are independent and
random. The caller's context need not end. `Exchange` states no liveness.

## Proofs

`OutboundProofs` proves, for every number of calls, recipients, nodes, messages and
attempts, from `OutboundAssumption` alone (counts are naturals, at least one attempt,
`nil` is no link and no node):

- `TypeCorrect`: `Spec => []TypeOK`. One step per action; the helpers `Set`,
  `Marked`, `SendOverLink`, `Hold`, ... have lemmas of their own.
- `NothingDropped`: `Spec => []NoSilentDrop`. It says that when an entry is no longer in the
  queue, "sent" or "failed" was reported of its message, or a callback that marked it has
  that report next to make (`Said`); `EventuallyTold` says that it makes it.
  `NoSilentDrop` says nothing about entries in the queue and is not inductive: the step that
  removes an entry must know that its conclusion was told. `ConcludedReported` adds that:
  every write of a conclusive state comes with a report of the same message, made or owed
  (`WillSay`), no entry is ever "delivered", "cancelled" or "rejected", and a queued entry
  has been sent. That it is a report of *the same message* fails to be inductive for the
  propagation callback, which writes an entry it looked up earlier, by a hash that may have
  changed since; `FoundIsQueued` adds that the entry it holds is one of the message its link
  was opened for, and that what is `starting` was sent. `IndInv` is the conjunction;
  `outbound_single` checks it, `outbound_mixed` checks its parts, and the proof shows
  `Init => IndInv` and `IndInv /\ [Next]_vars => IndInv'`. The action-wise facts are gathered
  in the lemma `EveryStep`: which shapes a step may give `state`, `queue` and what is said.
  `SaidKept` shows that what was said stays so: `Tell` moves a report from `untold` to
  `reported`.

- `OutboundInvariant`: `Spec => []IndInv` itself.

`OutboundDeliveryProofs` proves, from the same assumption, what is promised about each
message. The promises about an entry's state hold if no call gives its message to a
propagation node (`LoopDecides`); `SentImpliesHanded` holds of every entry, with "sent" bounded
to messages that are sent by one method (`OneMethod`), because a propagation callback that
finds the entry of another method sends an empty packet and reports "sent"
(`propagation.go:508`, below). None of the promises is inductive.
`DeliveryInv` adds to them `LinksHaveMethod` (attempts open links for direct and propagated
messages only, so a link's callback never sends an opportunistic one, and what looks an
entry up, or starts a resource with a mark, is an attempt at propagation), `BatchUndecided`
(what the loop still has to attempt of its snapshot is not concluded), `TransfersHanded`
(what is in flight was taken by RNS, but for such an empty packet) and `HandedIsSent` (an
opportunistic message that RNS took is at rest). `outbound_shared` and `outbound_mixed`
check it. The proof says once, in two predicates, what a step may do:
`HistoryStep` (to what is said and to transfers) and `StateMove` (to an entry's state:
it rests, is queued, is abandoned, or is tried). `EveryHistory` and `EveryMove` show that
every action obeys them, and the rest follows from the predicates alone:

- `DeliveryInvariant`: `Spec => []DeliveryInv`; `SentIsTrue`, `NotGivenUpEarly` and
  `OpportunisticGivenOnce` are its parts `SentImpliesHanded`, `NeverGivenUpEarly` and
  `OpportunisticOnce`.
- `ConclusionsStand`: the action property `ConcludedStable`. A concluded entry is not in the
  snapshot (`BatchUndecided`), and only the loop writes an entry of these methods.
- `SendImplementsDelivery`: `Spec => ImplementsDelivery`. `FateInit` maps the initial
  states, `FateMoves` each shape of `StateMove` to a move of `Delivery`.

`PropagationSyncProofs` proves, for every number of nodes, messages and requests and
every choice of undeliverable messages, from `SyncAssumption` alone (the bound on
requests is a natural, the sets of messages and links lie where they belong, `nil` is
no link and no node):

- `SyncInvariant`: `Spec => []SyncInv`, where `SyncInv` is `TypeOK` and three facts
  that only hold together. `LinksOpened`: a link that anything refers to was opened,
  so it leads to a node; without it neither the requests nor the acknowledgements can
  be typed, because a callback names its link long after the call that opened it.
  `OneWinner`: a message is at most once past the duplicate check or with the
  application, and only if its hash is marked, whether it came by fetches or
  directly. `AcksSettled`: what an answer says the router has, and what an
  acknowledgement carries, is marked in `deliveredIDs` or can never be delivered.
  `SettledGrows` shows that marks are never taken back, which makes an acknowledgement
  that is on its way stay true whichever node hears it.
- `FetchingImplementsMailbox`: `Spec => ImplementsMailbox`. The mapping takes a message
  for accepted once its id or its hash is marked (`Accepted`). `MailboxInit` maps the
  initial states, `MailboxStep` every step: the duplicate check and the handling of an
  answer to `Accept` or a stutter (`MarkAccepts`), the event to `Deliver`, for which
  `OneWinner` is needed, and a node's cleanup to `Forget`, for which `AcksSettled` is
  needed. Everything else stutters.
- `PathIsAwaited`: `Spec => []PathHasWaiter`, by `PathStep`: `TransferSteps` says which
  shapes a step may give the node, the state and the waiters. `PathHasWaiter` is
  inductive with `TypeOK`: a goroutine stops waiting without a change of state only
  when it waits for a node that is no longer configured or no path is requested any more.
- `CompleteWithProgress`: `Spec => []CompleteIsFull`, from the same lemma.

`ExchangeProofs` proves, for any routers, messages, costs, intervals, clock and number of
calls of `Send`, from `ExchangeAssumption` alone (numbers are naturals, `TicketRenew` is
less than `TicketExpiry`, a second has at least one tick, `nil` is no number and no
stamp):

- `ExchangeInvariant`: `Spec => []ExchangeInv`, part by part. `TypeStep` first.
  `RenewalStep`: `Send` makes a ticket only when none of the issuer's tickets for the peer
  is worth using again, so all of them expire at least `TicketExpiry - TicketRenew` before
  the new one. `PriceStep`: a message's cost is its application's or the destination's,
  and `StampsForPrice` says that what `Sign` makes, or keeps, is worth it. `TicketStep`:
  `TicketsStayKept` reduces it to two facts about a step, that it brings no ticket into
  circulation that is not in the issuer's store, and cleans none before its grace is over.
  `Circulating` has to name every place that a ticket can come back from, the stamp that a
  message keeps when it is sent a second time among them.
- `TicketsWork`: `Spec => []TicketsHonoured`. A kept ticket is accepted until it expires,
  and the peer's copy of the expiry is never later than the issuer's (`UnixBelow`).
- `TicketsAreRare`: `Spec => []RenewalsApart`, a part of the invariant.
- `NothingIsFree`: `Spec => []PaidFor`. A stamp that passes is for this very message, and has
  the work, or one of the router's tickets for its sender; that the sender has it from a
  message of this router, which it received, is `TicketsWereGiven`, part of the invariant:
  wherever a ticket can be used from (`Usable`), it came there by a message that was
  delivered, and no router ever uses a ticket made for another.
- `RefusalIsExcused`: the action property `RefusedHasReason`. Only `DispatchMessage` refuses. A
  message without a stamp had no cost set by its application, and its sender no announce of
  one (`FairlyPriced`, over the history `knew`); a refused stamp with a ticket is a ticket
  in circulation, hence honoured before its expiry; one with work is worth the destination's
  cost unless the application set a lower one. A sender that holds a ticket and has heard of
  no cost is *not* protected: the code does not look for the ticket
  (the run `exchange_ticket_unused`).

`exchange` has one call of `Send` for each message; the proofs cover any number.

`InboundProofs` proves, for any peers, links, messages, arrivals and expiry, from
`InboundAssumption`:

- `InboundInvariant`: `Spec => []InboundInv`. The lemma `SafeAlways` proves it together
  with the two properties below, in two halves that share `TypeOK`. Links (`LinkStep`):
  what a map, a hook, a callback or a handler names was up once (`LinksWereUp`), so a link
  that is taken out by its closed callback is closed and nothing that is up is lost.
  Marks (`MarkStep`): until its mark expires, a message that passed is marked, at the time
  it passed or later (`MarksRemembered`), and a mark is the time at which one passed.
- `PassedOnce`: `Spec => []OncePerExpiry`; `LinksAreFound`: `Spec => []OnlyReplacedAreLost`.
- `LiveLinksStay`: the action property `LiveBackchannelKept`, from `LinksWereUp`.

`StampMinerProofs` proves, for any number of workers, bits and costs, from
`MinerAssumption`:

- `MinerInvariant`: `Spec => []MinerInv`. A stamp that was found is with a worker that is
  about to send it, in the channel, or with the caller (`FoundIsCarried`); a worker that
  sends has drawn a stamp (`FinderHasStamp`); the channel closes after the last worker
  (`ClosedLast`); and before a stamp is found or the context ends nobody leaves
  (`GoneForCause`). A full channel drops a stamp, but then it holds another. What was
  drawn, is in the channel or was returned passed `StampValid` at the cost of the call
  (`StampsAreValid`).
- `NoStampIsLost`: `Spec => []ErrorMeansNoneFound`, which follows from these.
- `ValueIsEnough`: `Spec => []ValueMeetsCost`. A digest below the target differs from it
  first at the target's bit, so it begins with as many zeros as the cost (`ValidBegins`,
  `LeadingZeros`); the target itself has one less (`TargetValue`). With digests as rows of
  bits this needs the size of intervals only, no powers of two and no induction.
- `LowerCostsAccept`: what is valid at a cost is valid at every lower one. It is why
  `Exchange` may tell the work in a stamp by one number.

Only model-checked: the liveness properties `EventuallyConcluded`, `EventuallyTold`,
`DeadLinksForgotten` (in `Outbound` and `Inbound`), `PathRequestEnds`, `MarkedIsGiven`, `Returns` and
`NoneLeftBehind`, which are out of the prover's reach, like anything that rests on fairness
and `ENABLED`; and, for more than 3 bits, that `Target` and `AtMost` are the shift and the
comparison of the numbers that digests stand for (induction over the bits). Every invariant
and every action property of a passing run is proved.

## Other divergences met while modelling

No run is spent on these; the models contain the behaviour.
- `propagation.go:508`: the established callback of a propagation link searches the queue by
  hash alone and may find the entry of a direct or opportunistic delivery of the same message,
  whose `PropagationPacked` is nil; it then sends an empty packet, marks that entry sent and
  reports it. `outbound_mixed` goes through it; `OneMethod` bounds `SentImpliesHanded` for it.
- `outbound.go:82`: `outbound.go:66` speaks of removing "completed or failed entries"; an entry in
  `StateSent` stays unless it is opportunistic, and nothing moves a propagated one on, so the
  entry of every propagated message that its node took stays in the queue for ever.
- `router.go:553`: a second direct link to a destination overwrites the first one in
  `directLinks`; the first stays up, unknown to the cleanup.
- `router.go:438-440`: an opportunistic message over a reused link is reported "sent"
  even when the link packet failed and "failed" was reported just before; and it may be
  reported "delivered" later, though `router.go:38-39` says there is no delivery confirmation.
- `propagation.go:147`: a link opened before a switch or a cancel becomes the
  propagation link when it comes up, whatever node is configured by then.
- `propagation.go:117`: a waiter of a cancelled request may end the wait of a newer one.
- `propagation.go:159`: an error code of the node (`PRNoAccess`, ...) is followed by a
  teardown, whose closed callback replaces it by `PRLinkFailed`.
- `outbound.go:98`, `propagation.go:508`: a message that is sent again while it is queued is
  signed anew, and gets another hash if its payload changed (a new ticket is enough): marks
  for the old hash are lost, and the callback of a link opened for it finds nothing to send.
- `outbound.go:99`: a late callback of one attempt takes back what a later attempt of the same
  message concluded, sent after failed or failed after sent.
- `propagation.go:407`: progress that comes after its response was handled turns the state from
  complete, or from the path request of another call, back to receiving.
- `ticket.go:74` says that `GenerateTicket` returns nil if "an existing ticket still has
  enough validity"; it returns that ticket.
- `ticket.go:173`: `Clean` "removes expired tickets and stale delivery records";
  `lastDeliveries` is never cleaned.
- `router.go:301`: a ticket counts as delivered even when signing or packing fails next.
- `router.go:962`: a message dropped for its stamp stays marked; sent again unchanged with
  a proper stamp, which does not change its hash, it is dropped as a duplicate.
- `message.go:149`: a message that is sent again keeps its stamp, though a new ticket
  among its fields changes the hash that the stamp was made for.
- `stamper.go:119`: a digest equal to the bound is valid and has one leading zero bit less
  than the cost (`ValueMeetsCost` names the exception).
- `message.go:188`: `message.go:107` says that the wire payload "is the same as packPayload but
  includes the stamp"; `Pack` walks the fields once more, and with two or more of them, which
  are a Go map, may encode them in another order than `Sign` did. Hash, signature and stamp then
  do not match what was sent: the receiver finds the signature invalid and, if it enforces
  stamps, drops the message. `Send` adds the ticket as a field, so one field of the
  application is enough. It is the last excuse of `RefusedHasReason`.
- `router.go:296`: `ticket.go:24` calls `TicketInterval` "the minimum time between ticket
  deliveries to the same destination"; two calls of `Send` that overlap both deliver within
  it, because the check and `RecordTicketDelivery` are two critical sections. They deliver the
  same ticket, or in the moment of a renewal the newer one (`RenewalsApart`).
- `router.go:306`: `Send` mines with `context.Background()`; with a cost above 255 bits, set
  or announced, it does not return.
- `router.go:223`: two concurrent calls of `Stop` may both close `stopCh`.
- `router.go:801`: backchannel links are stored "so we can reuse it for replies", and
  nothing reads them.

## Not modelled

Encoding and decoding of messages, app data and stored files, hashes, signatures,
encryption and the workblock are pure conversions with unit tests in the repository; a
message is a model value, and only where two encodings of one message may differ is that
modelled. Announces of propagation nodes change no state. `Start` runs once before
everything else, and `OnEvent` appends to a list that is read under its lock. The limit on
the size of inbound resources rejects a transfer before anything here begins. Restarts are
not modelled because nothing is persisted: a new process starts from `Init`.

## Plan

Done: `Outbound` with `Delivery`, `PropagationSync` with `Mailbox`, `Exchange`, `Inbound` and
`StampMiner`, each with the inductive invariant and every safety property proved.

1. What propagated messages are promised: a stage "sent" that a late callback may take back,
   in `Delivery` or a module beside it.
2. Abstract specifications of `Inbound` (each message passes once in the life of its mark)
   and of `GenerateStamp` (an answer once, valid or excused), with their refinement.
