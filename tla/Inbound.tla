------------------------------ MODULE Inbound -------------------------------
(***************************************************************************)
(* The inbound half of the LXMF router, up to where a message is judged:   *)
(* links that peers open and links that the router opens, the two maps     *)
(* that name them, the handlers of what arrives as a packet, over a link   *)
(* or as a resource, the duplicate check, and the cleanup.                 *)
(*                                                                         *)
(* Source: device/node/router.go: cleanDeliveredIDs, cleanInactiveLinks,   *)
(* the callbacks of attemptDirect's link, removeLinkFromMaps, handlePacket,*)
(* handleLinkEstablished and all below it.                                 *)
(*                                                                         *)
(* RNS runs every callback on a goroutine of its own, and may run it after *)
(* the link has closed.                                                    *)
(***************************************************************************)
EXTENDS Naturals

CONSTANTS
  Peer,               \* delivery destinations of others, in hex
  Out, In,            \* links that the router opens, and that peers open
  PeerOf,             \* who is at the other end of a link
  Msg,                \* message hashes
  SourceOf,           \* the SourceHash of a message
  Arrivals,           \* bound on the number of messages that arrive, as 1..n
  DeliveredIDExpiry,  \* deliveredIDExpiry
  MaxTime,            \* bound on the clock
  NoLink, None        \* nil, and absent from deliveredIDs

Link    == Out \cup In
Arrival == 1..Arrivals
Time    == 0..MaxTime

ASSUME InboundAssumption ==
  /\ {Arrivals, DeliveredIDExpiry, MaxTime} \subseteq Nat
  /\ PeerOf \in [Link -> Peer] /\ SourceOf \in [Msg -> Peer]
  /\ Out \cap In = {}
  /\ NoLink \notin Link /\ None \notin Nat

VARIABLES
  now,               \* time.Now(), in ticks
  status,            \* link.Status
  hooks,             \* the callbacks that the router has set on a link
  todo,              \* the callbacks that RNS has yet to run
  directLinks,       \* LXMRouter.directLinks
  backchannelLinks,  \* LXMRouter.backchannelLinks
  handler,           \* where the handler of an arrival stands, and of what
  deliveredIDs,      \* LXMRouter.deliveredIDs
  stored             \* history: links put into a map, and not replaced since

linkVars == <<status, hooks, todo>>
mapVars  == <<directLinks, backchannelLinks, stored>>
vars     == <<now, linkVars, mapVars, handler, deliveredIDs>>

\* at is when the duplicate check was made, in the steps after it.
Handler ==
  [at : {"unused"}] \cup
  [at : {"storing"}, msg : Msg, link : Link] \cup
  [at : {"dispatching"}, msg : Msg] \cup
  [at : {"passed", "dropped"}, msg : Msg, time : Time]

TypeOK ==
  /\ now \in Time
  /\ status \in [Link -> {"none", "pending", "active", "closed"}]
  /\ hooks \in [Link -> SUBSET {"message", "identified", "closed"}]
  /\ todo \subseteq Link \X {"established", "identified", "closed"}
  /\ directLinks \in [Peer -> Out \cup {NoLink}]
  /\ backchannelLinks \in [Peer -> Link \cup {NoLink}]
  /\ handler \in [Arrival -> Handler]
  /\ deliveredIDs \in [Msg -> Time \cup {None}]
  /\ stored \subseteq Link

-----------------------------------------------------------------------------
NamedIn(direct, backchannel, l) ==
  \E p \in Peer : direct[p] = l \/ backchannel[p] = l

Named(l) == NamedIn(directLinks, backchannelLinks, l)

\* Links that close, and whose closed callback is then due.
TearDown(links) ==
  /\ status' = [l \in Link |-> IF l \in links THEN "closed" ELSE status[l]]
  /\ todo' = todo \cup {<<l, "closed">> : l \in {k \in links : "closed" \in hooks[k]}}

\* l is put into the map that changes.  A link that both maps name is not
\* replaced when one of them names another.
Store(direct, backchannel, l) ==
  /\ directLinks' = direct /\ backchannelLinks' = backchannel
  /\ stored' = {k \in stored : Named(k) => NamedIn(direct, backchannel, k)} \cup {l}

Init ==
  /\ now = 0
  /\ status = [l \in Link |-> "none"]
  /\ hooks = [l \in Link |-> {}]
  /\ todo = {}
  /\ directLinks = [p \in Peer |-> NoLink]
  /\ backchannelLinks = [p \in Peer |-> NoLink]
  /\ handler = [i \in Arrival |-> [at |-> "unused"]]
  /\ deliveredIDs = [m \in Msg |-> None]
  /\ stored = {}

TimePasses ==
  /\ now < MaxTime
  /\ now' = now + 1
  /\ UNCHANGED <<linkVars, mapVars, handler, deliveredIDs>>

-----------------------------------------------------------------------------
(* Links.                                                                  *)

\* NewLink in attemptDirect; the closed callback is one of its arguments.
OpenDirect(l) ==
  /\ l \in Out /\ status[l] = "none"
  /\ status' = [status EXCEPT ![l] = "pending"]
  /\ hooks' = [hooks EXCEPT ![l] = {"closed"}]
  /\ UNCHANGED <<now, todo, mapVars, handler, deliveredIDs>>

\* RNS: a link of either side comes up.
LinkUp(l) ==
  /\ status[l] = IF l \in Out THEN "pending" ELSE "none"
  /\ status' = [status EXCEPT ![l] = "active"]
  /\ todo' = todo \cup {<<l, "established">>}
  /\ UNCHANGED <<now, hooks, mapVars, handler, deliveredIDs>>

\* RNS: a link closes, or never comes up.
LinkDown(l) ==
  /\ status[l] \in {"pending", "active"}
  /\ TearDown({l})
  /\ UNCHANGED <<now, hooks, mapVars, handler, deliveredIDs>>

\* The established callback of a direct link.
DirectEstablished(l) ==
  /\ l \in Out /\ <<l, "established">> \in todo
  /\ todo' = todo \ {<<l, "established">>}
  /\ hooks' = [hooks EXCEPT ![l] = @ \cup {"message"}]
  /\ Store([directLinks EXCEPT ![PeerOf[l]] = l], backchannelLinks, l)
  /\ UNCHANGED <<now, status, handler, deliveredIDs>>

\* handleLinkEstablished sets the message callbacks first.
ConfigureLinkCallbacks(l) ==
  /\ l \in In /\ <<l, "established">> \in todo
  /\ "message" \notin hooks[l]
  /\ hooks' = [hooks EXCEPT ![l] = {"message"}]
  /\ UNCHANGED <<now, status, todo, mapVars, handler, deliveredIDs>>

\* The other two are set when messages may already be handled, and when the
\* link may have closed, so that its closed callback will not run.
HandleLinkEstablished(l) ==
  /\ l \in In /\ <<l, "established">> \in todo
  /\ "message" \in hooks[l]
  /\ todo' = todo \ {<<l, "established">>}
  /\ hooks' = [hooks EXCEPT ![l] = {"message", "identified", "closed"}]
  /\ UNCHANGED <<now, status, mapVars, handler, deliveredIDs>>

\* RNS: the peer identifies itself on a link that it has opened.
PeerIdentifies(l) ==
  /\ l \in In /\ status[l] = "active" /\ "identified" \in hooks[l]
  /\ todo' = todo \cup {<<l, "identified">>}
  /\ UNCHANGED <<now, status, hooks, mapVars, handler, deliveredIDs>>

HandleRemoteIdentified(l) ==
  /\ <<l, "identified">> \in todo
  /\ todo' = todo \ {<<l, "identified">>}
  /\ Store(directLinks, [backchannelLinks EXCEPT ![PeerOf[l]] = l], l)
  /\ UNCHANGED <<now, status, hooks, handler, deliveredIDs>>

\* Variant: whatever is stored for the peer of the link is deleted.
WithoutKey(map, l) == [map EXCEPT ![PeerOf[l]] = NoLink]

\* delete, wherever the map names the link.
Without(map, l) == [p \in Peer |-> IF map[p] = l THEN NoLink ELSE map[p]]

\* The closed callback.
RemoveLinkFromMaps(l) ==
  /\ <<l, "closed">> \in todo
  /\ todo' = todo \ {<<l, "closed">>}
  /\ directLinks' = Without(directLinks, l)
  /\ backchannelLinks' = Without(backchannelLinks, l)
  /\ UNCHANGED <<now, status, hooks, handler, deliveredIDs, stored>>

-----------------------------------------------------------------------------
(* Messages.                                                               *)

\* Arrivals are numbered as they come.
IsNext(i) == handler[i].at = "unused" /\ \A j \in 1..(i - 1) : handler[j].at # "unused"

\* handlePacket of a readable message, without a link.
HandlePacket(i, m) ==
  /\ IsNext(i)
  /\ handler' = [handler EXCEPT ![i] = [at |-> "dispatching", msg |-> m]]
  /\ UNCHANGED <<now, linkVars, mapVars, deliveredIDs>>

\* handleLinkPacket or handleResourceConcluded of a readable message, up to
\* the look at the link's status.
HandleLinkMessage(i, m, l) ==
  /\ IsNext(i)
  /\ status[l] \in {"active", "closed"} /\ "message" \in hooks[l]
  /\ handler' = [handler EXCEPT ![i] =
       IF status[l] = "active" THEN [at |-> "storing", msg |-> m, link |-> l]
       ELSE [at |-> "dispatching", msg |-> m]]
  /\ UNCHANGED <<now, linkVars, mapVars, deliveredIDs>>

\* Variant: whatever is stored gives way.
AnyGivesWay(p) == TRUE

\* existing == nil || existing.Status != rns.LinkActive
GivesWay(p) ==
  backchannelLinks[p] = NoLink \/ status[backchannelLinks[p]] # "active"

\* The link may have closed since it was looked at.
RegisterBackchannelFromSource(i) ==
  /\ handler[i].at = "storing"
  /\ handler' = [handler EXCEPT ![i] = [at |-> "dispatching", msg |-> @.msg]]
  /\ LET p == SourceOf[handler[i].msg]
         l == handler[i].link
     IN  IF GivesWay(p) THEN Store(directLinks, [backchannelLinks EXCEPT ![p] = l], l)
         ELSE UNCHANGED mapVars
  /\ UNCHANGED <<now, linkVars, deliveredIDs>>

\* Variant: the mark is left to those who judge the message.
CheckOnly(i) ==
  /\ handler[i].at = "dispatching"
  /\ LET m == handler[i].msg
     IN  handler' = [handler EXCEPT ![i] =
           [at |-> IF deliveredIDs[m] = None THEN "passed" ELSE "dropped",
            msg |-> m, time |-> now]]
  /\ UNCHANGED <<now, linkVars, mapVars, deliveredIDs>>

\* The first critical section of dispatchMessage; Exchange has the rest.
CheckDuplicate(i) ==
  /\ handler[i].at = "dispatching"
  /\ LET m   == handler[i].msg
         dup == deliveredIDs[m] # None
     IN  /\ handler' = [handler EXCEPT ![i] =
               [at |-> IF dup THEN "dropped" ELSE "passed", msg |-> m, time |-> now]]
         /\ deliveredIDs' = IF dup THEN deliveredIDs
                            ELSE [deliveredIDs EXCEPT ![m] = now]
  /\ UNCHANGED <<now, linkVars, mapVars>>

-----------------------------------------------------------------------------
(* The cleanup ticker.                                                     *)

\* Variant: a hash is forgotten in the tick in which it expires.
ExpiresAt(m) == deliveredIDs[m] # None /\ now - deliveredIDs[m] >= DeliveredIDExpiry

Expired(m) == deliveredIDs[m] # None /\ now - deliveredIDs[m] > DeliveredIDExpiry

\* Variant: the status is not looked at.
QuietOnly(quiet) == quiet

\* link.Status != rns.LinkActive || link.NoDataFor() > linkMaxInactivity
Stale(quiet) == {l \in Link : status[l] # "active"} \cup quiet

\* cleanDeliveredIDs and cleanInactiveLinks; quiet are the links that carried
\* nothing for linkMaxInactivity.  A link that the first map names is closed
\* when the second one is looked at.
CleanUp ==
  /\ deliveredIDs' = [m \in Msg |-> IF Expired(m) THEN None ELSE deliveredIDs[m]]
  /\ \E quiet \in SUBSET {l \in Link : status[l] = "active" /\ Named(l)} :
       LET Kept(map) == [p \in Peer |-> IF map[p] \in Stale(quiet) THEN NoLink
                                        ELSE map[p]]
       IN  /\ TearDown(quiet)
           /\ directLinks' = Kept(directLinks)
           /\ backchannelLinks' = Kept(backchannelLinks)
  /\ UNCHANGED <<now, hooks, handler, stored>>

Next ==
  \/ TimePasses \/ CleanUp
  \/ \E l \in Link : \/ OpenDirect(l) \/ LinkUp(l) \/ LinkDown(l)
                     \/ DirectEstablished(l) \/ ConfigureLinkCallbacks(l)
                     \/ HandleLinkEstablished(l) \/ PeerIdentifies(l)
                     \/ HandleRemoteIdentified(l) \/ RemoveLinkFromMaps(l)
  \/ \E i \in Arrival :
       \/ \E m \in Msg : HandlePacket(i, m) \/ \E l \in Link : HandleLinkMessage(i, m, l)
       \/ RegisterBackchannelFromSource(i) \/ CheckDuplicate(i)

Spec == Init /\ [][Next]_vars

\* The cleanup ticker is served.
FairSpec == Spec /\ WF_vars(CleanUp)

-----------------------------------------------------------------------------
(* Properties.                                                             *)

Passed(i)  == handler[i].at = "passed"
Dropped(i) == handler[i].at = "dropped"

\* What passed is marked until the mark expires, and who marked it passed.
MarksRemembered ==
  /\ \A i \in Arrival : Passed(i) =>
       /\ handler[i].time <= now
       /\ now <= handler[i].time + DeliveredIDExpiry =>
            LET mark == deliveredIDs[handler[i].msg]
            IN  mark # None /\ mark >= handler[i].time
  /\ \A m \in Msg : deliveredIDs[m] # None =>
       \E i \in Arrival : Passed(i) /\ handler[i].msg = m /\ handler[i].time = deliveredIDs[m]

\* Who may store a link, and what names one, has seen it up; a closed callback
\* is due for closed links only.
LinksWereUp ==
  \A l \in Link :
    /\ \/ l \in stored \/ Named(l) \/ "message" \in hooks[l]
       \/ <<l, "established">> \in todo \/ <<l, "identified">> \in todo
       \/ \E i \in Arrival : handler[i].at = "storing" /\ handler[i].link = l
       => status[l] \in {"active", "closed"}
    /\ <<l, "closed">> \in todo => status[l] = "closed"
    /\ Named(l) => l \in stored

\* What makes the safety properties inductive.
InboundInv == TypeOK /\ MarksRemembered /\ LinksWereUp

\* router.go:132 "retained for dedup": however a message arrives, and however
\* often at once, it passes the duplicate check once in the time that its hash is
\* kept, and what is dropped as a duplicate is one.
OncePerExpiry ==
  \A i \in Arrival :
    /\ Passed(i) => \A j \in Arrival \ {i} :
         Passed(j) /\ handler[j].msg = handler[i].msg =>
           \/ handler[i].time > handler[j].time + DeliveredIDExpiry
           \/ handler[j].time > handler[i].time + DeliveredIDExpiry
    /\ Dropped(i) => \E j \in Arrival :
         Passed(j) /\ handler[j].msg = handler[i].msg /\ handler[j].time <= handler[i].time

\* A link that is up and was put into a map is found there, to be used and to be
\* closed for being idle, unless a later link to the same peer took its place:
\* the late end of one link does not take another one out.
OnlyReplacedAreLost ==
  \A l \in stored : status[l] = "active" => Named(l)

\* A message does not take the place of a live backchannel link: only the peer
\* who identifies on another link does, and the cleanup, which closes it.
LiveBackchannelKept ==
  [][\A p \in Peer :
       LET l == backchannelLinks[p]
       IN  l # NoLink /\ status[l] = "active" /\ backchannelLinks'[p] # l =>
             \/ status'[l] = "closed"
             \/ <<backchannelLinks'[p], "identified">> \in todo]_vars

\* A link that closed is forgotten for good, though a handler that saw it up,
\* or a callback that runs late, may put it into a map once more, and though
\* its end may go unreported.
DeadLinksForgotten ==
  \A l \in Link : status[l] = "closed" ~> [](~Named(l))
=============================================================================
