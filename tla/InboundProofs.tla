---------------------------- MODULE InboundProofs ---------------------------
(***************************************************************************)
(* Theorems about Inbound, for any peers, links, messages, arrivals and    *)
(* expiry.                                                                 *)
(*                                                                         *)
(* The invariant is proved in two halves that share TypeOK: what is known  *)
(* of links and of the maps, and what is known of handlers and marks.      *)
(***************************************************************************)
EXTENDS Inbound, TLAPS

LEMMA InitOK == Init => InboundInv
BY InboundAssumption DEF InboundAssumption, Init, InboundInv, TypeOK, Handler,
   MarksRemembered, Passed, LinksWereUp, Named, NamedIn, Arrival, Time, Link

\* TearDown keeps the types of what it changes.
LEMMA TearDownType ==
  ASSUME TypeOK, NEW links \in SUBSET Link, TearDown(links)
  PROVE  /\ status' \in [Link -> {"none", "pending", "active", "closed"}]
         /\ todo' \subseteq Link \X {"established", "identified", "closed"}
BY DEF TypeOK, TearDown

LEMMA TypeStep == TypeOK /\ LinksWereUp /\ [Next]_vars => TypeOK'
<1> SUFFICES ASSUME TypeOK, LinksWereUp, [Next]_vars PROVE TypeOK'
  OBVIOUS
<1> USE InboundAssumption DEF InboundAssumption, linkVars, mapVars
<1>1. CASE TimePasses
  BY <1>1 DEF TimePasses, TypeOK, Time
<1>2. CASE CleanUp
  <2>1. PICK quiet \in SUBSET Link :
          /\ TearDown(quiet)
          /\ directLinks' = [p \in Peer |-> IF directLinks[p] \in Stale(quiet)
                                            THEN NoLink ELSE directLinks[p]]
          /\ backchannelLinks' = [p \in Peer |->
                IF backchannelLinks[p] \in Stale(quiet) THEN NoLink
                ELSE backchannelLinks[p]]
    BY <1>2 DEF CleanUp
  <2>2. deliveredIDs' \in [Msg -> Time \cup {None}]
    BY <1>2 DEF CleanUp, TypeOK
  <2> QED
    BY <1>2, <2>1, <2>2, TearDownType DEF CleanUp, TypeOK
<1>3. ASSUME NEW l \in Link, OpenDirect(l) PROVE TypeOK'
  BY <1>3 DEF OpenDirect, TypeOK
<1>4. ASSUME NEW l \in Link, LinkUp(l) PROVE TypeOK'
  BY <1>4 DEF LinkUp, TypeOK
<1>5. ASSUME NEW l \in Link, LinkDown(l) PROVE TypeOK'
  BY <1>5, TearDownType DEF LinkDown, TypeOK
<1>6. ASSUME NEW l \in Link, DirectEstablished(l) PROVE TypeOK'
  BY <1>6 DEF DirectEstablished, Store, TypeOK
<1>7. ASSUME NEW l \in Link, ConfigureLinkCallbacks(l) PROVE TypeOK'
  BY <1>7 DEF ConfigureLinkCallbacks, TypeOK
<1>8. ASSUME NEW l \in Link, HandleLinkEstablished(l) PROVE TypeOK'
  BY <1>8 DEF HandleLinkEstablished, TypeOK
<1>9. ASSUME NEW l \in Link, PeerIdentifies(l) PROVE TypeOK'
  BY <1>9 DEF PeerIdentifies, TypeOK
<1>10. ASSUME NEW l \in Link, HandleRemoteIdentified(l) PROVE TypeOK'
  BY <1>10 DEF HandleRemoteIdentified, Store, TypeOK
<1>11. ASSUME NEW l \in Link, RemoveLinkFromMaps(l) PROVE TypeOK'
  BY <1>11 DEF RemoveLinkFromMaps, Without, TypeOK
<1>12. ASSUME NEW i \in Arrival, NEW m \in Msg, HandlePacket(i, m) PROVE TypeOK'
  <2>1. [at |-> "dispatching", msg |-> m] \in Handler
    BY DEF Handler
  <2> QED
    BY <1>12, <2>1 DEF HandlePacket, TypeOK
<1>13. ASSUME NEW i \in Arrival, NEW m \in Msg, NEW l \in Link, HandleLinkMessage(i, m, l)
       PROVE TypeOK'
  <2>1. /\ [at |-> "dispatching", msg |-> m] \in Handler
        /\ [at |-> "storing", msg |-> m, link |-> l] \in Handler
    BY DEF Handler
  <2> QED
    BY <1>13, <2>1 DEF HandleLinkMessage, TypeOK
<1>14. ASSUME NEW i \in Arrival, RegisterBackchannelFromSource(i) PROVE TypeOK'
  <2>1. handler[i].at = "storing" /\ handler[i] \in Handler
    BY <1>14 DEF RegisterBackchannelFromSource, TypeOK
  <2>2. handler[i].msg \in Msg /\ handler[i].link \in Link
    BY <2>1 DEF Handler
  <2>3. [at |-> "dispatching", msg |-> handler[i].msg] \in Handler
    BY <2>2 DEF Handler
  <2> QED
    BY <1>14, <2>2, <2>3 DEF RegisterBackchannelFromSource, Store, TypeOK
<1>15. ASSUME NEW i \in Arrival, CheckDuplicate(i) PROVE TypeOK'
  <2>1. handler[i].at = "dispatching" /\ handler[i] \in Handler
    BY <1>15 DEF CheckDuplicate, TypeOK
  <2>2. handler[i].msg \in Msg
    BY <2>1 DEF Handler
  <2>3. \A at \in {"passed", "dropped"} :
          [at |-> at, msg |-> handler[i].msg, time |-> now] \in Handler
    BY <2>2 DEF Handler, TypeOK
  <2> QED
    BY <1>15, <2>2, <2>3 DEF CheckDuplicate, TypeOK
<1>16. CASE UNCHANGED vars
  BY <1>16 DEF vars, TypeOK
<1> QED
  BY <1>1, <1>2, <1>3, <1>4, <1>5, <1>6, <1>7, <1>8, <1>9, <1>10, <1>11, <1>12,
     <1>13, <1>14, <1>15, <1>16 DEF Next

-----------------------------------------------------------------------------
(* Links and maps.                                                         *)

\* Who changes neither links nor maps, nor begins to store a link.
LEMMA LinksUnchanged ==
  ASSUME TypeOK, LinksWereUp, OnlyReplacedAreLost, UNCHANGED <<linkVars, mapVars>>,
         \A i \in Arrival : handler'[i].at = "storing" => handler'[i] = handler[i]
  PROVE  LinksWereUp' /\ OnlyReplacedAreLost'
BY DEF LinksWereUp, OnlyReplacedAreLost, Named, NamedIn, linkVars, mapVars

\* A link that was up is put into a map.
LEMMA StoreKeeps ==
  ASSUME TypeOK, LinksWereUp, OnlyReplacedAreLost,
         NEW direct, NEW backchannel, NEW l \in Link, Store(direct, backchannel, l),
         NamedIn(direct, backchannel, l),
         \A k \in Link : NamedIn(direct, backchannel, k) => k = l \/ Named(k)
  PROVE  /\ \A k \in Link : Named(k)' => k = l \/ Named(k)
         /\ \A k \in Link : k \in stored' => k = l \/ k \in stored
         /\ \A k \in Link : Named(k)' => k \in stored'
         /\ \A k \in stored' : status[k] = "active" => Named(k)'
BY DEF LinksWereUp, OnlyReplacedAreLost, Named, NamedIn, Store, TypeOK

LEMMA LinkStep ==
  TypeOK /\ LinksWereUp /\ OnlyReplacedAreLost /\ [Next]_vars
    => LinksWereUp' /\ OnlyReplacedAreLost'
<1> SUFFICES ASSUME TypeOK, LinksWereUp, OnlyReplacedAreLost, [Next]_vars
             PROVE  LinksWereUp' /\ OnlyReplacedAreLost'
  OBVIOUS
<1> USE InboundAssumption DEF InboundAssumption
<1>1. CASE TimePasses
  BY <1>1, LinksUnchanged DEF TimePasses
<1>2. CASE CleanUp
  <2>1. PICK quiet \in SUBSET Link :
          /\ TearDown(quiet)
          /\ \A l \in quiet : status[l] = "active"
          /\ directLinks' = [p \in Peer |-> IF directLinks[p] \in Stale(quiet)
                                            THEN NoLink ELSE directLinks[p]]
          /\ backchannelLinks' = [p \in Peer |->
                IF backchannelLinks[p] \in Stale(quiet) THEN NoLink
                ELSE backchannelLinks[p]]
    BY <1>2 DEF CleanUp
  <2>2. UNCHANGED <<hooks, handler, stored>>
    BY <1>2 DEF CleanUp
  <2>3. \A l \in Link : Named(l)' <=> Named(l) /\ l \notin Stale(quiet)
    BY <2>1 DEF Named, NamedIn, TypeOK
  <2>4. \A l \in Link : /\ status'[l] = IF l \in quiet THEN "closed" ELSE status[l]
                        /\ <<l, "established">> \in todo' => <<l, "established">> \in todo
                        /\ <<l, "identified">> \in todo' => <<l, "identified">> \in todo
                        /\ <<l, "closed">> \in todo' => l \in quiet \/ <<l, "closed">> \in todo
    BY <2>1 DEF TearDown, TypeOK
  <2>5. LinksWereUp'
    BY <2>1, <2>2, <2>3, <2>4 DEF LinksWereUp
  <2>6. OnlyReplacedAreLost'
    BY <2>2, <2>3, <2>4 DEF OnlyReplacedAreLost, Stale, TypeOK
  <2> QED
    BY <2>5, <2>6
<1>3. ASSUME NEW l \in Link, OpenDirect(l) PROVE LinksWereUp' /\ OnlyReplacedAreLost'
  BY <1>3 DEF OpenDirect, LinksWereUp, OnlyReplacedAreLost, Named, NamedIn, mapVars, TypeOK
<1>4. ASSUME NEW l \in Link, LinkUp(l) PROVE LinksWereUp' /\ OnlyReplacedAreLost'
  BY <1>4 DEF LinkUp, LinksWereUp, OnlyReplacedAreLost, Named, NamedIn, mapVars, TypeOK
<1>5. ASSUME NEW l \in Link, LinkDown(l) PROVE LinksWereUp' /\ OnlyReplacedAreLost'
  BY <1>5 DEF LinkDown, TearDown, LinksWereUp, OnlyReplacedAreLost, Named, NamedIn,
     mapVars, TypeOK
<1>6. ASSUME NEW l \in Link, DirectEstablished(l)
      PROVE  LinksWereUp' /\ OnlyReplacedAreLost'
  <2> DEFINE direct == [directLinks EXCEPT ![PeerOf[l]] = l]
  <2>1. /\ Store(direct, backchannelLinks, l)
        /\ NamedIn(direct, backchannelLinks, l)
        /\ \A k \in Link : NamedIn(direct, backchannelLinks, k) => k = l \/ Named(k)
    BY <1>6 DEF DirectEstablished, Named, NamedIn, TypeOK
  <2>2. /\ \A k \in Link : Named(k)' => k = l \/ Named(k)
        /\ \A k \in Link : k \in stored' => k = l \/ k \in stored
        /\ \A k \in Link : Named(k)' => k \in stored'
        /\ \A k \in stored' : status[k] = "active" => Named(k)'
    BY <2>1, StoreKeeps
  <2> QED
    BY <1>6, <2>2 DEF DirectEstablished, LinksWereUp, OnlyReplacedAreLost, TypeOK
<1>7. ASSUME NEW l \in Link, ConfigureLinkCallbacks(l)
      PROVE  LinksWereUp' /\ OnlyReplacedAreLost'
  BY <1>7 DEF ConfigureLinkCallbacks, LinksWereUp, OnlyReplacedAreLost, Named, NamedIn,
     mapVars, TypeOK
<1>8. ASSUME NEW l \in Link, HandleLinkEstablished(l)
      PROVE  LinksWereUp' /\ OnlyReplacedAreLost'
  BY <1>8 DEF HandleLinkEstablished, LinksWereUp, OnlyReplacedAreLost, Named, NamedIn,
     mapVars, TypeOK
<1>9. ASSUME NEW l \in Link, PeerIdentifies(l) PROVE LinksWereUp' /\ OnlyReplacedAreLost'
  BY <1>9 DEF PeerIdentifies, LinksWereUp, OnlyReplacedAreLost, Named, NamedIn,
     mapVars, TypeOK
<1>10. ASSUME NEW l \in Link, HandleRemoteIdentified(l)
       PROVE  LinksWereUp' /\ OnlyReplacedAreLost'
  <2> DEFINE backchannel == [backchannelLinks EXCEPT ![PeerOf[l]] = l]
  <2>1. /\ Store(directLinks, backchannel, l)
        /\ NamedIn(directLinks, backchannel, l)
        /\ \A k \in Link : NamedIn(directLinks, backchannel, k) => k = l \/ Named(k)
    BY <1>10 DEF HandleRemoteIdentified, Named, NamedIn, TypeOK
  <2>2. /\ \A k \in Link : Named(k)' => k = l \/ Named(k)
        /\ \A k \in Link : k \in stored' => k = l \/ k \in stored
        /\ \A k \in Link : Named(k)' => k \in stored'
        /\ \A k \in stored' : status[k] = "active" => Named(k)'
    BY <2>1, StoreKeeps
  <2> QED
    BY <1>10, <2>2 DEF HandleRemoteIdentified, LinksWereUp, OnlyReplacedAreLost, TypeOK
<1>11. ASSUME NEW l \in Link, RemoveLinkFromMaps(l)
       PROVE  LinksWereUp' /\ OnlyReplacedAreLost'
  <2>1. status[l] = "closed"
    BY <1>11 DEF RemoveLinkFromMaps, LinksWereUp
  <2>2. \A k \in Link : Named(k)' <=> Named(k) /\ k # l
    BY <1>11 DEF RemoveLinkFromMaps, Without, Named, NamedIn, TypeOK
  <2> QED
    BY <1>11, <2>1, <2>2 DEF RemoveLinkFromMaps, LinksWereUp, OnlyReplacedAreLost, TypeOK
<1>12. ASSUME NEW i \in Arrival, NEW m \in Msg, HandlePacket(i, m)
       PROVE  LinksWereUp' /\ OnlyReplacedAreLost'
  BY <1>12, LinksUnchanged DEF HandlePacket, TypeOK
<1>13. ASSUME NEW i \in Arrival, NEW m \in Msg, NEW l \in Link, HandleLinkMessage(i, m, l)
       PROVE  LinksWereUp' /\ OnlyReplacedAreLost'
  BY <1>13 DEF HandleLinkMessage, LinksWereUp, OnlyReplacedAreLost, Named, NamedIn,
     mapVars, linkVars, TypeOK
<1>14. ASSUME NEW i \in Arrival, RegisterBackchannelFromSource(i)
       PROVE  LinksWereUp' /\ OnlyReplacedAreLost'
  <2> DEFINE p == SourceOf[handler[i].msg]
             l == handler[i].link
             backchannel == [backchannelLinks EXCEPT ![p] = l]
  <2>1. handler[i].at = "storing" /\ p \in Peer /\ l \in Link
    BY <1>14 DEF RegisterBackchannelFromSource, TypeOK, Handler
  <2>2. /\ \A j \in Arrival : handler'[j].at = "storing" => handler'[j] = handler[j]
        /\ UNCHANGED <<status, hooks, todo>>
    BY <1>14 DEF RegisterBackchannelFromSource, TypeOK, linkVars
  <2>3. CASE UNCHANGED mapVars
    BY <2>2, <2>3, LinksUnchanged DEF linkVars
  <2>4. CASE Store(directLinks, backchannel, l)
    <3>1. /\ NamedIn(directLinks, backchannel, l)
          /\ \A k \in Link : NamedIn(directLinks, backchannel, k) => k = l \/ Named(k)
      BY <2>1 DEF Named, NamedIn, TypeOK
    <3>2. /\ \A k \in Link : Named(k)' => k = l \/ Named(k)
          /\ \A k \in Link : k \in stored' => k = l \/ k \in stored
          /\ \A k \in Link : Named(k)' => k \in stored'
          /\ \A k \in stored' : status[k] = "active" => Named(k)'
      BY <2>1, <2>4, <3>1, StoreKeeps
    <3> QED
      BY <2>1, <2>2, <3>2 DEF LinksWereUp, OnlyReplacedAreLost
  <2> QED
    BY <1>14, <2>3, <2>4 DEF RegisterBackchannelFromSource
<1>15. ASSUME NEW i \in Arrival, CheckDuplicate(i)
       PROVE  LinksWereUp' /\ OnlyReplacedAreLost'
  BY <1>15, LinksUnchanged DEF CheckDuplicate, TypeOK
<1>16. CASE UNCHANGED vars
  BY <1>16, LinksUnchanged DEF vars
<1> QED
  BY <1>1, <1>2, <1>3, <1>4, <1>5, <1>6, <1>7, <1>8, <1>9, <1>10, <1>11, <1>12,
     <1>13, <1>14, <1>15, <1>16 DEF Next

-----------------------------------------------------------------------------
(* Handlers and marks.                                                     *)

\* Who neither marks, nor forgets, nor decides.
LEMMA MarksUnchanged ==
  ASSUME TypeOK, MarksRemembered, OncePerExpiry, UNCHANGED <<now, deliveredIDs>>,
         \A i \in Arrival : \/ handler'[i] = handler[i]
                            \/ /\ handler[i].at \notin {"passed", "dropped"}
                               /\ handler'[i].at \notin {"passed", "dropped"}
  PROVE  MarksRemembered' /\ OncePerExpiry'
BY DEF MarksRemembered, OncePerExpiry, Passed, Dropped

\* What is known of a handler past the check.
LEMMA DecidedType ==
  ASSUME TypeOK, NEW i \in Arrival, Passed(i) \/ Dropped(i)
  PROVE  handler[i].msg \in Msg /\ handler[i].time \in Time /\ handler[i].time \in Nat
BY InboundAssumption DEF InboundAssumption, TypeOK, Handler, Passed, Dropped, Time

LEMMA MarkStep ==
  TypeOK /\ MarksRemembered /\ OncePerExpiry /\ [Next]_vars
    => MarksRemembered' /\ OncePerExpiry'
<1> SUFFICES ASSUME TypeOK, MarksRemembered, OncePerExpiry, [Next]_vars
             PROVE  MarksRemembered' /\ OncePerExpiry'
  OBVIOUS
<1> USE InboundAssumption DEF InboundAssumption
<1>1. CASE TimePasses
  <2>1. now' = now + 1 /\ now \in Nat /\ UNCHANGED <<handler, deliveredIDs>>
    BY <1>1 DEF TimePasses, TypeOK, Time
  <2> QED
    BY <2>1, DecidedType DEF MarksRemembered, OncePerExpiry, Passed, Dropped
<1>2. CASE CleanUp
  <2>1. UNCHANGED <<now, handler>> /\ now \in Nat
    BY <1>2 DEF CleanUp, TypeOK, Time
  <2>2. \A m \in Msg : deliveredIDs'[m] = IF Expired(m) THEN None ELSE deliveredIDs[m]
    BY <1>2 DEF CleanUp
  <2>3. \A m \in Msg : deliveredIDs[m] # None => deliveredIDs[m] \in Nat
    BY DEF TypeOK, Time
  <2>4. ASSUME NEW i \in Arrival, Passed(i), now <= handler[i].time + DeliveredIDExpiry
        PROVE  ~Expired(handler[i].msg)
    BY <2>1, <2>3, <2>4, DecidedType DEF MarksRemembered, Expired
  <2>5. MarksRemembered'
    BY <2>1, <2>2, <2>4, DecidedType DEF MarksRemembered, Passed
  <2>6. OncePerExpiry'
    BY <2>1 DEF OncePerExpiry, Passed, Dropped
  <2> QED
    BY <2>5, <2>6
<1>3. CASE \E l \in Link : \/ OpenDirect(l) \/ LinkUp(l) \/ LinkDown(l)
                          \/ DirectEstablished(l) \/ ConfigureLinkCallbacks(l)
                          \/ HandleLinkEstablished(l) \/ PeerIdentifies(l)
                          \/ HandleRemoteIdentified(l) \/ RemoveLinkFromMaps(l)
  <2>1. UNCHANGED <<now, deliveredIDs, handler>>
    BY <1>3 DEF OpenDirect, LinkUp, LinkDown, DirectEstablished, ConfigureLinkCallbacks,
       HandleLinkEstablished, PeerIdentifies, HandleRemoteIdentified, RemoveLinkFromMaps
  <2> QED
    BY <2>1, MarksUnchanged
<1>4. ASSUME NEW i \in Arrival, NEW m \in Msg, HandlePacket(i, m)
      PROVE  MarksRemembered' /\ OncePerExpiry'
  BY <1>4, MarksUnchanged DEF HandlePacket, IsNext, TypeOK
<1>5. ASSUME NEW i \in Arrival, NEW m \in Msg, NEW l \in Link, HandleLinkMessage(i, m, l)
      PROVE  MarksRemembered' /\ OncePerExpiry'
  BY <1>5, MarksUnchanged DEF HandleLinkMessage, IsNext, TypeOK
<1>6. ASSUME NEW i \in Arrival, RegisterBackchannelFromSource(i)
      PROVE  MarksRemembered' /\ OncePerExpiry'
  BY <1>6, MarksUnchanged DEF RegisterBackchannelFromSource, TypeOK
<1>7. ASSUME NEW i \in Arrival, CheckDuplicate(i)
      PROVE  MarksRemembered' /\ OncePerExpiry'
  <2> DEFINE m == handler[i].msg
  <2>1. /\ handler[i].at = "dispatching" /\ m \in Msg /\ now' = now /\ now \in Nat
        /\ ~Passed(i) /\ ~Dropped(i)
    BY <1>7 DEF CheckDuplicate, TypeOK, Handler, Passed, Dropped, Time
  <2>2. \A j \in Arrival \ {i} : handler'[j] = handler[j]
    BY <1>7 DEF CheckDuplicate, TypeOK
  <2>3. CASE deliveredIDs[m] # None
    <3>1. /\ handler'[i] = [at |-> "dropped", msg |-> m, time |-> now]
          /\ deliveredIDs' = deliveredIDs
      BY <1>7, <2>3 DEF CheckDuplicate, TypeOK
    <3>2. PICK j \in Arrival : Passed(j) /\ handler[j].msg = m
                                /\ handler[j].time = deliveredIDs[m]
      BY <2>1, <2>3 DEF MarksRemembered
    <3>3. handler[j].time <= now /\ j # i
      BY <2>1, <3>2 DEF MarksRemembered
    <3>4. MarksRemembered'
      BY <2>1, <2>2, <3>1 DEF MarksRemembered, Passed
    <3>5. OncePerExpiry'
      BY <2>1, <2>2, <3>1, <3>2, <3>3 DEF OncePerExpiry, Passed, Dropped
    <3> QED
      BY <3>4, <3>5
  <2>4. CASE deliveredIDs[m] = None
    <3>1. /\ handler'[i] = [at |-> "passed", msg |-> m, time |-> now]
          /\ deliveredIDs' = [deliveredIDs EXCEPT ![m] = now]
      BY <1>7, <2>4 DEF CheckDuplicate, TypeOK
    <3>2. ASSUME NEW j \in Arrival, Passed(j), handler[j].msg = m
          PROVE  now > handler[j].time + DeliveredIDExpiry
      BY <2>1, <2>4, <3>2, DecidedType DEF MarksRemembered
    <3>3. deliveredIDs'[m] = now /\ \A n \in Msg \ {m} : deliveredIDs'[n] = deliveredIDs[n]
      BY <2>1, <3>1 DEF TypeOK
    <3>4. MarksRemembered'
      <4>1. ASSUME NEW j \in Arrival, Passed(j)'
            PROVE  /\ handler'[j].time <= now'
                   /\ now' <= handler'[j].time + DeliveredIDExpiry =>
                        LET mark == deliveredIDs'[handler'[j].msg]
                        IN  mark # None /\ mark >= handler'[j].time
        <5>1. CASE j = i
          BY <2>1, <3>1, <3>3, <5>1
        <5>2. CASE j # i
          <6>1. Passed(j) /\ handler'[j] = handler[j]
            BY <2>2, <4>1, <5>2 DEF Passed
          <6>2. handler[j].msg \in Msg /\ handler[j].time <= now /\ handler[j].time \in Nat
            BY <6>1, DecidedType DEF MarksRemembered
          <6>3. CASE handler[j].msg = m
            BY <2>1, <3>3, <6>1, <6>2, <6>3
          <6>4. CASE handler[j].msg # m
            BY <2>1, <3>3, <6>1, <6>2, <6>4 DEF MarksRemembered
          <6> QED
            BY <6>3, <6>4
        <5> QED
          BY <5>1, <5>2
      <4>2. ASSUME NEW n \in Msg, deliveredIDs'[n] # None
            PROVE  \E j \in Arrival : Passed(j)' /\ handler'[j].msg = n
                                     /\ handler'[j].time = deliveredIDs'[n]
        <5>1. CASE n = m
          BY <3>1, <3>3, <5>1 DEF Passed
        <5>2. CASE n # m
          <6>1. PICK j \in Arrival : Passed(j) /\ handler[j].msg = n
                                      /\ handler[j].time = deliveredIDs[n]
            BY <3>3, <4>2, <5>2 DEF MarksRemembered
          <6> QED
            BY <2>1, <2>2, <3>3, <5>2, <6>1 DEF Passed
        <5> QED
          BY <5>1, <5>2
      <4> QED
        BY <4>1, <4>2 DEF MarksRemembered
    <3>5. OncePerExpiry'
      BY <2>1, <2>2, <3>1, <3>2 DEF OncePerExpiry, Passed, Dropped
    <3> QED
      BY <3>4, <3>5
  <2> QED
    BY <2>3, <2>4
<1>8. CASE UNCHANGED vars
  BY <1>8, MarksUnchanged DEF vars
<1> QED
  BY <1>1, <1>2, <1>3, <1>4, <1>5, <1>6, <1>7, <1>8 DEF Next

-----------------------------------------------------------------------------
(* Theorems.                                                               *)

\* What holds of links, maps, handlers and marks (router.go:551-606, 720-963),
\* with the two safety properties that follow along.
Safe == InboundInv /\ OncePerExpiry /\ OnlyReplacedAreLost

LEMMA SafeAlways == Spec => []Safe
<1>1. Init => Safe
  BY InitOK DEF Safe, Init, OncePerExpiry, OnlyReplacedAreLost, Passed, Dropped
<1>2. Safe /\ [Next]_vars => Safe'
  BY TypeStep, LinkStep, MarkStep DEF Safe, InboundInv
<1> QED
  BY <1>1, <1>2, PTL DEF Spec

\* The types of all variables, what is known of links that are stored, and the
\* life of marks.
THEOREM InboundInvariant == Spec => []InboundInv
BY SafeAlways, PTL DEF Safe

\* A message passes the duplicate check once in the life of its mark
\* (router.go:951-963), and nothing else is dropped there.
THEOREM PassedOnce == Spec => []OncePerExpiry
BY SafeAlways, PTL DEF Safe

\* The end of one link never takes another link out of the maps (router.go:593),
\* nor does the cleanup one that stays up.
THEOREM LinksAreFound == Spec => []OnlyReplacedAreLost
BY SafeAlways, PTL DEF Safe

\* A message does not displace a live backchannel link (router.go:915).
THEOREM LiveLinksStay == Spec => LiveBackchannelKept
<1> DEFINE Kept(p) ==
      LET l == backchannelLinks[p]
      IN  l # NoLink /\ status[l] = "active" /\ backchannelLinks'[p] # l =>
            \/ status'[l] = "closed"
            \/ <<backchannelLinks'[p], "identified">> \in todo
<1>1. ASSUME TypeOK, LinksWereUp, [Next]_vars, NEW p \in Peer
      PROVE  Kept(p)
  <2> USE InboundAssumption DEF InboundAssumption
  <2>1. CASE CleanUp
    BY <1>1, <2>1 DEF CleanUp, TearDown, Stale, TypeOK
  <2>2. ASSUME NEW l \in Link, HandleRemoteIdentified(l) PROVE Kept(p)
    BY <1>1, <2>2 DEF HandleRemoteIdentified, Store, TypeOK
  <2>3. ASSUME NEW l \in Link, RemoveLinkFromMaps(l) PROVE Kept(p)
    BY <1>1, <2>3 DEF RemoveLinkFromMaps, Without, LinksWereUp, TypeOK
  <2>4. ASSUME NEW i \in Arrival, RegisterBackchannelFromSource(i) PROVE Kept(p)
    BY <1>1, <2>4 DEF RegisterBackchannelFromSource, Store, GivesWay, mapVars, TypeOK
  <2>5. CASE backchannelLinks' = backchannelLinks
    BY <2>5
  <2>6. ASSUME NEW l \in Link, DirectEstablished(l) PROVE backchannelLinks' = backchannelLinks
    BY <2>6 DEF DirectEstablished, Store
  <2> QED
    BY <1>1, <2>1, <2>2, <2>3, <2>4, <2>5, <2>6 DEF Next, vars, mapVars, TimePasses,
       OpenDirect, LinkUp, LinkDown, ConfigureLinkCallbacks, HandleLinkEstablished,
       PeerIdentifies, HandlePacket, HandleLinkMessage, CheckDuplicate
<1>2. TypeOK /\ LinksWereUp /\ [Next]_vars => [\A p \in Peer : Kept(p)]_vars
  BY <1>1
<1>3. TypeOK /\ LinksWereUp /\ [Next]_vars => 
        [\A p \in Peer : LET l == backchannelLinks[p]
         IN  l # NoLink /\ status[l] = "active" /\ backchannelLinks'[p] # l =>
               \/ status'[l] = "closed"
               \/ <<backchannelLinks'[p], "identified">> \in todo]_vars
  BY <1>2
<1> QED
  BY <1>3, InboundInvariant, PTL DEF Spec, LiveBackchannelKept, InboundInv
=============================================================================
