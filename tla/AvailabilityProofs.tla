-------------------------- MODULE AvailabilityProofs --------------------------
(***************************************************************************)
(* More theorems about Transport: what an announcement that has returned   *)
(* means, which state is shown, and that the transport implements          *)
(* Availability.  They rest on the invariants of TransportProofs.          *)
(***************************************************************************)
EXTENDS TransportProofs

\* What a packet that is written, or read, changes about the wire.
LEMMA WrittenOnWire ==
    ASSUME wire \in Seq(Message), NEW m \in Message, wire' = Append(wire, m)
    PROVE  /\ \A k : OnWire(k)' <=> OnWire(k) \/ m.kind = k
           /\ DiscoThenOnline => DiscoThenOnline'
           /\ OnWire("disco") /\ m.kind = "online" => DiscoThenOnline'
<1>1. /\ Len(wire) \in Nat
      /\ Len(wire') = Len(wire) + 1
      /\ \A i \in 1..Len(wire) : wire'[i] = wire[i]
      /\ wire'[Len(wire) + 1] = m
  BY WireAppend
<1>2. \A k : OnWire(k)' <=> OnWire(k) \/ m.kind = k
  <2>1. \A i \in 1..Len(wire') : i \in 1..Len(wire) \/ i = Len(wire) + 1
    BY <1>1
  <2>2. /\ \A i \in 1..Len(wire) : i \in 1..Len(wire')
        /\ Len(wire) + 1 \in 1..Len(wire')
    BY <1>1
  <2>3. QED
    BY <1>1, <2>1, <2>2 DEF OnWire
<1>3. DiscoThenOnline => DiscoThenOnline'
  BY <1>1 DEF DiscoThenOnline
<1>4. OnWire("disco") /\ m.kind = "online" => DiscoThenOnline'
  BY <1>1 DEF OnWire, DiscoThenOnline
<1>5. QED
  BY <1>2, <1>3, <1>4

LEMMA ReadFromWire ==
    ASSUME wire \in Seq(Message), wire # <<>>, wire' = Tail(wire)
    PROVE  /\ \A k : OnWire(k)' => OnWire(k)
           /\ \A k : OnWire(k) => OnWire(k)' \/ Head(wire).kind = k
           /\ OnWire(Head(wire).kind)
           /\ DiscoThenOnline => DiscoThenOnline' \/ Head(wire).kind = "disco"
<1>1. /\ Head(wire) = wire[1]
      /\ Len(wire) \in Nat \ {0}
      /\ Len(wire') = Len(wire) - 1
      /\ \A i \in 1..Len(wire') : wire'[i] = wire[i + 1]
  BY WireTail
<1>2. \A k : OnWire(k)' => OnWire(k)
  <2>1. \A i \in 1..Len(wire') : i + 1 \in 1..Len(wire)
    BY <1>1
  <2>2. QED
    BY <1>1, <2>1 DEF OnWire
<1>3. ASSUME NEW i \in 1..Len(wire)
      PROVE  i = 1 \/ (i - 1 \in 1..Len(wire') /\ wire'[i - 1] = wire[i])
  BY <1>1
<1>4. \A k : OnWire(k) => OnWire(k)' \/ Head(wire).kind = k
  BY <1>1, <1>3 DEF OnWire
<1>5. OnWire(Head(wire).kind)
  <2>1. 1 \in 1..Len(wire)
    BY <1>1
  <2>2. QED
    BY <1>1, <2>1 DEF OnWire
<1>6. DiscoThenOnline => DiscoThenOnline' \/ Head(wire).kind = "disco"
  <2>1. ASSUME NEW i \in 1..Len(wire), NEW j \in 1..Len(wire), i < j,
               wire[i].kind = "disco", wire[j].kind = "online", i # 1
        PROVE  DiscoThenOnline'
    <3>1. /\ i - 1 \in 1..Len(wire') /\ wire'[i - 1].kind = "disco"
          /\ j - 1 \in 1..Len(wire') /\ wire'[j - 1].kind = "online"
          /\ i - 1 < j - 1
      BY <1>1, <2>1
    <3>2. QED
      BY <3>1 DEF DiscoThenOnline
  <2>2. QED
    BY <1>1, <2>1 DEF DiscoThenOnline
<1>7. QED
  BY <1>2, <1>4, <1>5, <1>6

LEMMA NothingOnWire ==
    ASSUME wire = <<>>
    PROVE  \A k : ~OnWire(k)
BY EmptySeq DEF OnWire
-----------------------------------------------------------------------------
(***************************************************************************)
(* An announcement that has returned.  The argument: the messages of the   *)
(* announcer of the live connection are on the wire in their order or      *)
(* already applied, nothing but Close says offline, and whatever else      *)
(* takes online back also ends the session the property speaks of.         *)
(***************************************************************************)
LEMMA AnnouncedInit == Init => AnnouncedInv
<1> SUFFICES ASSUME Init
             PROVE  AnnouncedInv
  OBVIOUS
<1>1. \A e \in Epochs : announcer[e] = "none"
  BY DEF Init
<1>2. QED
  BY <1>1 DEF Init, AnnouncedInv, Live

LEMMA AnnouncedNext ==
    TypeOK /\ CloseInv /\ AnnouncedInv /\ [Next]_vars => AnnouncedInv'
<1> SUFFICES ASSUME TypeOK, CloseInv, AnnouncedInv, [Next]_vars
             PROVE  AnnouncedInv'
  OBVIOUS
<1> DEFINE Given(e) ==
      /\ announcer[e] = "discoWait" => retained.disco \/ OnWire("disco")
      /\ announcer[e] \in {"onlineWait", "done"} =>
            /\ retained.disco \/ DiscoThenOnline
            /\ retained.avail = "online" \/ OnWire("online")
<1>0. /\ wire \in Seq(Message)
      /\ retained \in Retained
      /\ Live /\ main # "closing" => \A e \in Epochs : e = epoch => Given(e)
  BY DEF AnnouncedInv, TypeOK
<1> HIDE DEF Given
<1>2. CASE Connect
  <2>1. /\ epoch + 1 \in Epochs /\ epoch' = epoch + 1
        /\ announcer' = [announcer EXCEPT ![epoch + 1] = "start"]
        /\ store' = store /\ resend' = store /\ main' = main
    BY <1>2, BoundsAssumption DEF Connect, OnConnect, TypeOK, Epochs
  <2>2. announcer'[epoch'] = "start"
    BY <2>1 DEF TypeOK
  <2>3. \A e \in Epochs : e > epoch' => announcer'[e] = "none"
    BY <2>1 DEF AnnouncedInv, TypeOK, Epochs
  <2>4. ~OnWire("offline")'
    <3>1. wire' = <<>>
      BY <1>2 DEF Connect
    <3>2. QED
      BY <3>1, EmptySeq DEF OnWire
  <2>5. QED
    BY <2>1, <2>2, <2>3, <2>4 DEF AnnouncedInv
<1>3. CASE Resume
  <2>1. PICK m \in resend : resend' = resend \ {m} /\ wire' = Append(wire, m)
    BY <1>3 DEF Resume
  <2>2. /\ status = "connected"
        /\ UNCHANGED <<main, announcer, status, epoch, store, session, retained>>
    BY <1>3 DEF Resume, procVars, brokerVars
  <2>3. m \in Message
    BY <2>1 DEF TypeOK
  <2>4. /\ \A k : OnWire(k)' <=> OnWire(k) \/ m.kind = k
        /\ DiscoThenOnline => DiscoThenOnline'
    BY <1>0, <2>1, <2>3, WrittenOnWire
  <2>5. main # "closing" => m.kind # "offline"
    BY <2>1 DEF AnnouncedInv
  <2>6. QED
    BY <2>1, <2>2, <2>4, <2>5 DEF AnnouncedInv, Live
<1>4. CASE Acknowledged
  BY <1>4 DEF Acknowledged, procVars, brokerVars, AnnouncedInv, Live, OnWire, DiscoThenOnline
<1>5. CASE ConnectionLost
  BY <1>5 DEF ConnectionLost, Cut, procVars, AnnouncedInv, Live
<1>6. CASE BrokerReads
  <2>1. /\ wire # <<>> /\ wire' = Tail(wire)
        /\ retained' = Apply(Head(wire), retained)
        /\ UNCHANGED <<main, announcer, status, epoch, store, resend>>
        /\ session' = session \/ session' = 0
    BY <1>6 DEF BrokerReads, procVars
  <2>2. Head(wire) \in Message
    BY <1>0, <2>1, WireTail
  <2>3. /\ \A k : OnWire(k)' => OnWire(k)
        /\ \A k : OnWire(k) => OnWire(k)' \/ Head(wire).kind = k
        /\ OnWire(Head(wire).kind)
        /\ DiscoThenOnline => DiscoThenOnline' \/ Head(wire).kind = "disco"
    BY <1>0, <2>1, ReadFromWire
  <2>4. /\ retained.disco => retained'.disco
        /\ Head(wire).kind = "disco" => retained'.disco
        /\ Head(wire).kind = "online" => retained'.avail = "online"
        /\ Head(wire).kind # "offline" /\ retained.avail = "online"
              => retained'.avail = "online"
    <3>1. Head(wire).kind = "disco" => retained'.disco
      BY <1>0, <2>1, <2>2, RetainedFacts DEF Retained
    <3>2. QED
      BY <1>0, <2>1, <2>2, <3>1, RetainedFacts
  <2>5. Live' /\ main # "closing" => Live /\ Head(wire).kind # "offline"
    BY <2>1, <2>3 DEF Live, AnnouncedInv
  <2>6. ASSUME Live', main # "closing", NEW e \in Epochs, e = epoch
        PROVE  Given(e)'
    <3>1. Given(e)
      BY <1>0, <2>5, <2>6
    <3>2. QED
      BY <2>1, <2>3, <2>4, <2>5, <2>6, <3>1 DEF Given
  <2>7. QED
    BY <2>1, <2>3, <2>6 DEF AnnouncedInv, Given
<1>7. CASE BrokerDrops \/ BrokerRestart
  BY <1>7 DEF BrokerDrops, BrokerRestart, procVars, clientVars, AnnouncedInv, Live,
              OnWire, DiscoThenOnline
<1>8. ASSUME NEW d \in Epochs, Announce(d)
      PROVE  AnnouncedInv'
  <2>1. UNCHANGED <<main, retained, session>>
    BY <1>8 DEF Announce, AnnounceDisco, AnnounceOnline, AnnounceReturns, AnnounceFails,
                UnchangedByAnnounce, brokerVars
  <2>2. /\ Disco(d) \in Message /\ Disco(d).kind = "disco"
        /\ Online(d) \in Message /\ Online(d).kind = "online"
    <3>1. d \in Nat
      BY DEF Epochs
    <3>2. QED
      BY <3>1, MessageFacts DEF Disco, Online
  <2>3. ASSUME NEW m \in Message, m.kind # "offline", Publish(m), announcer[d] # "none",
               NEW to \in {"discoWait", "onlineWait"},
               announcer' = [announcer EXCEPT ![d] = to],
               to = "discoWait" => m.kind = "disco",
               to = "onlineWait" => m.kind = "online" /\ announcer[d] = "discoWait"
        PROVE  AnnouncedInv'
    <3>1. /\ UNCHANGED <<status, epoch, resend>>
          /\ store' \subseteq store \cup {m}
          /\ status = "connected" => wire' = Append(wire, m)
      BY <2>3 DEF Publish
    <3>2. status = "connected" =>
             /\ \A k : OnWire(k)' <=> OnWire(k) \/ m.kind = k
             /\ DiscoThenOnline => DiscoThenOnline'
             /\ OnWire("disco") /\ m.kind = "online" => DiscoThenOnline'
      BY <1>0, <3>1, WrittenOnWire
    <3>3. \A e \in Epochs : e > epoch' => announcer'[e] = "none"
      BY <2>3, <3>1 DEF AnnouncedInv, TypeOK
    <3>4. main' # "closing" =>
             /\ \A n \in store' \cup resend' : n.kind # "offline"
             /\ status' = "connected" => ~OnWire("offline")'
      BY <2>1, <2>3, <3>1, <3>2 DEF AnnouncedInv
    <3>5. ASSUME Live', main' # "closing", NEW e \in Epochs, e = epoch'
          PROVE  Given(e)'
      <4>1. Live /\ status = "connected" /\ Given(e)
        BY <1>0, <2>1, <3>1, <3>5 DEF Live
      <4>2. CASE e # d
        <5>1. announcer'[e] = announcer[e]
          BY <2>3, <4>2 DEF TypeOK
        <5>2. QED
          BY <2>1, <3>2, <4>1, <5>1 DEF Given
      <4>3. CASE e = d
        <5>1. announcer'[e] = to
          BY <2>3, <4>3 DEF TypeOK
        <5>2. CASE to = "discoWait"
          BY <2>3, <3>2, <4>1, <5>1, <5>2 DEF Given
        <5>3. CASE to = "onlineWait"
          BY <2>1, <2>3, <3>2, <4>1, <4>3, <5>1, <5>3 DEF Given
        <5>4. QED
          BY <2>3, <5>2, <5>3
      <4>4. QED
        BY <4>2, <4>3
    <3>6. QED
      BY <3>3, <3>4, <3>5 DEF AnnouncedInv, Given
  <2>4. CASE AnnounceDisco(d)
    BY <2>2, <2>3, <2>4 DEF AnnounceDisco, AnnouncerAt
  <2>5. CASE AnnounceOnline(d)
    BY <2>2, <2>3, <2>5 DEF AnnounceOnline, AnnouncerAt
  <2>6. CASE AnnounceReturns(d) \/ AnnounceFails(d)
    <3>1. /\ UNCHANGED <<status, epoch, store, resend, wire>>
          /\ announcer[d] # "none"
          /\ \/ announcer' = [announcer EXCEPT ![d] = "failed"]
             \/ announcer[d] = "onlineWait" /\ announcer' = [announcer EXCEPT ![d] = "done"]
      BY <2>6 DEF AnnounceReturns, AnnounceFails, AnnouncerAt, UnchangedByReturn
    <3>2. \A e \in Epochs : e > epoch' => announcer'[e] = "none"
      BY <3>1 DEF AnnouncedInv, TypeOK
    <3>3. ASSUME Live', main' # "closing", NEW e \in Epochs, e = epoch'
          PROVE  Given(e)'
      <4>1. Live /\ Given(e)
        BY <1>0, <2>1, <3>1, <3>3 DEF Live
      <4>2. /\ OnWire("disco")' <=> OnWire("disco")
            /\ OnWire("online")' <=> OnWire("online")
            /\ DiscoThenOnline' <=> DiscoThenOnline
        BY <3>1 DEF OnWire, DiscoThenOnline
      <4>3. \/ announcer'[e] = announcer[e]
            \/ announcer'[e] = "failed"
            \/ announcer[e] = "onlineWait" /\ announcer'[e] = "done"
        BY <3>1 DEF TypeOK
      <4>4. QED
        BY <2>1, <4>1, <4>2, <4>3 DEF Given
    <3>4. ~OnWire("offline")' <=> ~OnWire("offline")
      BY <3>1 DEF OnWire
    <3>5. QED
      BY <2>1, <3>1, <3>2, <3>3, <3>4 DEF AnnouncedInv, Given
  <2>7. QED
    BY <1>8, <2>4, <2>5, <2>6 DEF Announce
<1>9. CASE NewMQTTReturns \/ StartsPolling \/ SkipsPublish \/ Tick \/ Signal
  <2>1. /\ main # "closing"
        /\ UNCHANGED <<announcer, status, epoch, store, resend, wire, session, retained>>
    BY <1>9 DEF NewMQTTReturns, StartsPolling, SkipsPublish, Tick, Signal,
                UnchangedByMain, clientVars, brokerVars
  <2>2. QED
    BY <2>1 DEF AnnouncedInv, Live, OnWire, DiscoThenOnline
<1>10. CASE PublishState
  <2>1. /\ main = "pass" /\ main' = "select"
        /\ Publish(StateMsg(published + 1))
        /\ UNCHANGED <<announcer, session, retained>>
    BY <1>10 DEF PublishState, UnchangedByMain, brokerVars
  <2>2. StateMsg(published + 1) \in Message /\ StateMsg(published + 1).kind = "state"
    BY MessageFacts, BoundsAssumption DEF TypeOK, StateMsg
  <2>3. /\ UNCHANGED <<status, epoch, resend>>
        /\ store' \subseteq store \cup {StateMsg(published + 1)}
        /\ status = "connected" => wire' = Append(wire, StateMsg(published + 1))
    BY <2>1 DEF Publish
  <2>4. status = "connected" =>
           /\ \A k : OnWire(k)' <=> OnWire(k) \/ StateMsg(published + 1).kind = k
           /\ DiscoThenOnline => DiscoThenOnline'
    BY <1>0, <2>2, <2>3, WrittenOnWire
  <2>5. QED
    BY <2>1, <2>2, <2>3, <2>4 DEF AnnouncedInv, Live
<1>11. CASE Close
  BY <1>11 DEF Close, Publish, UnchangedByMain, AnnouncedInv
<1>12. CASE Disconnect \/ ConnectTimesOut \/ Kill
  <2>1. /\ store' = {} /\ resend' = {} /\ epoch' = epoch
        /\ status' # "connected"
        /\ announcer' = [e \in Epochs |-> "none"]
    BY <1>12 DEF Disconnect, ConnectTimesOut, Kill, Vanish
  <2>2. \A e \in Epochs : e > epoch' => announcer'[e] = "none"
    BY <2>1
  <2>3. QED
    BY <2>1, <2>2 DEF AnnouncedInv, Live
<1>13. CASE Restart
  <2>1. /\ main # "closing" /\ status' = "connecting"
        /\ UNCHANGED <<announcer, epoch, store, resend>>
    BY <1>13 DEF Restart, Running, Ended
  <2>2. QED
    BY <2>1 DEF AnnouncedInv, Live
<1>14. CASE UNCHANGED vars
  BY <1>14 DEF vars, procVars, clientVars, brokerVars, AnnouncedInv, Live, OnWire,
               DiscoThenOnline
<1>15. QED
  BY <1>2, <1>3, <1>4, <1>5, <1>6, <1>7, <1>8, <1>9, <1>10, <1>11, <1>12, <1>13,
     <1>14 DEF Next

\* Whatever the quality of service, the losses and the order of what is
\* written again: once Announce has returned on the live connection and no
\* availability is on the wire, the broker has the discovery and shows the
\* node online, until Close.
THEOREM AnnouncedShowsOnlineHolds == Spec => []AnnouncedShowsOnline
<1>1. AnnouncedInv => AnnouncedShowsOnline
  BY DEF AnnouncedInv, AnnouncedShowsOnline, AvailOnWire, OnWire, DiscoThenOnline
<1>2. QED
  BY <1>1, TypingInit, TypingNext, CloseInit, CloseNext, AnnouncedInit, AnnouncedNext,
     PTL DEF Spec
-----------------------------------------------------------------------------
(***************************************************************************)
(* The state shown.  The argument: the wire is read in order, and a state  *)
(* published when no older one is left to be written again is the last one *)
(* on the wire until it is read or a newer one follows it.                 *)
(***************************************************************************)

\* The will leaves the state alone; of the packets only a state sets it.
LEMMA StateFacts ==
    ASSUME NEW r \in Retained, NEW m \in Message
    PROVE  /\ Will(r).state = r.state
           /\ m.kind = "state" => Apply(m, r).state = m.by
           /\ m.kind # "state" => Apply(m, r).state = r.state
<1>1. m.kind \in Kinds /\ m.by \in Nat
  BY DEF Message
<1>2. Will(r).state = r.state
  BY DEF Retained, Will
<1>3. CASE m.kind = "disco"
  BY <1>1, <1>2, <1>3 DEF Retained, Apply
<1>4. CASE m.kind = "online"
  BY <1>1, <1>2, <1>4 DEF Retained, Apply
<1>5. CASE m.kind = "offline"
  BY <1>1, <1>2, <1>5 DEF Retained, Apply
<1>6. CASE m.kind = "state"
  BY <1>1, <1>2, <1>6 DEF Retained, Apply
<1>7. CASE m.kind = "bye"
  BY <1>1, <1>2, <1>7 DEF Retained, Apply
<1>8. QED
  BY <1>1, <1>3, <1>4, <1>5, <1>6, <1>7 DEF Kinds

\* Writing a packet that is no state keeps the latest state last.
LEMMA LatestLastAppend ==
    ASSUME wire \in Seq(Message), LatestLast,
           NEW m \in Message, m.kind # "state", wire' = Append(wire, m),
           retained' = retained, published' = published
    PROVE  LatestLast'
<1>1. /\ Len(wire) \in Nat
      /\ Len(wire') = Len(wire) + 1
      /\ \A i \in 1..Len(wire) : wire'[i] = wire[i]
      /\ wire'[Len(wire) + 1] = m
  BY WireAppend
<1>2. QED
  BY <1>1 DEF LatestLast, OnWire, StateMsg

\* Writing the latest state makes it the last one.
LEMMA LatestLastPublish ==
    ASSUME wire \in Seq(Message), published' \in Nat,
           wire' = Append(wire, StateMsg(published'))
    PROVE  LatestLast'
<1>1. /\ Len(wire) \in Nat
      /\ Len(wire') = Len(wire) + 1
      /\ wire'[Len(wire) + 1] = StateMsg(published')
  BY MessageFacts, WireAppend
<1>2. Len(wire) + 1 \in 1..Len(wire')
  BY <1>1
<1>3. \A j \in 1..Len(wire') : ~(j > Len(wire) + 1)
  BY <1>1
<1>4. StateMsg(published)' = StateMsg(published')
  BY DEF StateMsg
<1>5. QED
  BY <1>1, <1>2, <1>3, <1>4 DEF LatestLast

\* Reading a packet keeps the latest state last, or shows it.
LEMMA LatestLastRead ==
    ASSUME wire \in Seq(Message), wire # <<>>, retained \in Retained, LatestLast,
           wire' = Tail(wire), retained' = Apply(Head(wire), retained),
           published' = published
    PROVE  LatestLast'
<1>1. /\ Head(wire) \in Message
      /\ Head(wire) = wire[1]
      /\ Len(wire) \in Nat \ {0}
      /\ Len(wire') = Len(wire) - 1
      /\ \A i \in 1..Len(wire') : i + 1 \in 1..Len(wire) /\ wire'[i] = wire[i + 1]
  BY WireTail
<1>2. CASE retained.state = published /\ ~OnWire("state")
  <2>1. Head(wire).kind # "state" /\ ~OnWire("state")'
    BY <1>2, ReadFromWire
  <2>2. retained'.state = published'
    BY <1>1, <1>2, <2>1, StateFacts
  <2>3. QED
    BY <2>1, <2>2 DEF LatestLast
<1>3. ASSUME NEW i \in 1..Len(wire), wire[i] = StateMsg(published),
             \A j \in 1..Len(wire) : j > i => wire[j].kind # "state"
      PROVE  LatestLast'
  <2>1. CASE i = 1
    <3>1. Head(wire).kind = "state" /\ Head(wire).by = published
      BY <1>1, <1>3, <2>1 DEF StateMsg
    <3>2. retained'.state = published'
      BY <1>1, <3>1, StateFacts
    <3>3. \A j \in 1..Len(wire') : wire'[j].kind # "state"
      BY <1>1, <1>3, <2>1
    <3>4. QED
      BY <3>2, <3>3 DEF LatestLast, OnWire
  <2>2. CASE i > 1
    <3>1. i - 1 \in 1..Len(wire') /\ wire'[i - 1] = StateMsg(published)
      BY <1>1, <1>3, <2>2
    <3>2. \A j \in 1..Len(wire') : j > i - 1 => wire'[j].kind # "state"
      BY <1>1, <1>3, <2>2
    <3>3. StateMsg(published)' = StateMsg(published)
      BY DEF StateMsg
    <3>4. QED
      BY <3>1, <3>2, <3>3 DEF LatestLast
  <2>3. QED
    BY <2>1, <2>2
<1>4. QED
  BY <1>2, <1>3 DEF LatestLast

LEMMA LatestInit == Init => LatestInv
BY DEF Init, LatestInv

LEMMA LatestNext == TypeOK /\ LatestInv /\ [Next]_vars => LatestInv'
<1> SUFFICES ASSUME TypeOK, LatestInv, [Next]_vars
             PROVE  LatestInv'
  OBVIOUS
<1>0. wire \in Seq(Message) /\ retained \in Retained /\ published \in Nat
  BY BoundsAssumption DEF TypeOK
<1>1. ASSUME UNCHANGED <<status, epoch, resend, wire, session, retained, published, settled>>
      PROVE  LatestInv'
  BY <1>1 DEF LatestInv, NoneOlder, Live, LatestLast, OnWire, StateMsg
<1>2. CASE Connect
  BY <1>2 DEF Connect, LatestInv
<1>3. CASE Resume
  <2>1. PICK m \in resend : resend' = resend \ {m} /\ wire' = Append(wire, m)
    BY <1>3 DEF Resume
  <2>2. /\ status = "connected"
        /\ UNCHANGED <<status, epoch, session, retained, published, settled>>
    BY <1>3 DEF Resume, brokerVars, history
  <2>3. settled => m.kind # "state" /\ NoneOlder'
    BY <2>1, <2>2 DEF LatestInv, NoneOlder
  <2>4. m \in Message
    BY <2>1 DEF TypeOK
  <2>5. settled' /\ Live' => LatestLast'
    BY <1>0, <2>1, <2>2, <2>3, <2>4, LatestLastAppend DEF LatestInv, Live
  <2>6. QED
    BY <2>2, <2>3, <2>5 DEF LatestInv
<1>4. CASE Acknowledged
  <2>1. /\ UNCHANGED <<status, epoch, wire, session, retained, published, settled>>
        /\ resend' \subseteq resend
    BY <1>4 DEF Acknowledged, brokerVars, history
  <2>2. QED
    BY <2>1 DEF LatestInv, NoneOlder, Live, LatestLast, OnWire, StateMsg
<1>5. CASE ConnectionLost
  BY <1>5 DEF ConnectionLost, Cut, LatestInv
<1>6. CASE BrokerReads
  <2>1. /\ wire # <<>> /\ wire' = Tail(wire)
        /\ retained' = Apply(Head(wire), retained)
        /\ UNCHANGED <<status, epoch, resend, published, settled>>
        /\ session' = session \/ session' = 0
    BY <1>6 DEF BrokerReads
  <2>2. Live' => Live
    BY <2>1 DEF Live
  <2>3. settled' /\ Live' => LatestLast'
    BY <1>0, <2>1, <2>2, LatestLastRead DEF LatestInv
  <2>4. QED
    BY <2>1, <2>3 DEF LatestInv, NoneOlder
<1>7. CASE BrokerDrops \/ BrokerRestart
  <2>1. UNCHANGED <<status, resend, settled>> /\ session' = 0
    BY <1>7 DEF BrokerDrops, BrokerRestart, clientVars, history
  <2>2. QED
    BY <2>1 DEF LatestInv, NoneOlder, Live
<1>8. ASSUME NEW m \in Message, m.kind # "state", Publish(m),
             UNCHANGED <<session, retained, published, settled>>
      PROVE  LatestInv'
  <2>1. UNCHANGED <<status, epoch, resend>> /\ (status = "connected" => wire' = Append(wire, m))
    BY <1>8 DEF Publish
  <2>2. Live' => Live /\ status = "connected"
    BY <1>8, <2>1 DEF Live
  <2>3. settled' /\ Live' => LatestLast'
    BY <1>0, <1>8, <2>1, <2>2, LatestLastAppend DEF LatestInv
  <2>4. QED
    BY <1>8, <2>1, <2>3 DEF LatestInv, NoneOlder
<1>9. ASSUME NEW e \in Epochs, Announce(e)
      PROVE  LatestInv'
  <2>1. UNCHANGED <<session, retained, published, settled>>
    BY <1>9 DEF Announce, AnnounceDisco, AnnounceOnline, AnnounceReturns, AnnounceFails,
                UnchangedByAnnounce, brokerVars, history
  <2>2. /\ Disco(e) \in Message /\ Disco(e).kind # "state"
        /\ Online(e) \in Message /\ Online(e).kind # "state"
    <3>1. e \in Nat
      BY DEF Epochs
    <3>2. QED
      BY <3>1, MessageFacts DEF Disco, Online
  <2>3. CASE AnnounceDisco(e)
    BY <1>8, <2>1, <2>2, <2>3 DEF AnnounceDisco
  <2>4. CASE AnnounceOnline(e)
    BY <1>8, <2>1, <2>2, <2>4 DEF AnnounceOnline
  <2>5. CASE AnnounceReturns(e) \/ AnnounceFails(e)
    BY <1>1, <2>1, <2>5 DEF AnnounceReturns, AnnounceFails, UnchangedByReturn
  <2>6. QED
    BY <1>9, <2>3, <2>4, <2>5 DEF Announce
<1>10. CASE NewMQTTReturns \/ StartsPolling \/ SkipsPublish \/ Tick \/ Signal
  BY <1>1, <1>10 DEF NewMQTTReturns, StartsPolling, SkipsPublish, Tick, Signal,
                     UnchangedByMain, clientVars, brokerVars
<1>11. CASE PublishState
  <2>1. /\ published' = published + 1 /\ Publish(StateMsg(published'))
        /\ settled' = (status = "connected" /\ NoneOlder)
    BY <1>11 DEF PublishState
  <2>2. UNCHANGED <<status, resend>> /\ published' \in Nat
    BY <1>0, <2>1 DEF Publish
  <2>3. settled' => status = "connected" /\ NoneOlder
    BY <2>1
  <2>4. settled' => NoneOlder'
    BY <2>2, <2>3 DEF NoneOlder
  <2>5. settled' => LatestLast'
    BY <1>0, <2>1, <2>2, <2>3, LatestLastPublish DEF Publish
  <2>6. QED
    BY <2>4, <2>5 DEF LatestInv
<1>12. CASE Close
  <2>1. Offline \in Message /\ Offline.kind # "state"
    BY MessageFacts DEF Offline
  <2>2. QED
    BY <1>8, <1>12, <2>1 DEF Close, UnchangedByMain, brokerVars
<1>13. CASE Disconnect \/ ConnectTimesOut \/ Kill \/ Restart
  BY <1>13 DEF Disconnect, ConnectTimesOut, Kill, Restart, Vanish, LatestInv, Live
<1>14. CASE UNCHANGED vars
  BY <1>1, <1>14 DEF vars, clientVars, brokerVars, history
<1>15. QED
  BY <1>2, <1>3, <1>4, <1>5, <1>6, <1>7, <1>9, <1>10, <1>11, <1>12, <1>13, <1>14 DEF Next

\* A state published when no older one waits to be written again is the one
\* that gets shown, however many states, connections and losses came before.
THEOREM LatestShownHolds == Spec => []LatestShown
<1>1. TypeOK /\ LatestInv => LatestShown
  BY DEF TypeOK, LatestInv, LatestShown, LatestLast, OnWire, StateMsg
<1>2. QED
  BY <1>1, TypingInit, TypingNext, LatestInit, LatestNext, PTL DEF Spec
-----------------------------------------------------------------------------
(***************************************************************************)
(* The transport implements Availability.  Three steps need an invariant:  *)
(* the broker reads online (DiscoveryInv: only where it has the discovery) *)
(* and reads DISCONNECT (CloseInv: online is not what it leaves behind).   *)
(***************************************************************************)
LEMMA AvailInit == Init => Avail!Init
BY DEF Init, Blank, Avail!Init

\* A broker with a session has been connected to since it restarted.
AttendedNotOrphaned == session # 0 => ~orphaned

LEMMA AttendedInit == Init => AttendedNotOrphaned
BY DEF Init, AttendedNotOrphaned

LEMMA AttendedNext == TypeOK /\ AttendedNotOrphaned /\ [Next]_vars => AttendedNotOrphaned'
<1> SUFFICES ASSUME TypeOK, AttendedNotOrphaned, [Next]_vars
             PROVE  AttendedNotOrphaned'
  OBVIOUS
<1> USE DEF AttendedNotOrphaned
<1>1. CASE Connect
  BY <1>1 DEF Connect
<1>2. CASE BrokerReads \/ BrokerDrops \/ BrokerRestart
  BY <1>2 DEF BrokerReads, BrokerDrops, BrokerRestart, history
<1>3. CASE Resume \/ Acknowledged \/ ConnectionLost
  BY <1>3 DEF Resume, Acknowledged, ConnectionLost, brokerVars, history
<1>4. CASE \E e \in Epochs : Announce(e)
  BY <1>4 DEF Announce, AnnounceDisco, AnnounceOnline, AnnounceReturns, AnnounceFails,
              UnchangedByAnnounce, brokerVars, history
<1>5. CASE \/ NewMQTTReturns \/ StartsPolling \/ SkipsPublish \/ Tick \/ Signal
           \/ PublishState \/ Close
  BY <1>5 DEF NewMQTTReturns, StartsPolling, SkipsPublish, Tick, Signal, PublishState,
              Close, UnchangedByMain, brokerVars
<1>6. CASE Disconnect \/ ConnectTimesOut \/ Kill \/ Restart
  BY <1>6 DEF Disconnect, ConnectTimesOut, Kill, Restart, Vanish, brokerVars, history
<1>7. CASE UNCHANGED vars
  BY <1>7 DEF vars, brokerVars, history
<1>8. QED
  BY <1>1, <1>2, <1>3, <1>4, <1>5, <1>6, <1>7 DEF Next

LEMMA AvailNext ==
    ASSUME QoS > 0, TypeOK, CloseInv', DiscoveryInv, AttendedNotOrphaned, [Next]_vars
    PROVE  [Avail!Next]_Avail!vars
<1>0. retained \in Retained /\ wire \in Seq(Message)
  BY DEF TypeOK
<1>1. ASSUME UNCHANGED <<session, retained, raced, early, orphaned, forgot>>
      PROVE  UNCHANGED Avail!vars
  BY <1>1 DEF Avail!vars
<1>2. CASE Connect
  <2>1. /\ session' # 0 /\ raced' \in BOOLEAN /\ orphaned' = FALSE
        /\ early' = early /\ forgot' = forgot
    BY <1>2 DEF Connect, TypeOK
  <2>2. /\ retained'.disco = retained.disco
        /\ retained'.avail = IF session # 0 THEN "offline" ELSE retained.avail
    BY <1>0, <1>2, RetainedFacts, MessageFacts DEF Connect
  <2>3. Avail!Attend
    BY <2>1, <2>2 DEF Avail!Attend
  <2>4. QED
    BY <2>3 DEF Avail!Next
<1>3. CASE BrokerReads
  <2>1. /\ wire # <<>>
        /\ session # 0
        /\ session' = IF Head(wire).kind = "bye" THEN 0 ELSE session
        /\ retained' = Apply(Head(wire), retained)
        /\ early' = IF Head(wire).kind = "disco" THEN FALSE ELSE early
        /\ UNCHANGED <<raced, orphaned, forgot>>
    BY <1>3 DEF BrokerReads, TypeOK
  <2>2. /\ Head(wire) \in Message /\ Head(wire).kind \in Kinds
        /\ Head(wire) = wire[1] /\ 1 \in 1..Len(wire)
    <3>1. /\ Head(wire) \in Message /\ Head(wire) = wire[1] /\ Len(wire) \in Nat \ {0}
      BY <1>0, <2>1, WireTail
    <3>2. QED
      BY <3>1 DEF Message
  <2>3. CASE Head(wire).kind = "disco"
    <3>1. retained' = [retained EXCEPT !.disco = TRUE] /\ session' # 0
      BY <1>0, <2>1, <2>2, <2>3, RetainedFacts
    <3>2. retained'.disco = TRUE /\ retained'.avail = retained.avail
      BY <1>0, <3>1 DEF Retained
    <3>3. Avail!Introduce
      BY <2>1, <2>3, <3>1, <3>2 DEF Avail!Introduce
    <3>4. QED
      BY <3>3 DEF Avail!Next
  <2>4. CASE Head(wire).kind = "online"
    <3>1. retained.disco \/ forgot \/ early
      BY <2>2, <2>4 DEF DiscoveryInv, Lacking, OnlineNowhere
    <3>2. retained'.avail = "online" /\ retained'.disco = retained.disco /\ session' # 0
      BY <1>0, <2>1, <2>2, <2>4, RetainedFacts
    <3>3. Avail!ShowOnline
      BY <2>1, <2>4, <3>1, <3>2 DEF Avail!ShowOnline
    <3>4. QED
      BY <3>3 DEF Avail!Next
  <2>5. CASE Head(wire).kind = "offline"
    <3>1. retained'.avail = "offline" /\ retained'.disco = retained.disco /\ session' # 0
      BY <1>0, <2>1, <2>2, <2>5, RetainedFacts
    <3>2. Avail!ShowOffline
      BY <2>1, <2>5, <3>1 DEF Avail!ShowOffline
    <3>3. QED
      BY <3>2 DEF Avail!Next
  <2>6. CASE Head(wire).kind = "state"
    <3>1. retained'.avail = retained.avail /\ retained'.disco = retained.disco /\ session' # 0
      BY <1>0, <2>1, <2>2, <2>6, RetainedFacts
    <3>2. UNCHANGED Avail!vars
      BY <2>1, <2>6, <3>1 DEF Avail!vars
    <3>3. QED
      BY <3>2
  <2>7. CASE Head(wire).kind = "bye"
    <3>1. /\ retained'.avail = retained.avail /\ retained'.disco = retained.disco
          /\ session' = 0
      BY <1>0, <2>1, <2>2, <2>7, RetainedFacts
    <3>2. retained.avail # "online" \/ raced
      BY <2>1, <3>1 DEF CloseInv, NoSessionNoOnline, AttendedNotOrphaned
    <3>3. Avail!Leave
      BY <2>1, <2>7, <3>1, <3>2 DEF Avail!Leave
    <3>4. QED
      BY <3>3 DEF Avail!Next
  <2>8. QED
    BY <2>2, <2>3, <2>4, <2>5, <2>6, <2>7 DEF Kinds
<1>4. CASE BrokerDrops
  <2>1. /\ session # 0 /\ session' = 0 /\ UNCHANGED <<raced, early, orphaned, forgot>>
        /\ retained'.avail = "offline" /\ retained'.disco = retained.disco
    BY <1>0, <1>4, RetainedFacts, MessageFacts DEF BrokerDrops, history
  <2>2. Avail!Miss
    BY <2>1 DEF Avail!Miss
  <2>3. QED
    BY <2>2 DEF Avail!Next
<1>5. CASE BrokerRestart
  <2>1. /\ session' = 0 /\ orphaned' = TRUE /\ raced' = raced /\ early' = early
        /\ \/ retained' = retained /\ forgot' = forgot
           \/ retained'.disco = FALSE /\ retained'.avail = "none" /\ forgot' = TRUE
    BY <1>5 DEF BrokerRestart, Blank
  <2>2. Avail!Restart
    BY <2>1 DEF Avail!Restart
  <2>3. QED
    BY <2>2 DEF Avail!Next
<1>6. CASE Close
  <2>1. /\ UNCHANGED <<session, retained, early, orphaned, forgot>>
        /\ raced' = raced \/ raced' = TRUE
    BY <1>6 DEF Close, UnchangedByMain, brokerVars, TypeOK
  <2>2. CASE raced' = raced
    BY <1>1, <2>1, <2>2
  <2>3. CASE raced' = TRUE
    <3>1. Avail!Hurry
      BY <2>1, <2>3 DEF Avail!Hurry
    <3>2. QED
      BY <3>1 DEF Avail!Next
  <2>4. QED
    BY <2>1, <2>2, <2>3
<1>7. CASE Resume \/ Acknowledged \/ ConnectionLost
  BY <1>1, <1>7 DEF Resume, Acknowledged, ConnectionLost, brokerVars, history
<1>8. ASSUME NEW e \in Epochs, Announce(e)
      PROVE  [Avail!Next]_Avail!vars
  <2>1. UNCHANGED <<session, retained, raced, orphaned, forgot>>
    BY <1>8 DEF Announce, AnnounceDisco, AnnounceOnline, AnnounceReturns,
                AnnounceFails, UnchangedByAnnounce, brokerVars
  <2>2. early' = early \/ early' = TRUE
    BY <1>8 DEF Announce, AnnounceDisco, AnnounceOnline, AnnounceReturns,
                AnnounceFails, UnchangedByReturn, TypeOK
  <2>3. CASE early' = early
    BY <1>1, <2>1, <2>3
  <2>4. CASE early' = TRUE
    <3>1. Avail!Hurry
      BY <2>1, <2>4 DEF Avail!Hurry
    <3>2. QED
      BY <3>1 DEF Avail!Next
  <2>5. QED
    BY <2>2, <2>3, <2>4
<1>9. CASE \/ NewMQTTReturns \/ StartsPolling \/ SkipsPublish \/ Tick \/ Signal
           \/ PublishState
  BY <1>1, <1>9 DEF NewMQTTReturns, StartsPolling, SkipsPublish, Tick, Signal,
                    PublishState, UnchangedByMain, brokerVars
<1>10. CASE Disconnect \/ ConnectTimesOut \/ Kill \/ Restart
  BY <1>1, <1>10 DEF Disconnect, ConnectTimesOut, Kill, Restart, Vanish, brokerVars,
                     history
<1>11. CASE UNCHANGED vars
  BY <1>1, <1>11 DEF vars, brokerVars, history
<1>12. QED
  BY <1>2, <1>3, <1>4, <1>5, <1>6, <1>7, <1>8, <1>9, <1>10, <1>11 DEF Next

\* With acknowledged delivery the transport implements Availability: every
\* step of every process, client and broker, for every bound, is a step that
\* the promise allows or one that a subscriber of the broker does not see.
THEOREM Implements == QoS > 0 => (Spec => ImplementsAvailability)
<1> SUFFICES ASSUME QoS > 0
             PROVE  Spec => ImplementsAvailability
  OBVIOUS
<1>1. /\ TypeOK /\ CloseInv' /\ DiscoveryInv /\ AttendedNotOrphaned /\ [Next]_vars
      => [Avail!Next]_Avail!vars
  BY AvailNext
<1>2. Spec => []DiscoveryInv
  BY TypingInit, TypingNext, DiscoveryInit, DiscoveryNext, PTL DEF Spec
<1>3. Spec => []AttendedNotOrphaned
  BY TypingInit, TypingNext, AttendedInit, AttendedNext, PTL DEF Spec
<1>4. QED
  BY <1>1, <1>2, <1>3, AvailInit, Typing, CloseCorrect, PTL
  DEF Spec, ImplementsAvailability, Avail!Spec

\* The four invariants these theorems rest on hold together in every state: what
\* Close leaves at the broker, the discovery before online, the announcement on
\* its way and the latest state last on the wire, for every QoS and every bound.
THEOREM TransportInvHolds == Spec => []TransportInv
<1>1. CloseInv /\ DiscoveryInv /\ AnnouncedInv /\ LatestInv => TransportInv
  BY DEF TransportInv
<1>2. QED
  BY <1>1, TypingInit, TypingNext, CloseInit, CloseNext, DiscoveryInit, DiscoveryNext,
     AnnouncedInit, AnnouncedNext, LatestInit, LatestNext, PTL DEF Spec
=============================================================================
