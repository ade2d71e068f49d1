--------------------------- MODULE TransportProofs ---------------------------
(***************************************************************************)
(* Theorems about Transport, for every quality of service and every value  *)
(* of the bounds.                                                          *)
(***************************************************************************)
EXTENDS Transport, SequenceTheorems, TLAPS

\* What is written on the wire is well formed.
LEMMA MessageFacts ==
    /\ \A e \in Nat : Disco(e) \in Message /\ Online(e) \in Message
    /\ \A n \in Nat : StateMsg(n) \in Message
    /\ Offline \in Message
    /\ Bye \in Message
BY DEF Disco, Online, StateMsg, Offline, Bye, Message, Kinds

\* Writing a packet adds one element behind the others; reading one takes
\* the first away.
LEMMA WireAppend ==
    ASSUME NEW w \in Seq(Message), NEW m \in Message
    PROVE  /\ Append(w, m) \in Seq(Message)
           /\ Len(w) \in Nat
           /\ Len(Append(w, m)) = Len(w) + 1
           /\ \A i \in 1..Len(w) : Append(w, m)[i] = w[i]
           /\ Append(w, m)[Len(w) + 1] = m
BY AppendProperties, LenProperties

LEMMA WireTail ==
    ASSUME NEW w \in Seq(Message), w # <<>>
    PROVE  /\ Tail(w) \in Seq(Message)
           /\ Head(w) \in Message
           /\ Head(w) = w[1]
           /\ Len(w) \in Nat \ {0}
           /\ Len(Tail(w)) = Len(w) - 1
           /\ \A i \in 1..Len(Tail(w)) : Tail(w)[i] = w[i + 1]
BY HeadTailProperties, EmptySeq

\* The will and every packet leave a well-formed set of retained messages.
LEMMA RetainedFacts ==
    ASSUME NEW r \in Retained, NEW m \in Message
    PROVE  /\ Will(r) \in Retained
           /\ Will(r).avail = "offline"
           /\ Will(r).disco = r.disco
           /\ Apply(m, r) \in Retained
           /\ m.kind = "disco" => Apply(m, r) = [r EXCEPT !.disco = TRUE]
           /\ m.kind # "disco" => Apply(m, r).disco = r.disco
           /\ m.kind = "online" => Apply(m, r).avail = "online"
           /\ m.kind = "offline" => Apply(m, r).avail = "offline"
           /\ m.kind \notin {"online", "offline"} => Apply(m, r).avail = r.avail
<1>1. m.kind \in Kinds /\ m.by \in Nat
  BY DEF Message
<1>2. CASE m.kind = "disco"
  BY <1>1, <1>2 DEF Retained, Will, Apply
<1>3. CASE m.kind = "online"
  BY <1>1, <1>3 DEF Retained, Will, Apply
<1>4. CASE m.kind = "offline"
  BY <1>1, <1>4 DEF Retained, Will, Apply
<1>5. CASE m.kind = "state"
  BY <1>1, <1>5 DEF Retained, Will, Apply
<1>6. CASE m.kind = "bye"
  BY <1>1, <1>6 DEF Retained, Will, Apply
<1>7. QED
  BY <1>1, <1>2, <1>3, <1>4, <1>5, <1>6 DEF Kinds

\* A publish keeps the client well formed.
LEMMA PublishTyping ==
    ASSUME TypeOK, NEW m \in Message, Publish(m)
    PROVE  /\ store' \in SUBSET Message
           /\ wire' \in Seq(Message)
           /\ status' = status
           /\ epoch' = epoch
           /\ resend' = resend
           /\ acks' = acks
<1>1. store' \in SUBSET Message
  BY DEF TypeOK, Publish
<1>2. Append(wire, m) \in Seq(Message)
  BY WireAppend DEF TypeOK
<1>3. QED
  BY <1>1, <1>2 DEF TypeOK, Publish

\* The process that vanishes leaves well-formed variables.
LEMMA VanishTyping ==
    ASSUME TypeOK, NEW last \in Ended, Vanish(last)
    PROVE  /\ main' = last
           /\ announcer' \in [Epochs -> {"none", "start", "discoWait",
                                         "onlineWait", "done", "failed"}]
           /\ store' = {} /\ resend' = {} /\ released' = {} /\ acks' = {}
           /\ settled' = FALSE /\ UNCHANGED <<raced, early, orphaned, forgot>>
BY DEF TypeOK, Vanish, Epochs
-----------------------------------------------------------------------------
(***************************************************************************)
(* Every variable keeps its type.                                          *)
(***************************************************************************)
LEMMA TypingInit == Init => TypeOK
<1>1. Blank \in Retained
  BY DEF Blank, Retained
<1>2. <<>> \in Seq(Message)
  BY EmptySeq
<1> SUFFICES ASSUME Init
             PROVE  TypeOK
  OBVIOUS
<1>3. announcer \in [Epochs -> {"none", "start", "discoWait", "onlineWait",
                                "done", "failed"}]
  BY DEF Init
<1>4. /\ main \in {"connecting", "starting", "pass", "select", "closing"} \cup Ended
      /\ status \in {"connecting", "connected", "reconnecting", "closing", "gone"}
      /\ stop \in BOOLEAN /\ raced \in BOOLEAN /\ early \in BOOLEAN
      /\ settled \in BOOLEAN
      /\ orphaned \in BOOLEAN
      /\ forgot \in BOOLEAN
  BY DEF Init
<1>5. /\ epoch \in 0..MaxConnects /\ session \in 0..MaxConnects
      /\ published \in 0..MaxStates /\ restarts \in 0..MaxRestarts
  BY BoundsAssumption DEF Init
<1>6. QED
  BY <1>1, <1>2, <1>3, <1>4, <1>5 DEF Init, TypeOK

LEMMA TypingNext == TypeOK /\ [Next]_vars => TypeOK'
<1> SUFFICES ASSUME TypeOK, [Next]_vars
             PROVE  TypeOK'
  OBVIOUS
<1> USE BoundsAssumption
<1>1. <<>> \in Seq(Message)
  BY EmptySeq
<1>2. CASE Connect
  <2>1. Will(retained) \in Retained
    BY RetainedFacts, MessageFacts DEF TypeOK
  <2>2. epoch + 1 \in Epochs /\ epoch + 1 \in 0..MaxConnects
    BY <1>2 DEF Connect, TypeOK, Epochs
  <2>3. QED
    BY <1>1, <1>2, <2>1, <2>2 DEF Connect, OnConnect, TypeOK, Ended
<1>3. CASE Resume
  <2>1. PICK m \in resend : /\ resend' = resend \ {m} /\ wire' = Append(wire, m)
                            /\ released' = released \cup {e \in Epochs : Awaits(e, m)}
    BY <1>3 DEF Resume
  <2>2. wire' \in Seq(Message)
    BY <2>1, WireAppend DEF TypeOK
  <2>3. QED
    BY <1>3, <2>1, <2>2 DEF Resume, TypeOK, procVars, brokerVars, history
<1>4. CASE Acknowledged
  BY <1>4 DEF Acknowledged, TypeOK, procVars, brokerVars, history
<1>5. CASE ConnectionLost
  BY <1>1, <1>5 DEF ConnectionLost, Cut, TypeOK, procVars, brokerVars, history
<1>6. CASE BrokerReads
  <2>1. Head(wire) \in Message /\ Tail(wire) \in Seq(Message)
    BY <1>6, WireTail DEF BrokerReads, TypeOK
  <2>2. retained' \in Retained
    BY <1>6, <2>1, RetainedFacts DEF BrokerReads, TypeOK
  <2>3. QED
    BY <1>6, <2>1, <2>2 DEF BrokerReads, TypeOK, procVars, history
<1>7. CASE BrokerDrops
  <2>1. Will(retained) \in Retained
    BY RetainedFacts, MessageFacts DEF TypeOK
  <2>2. QED
    BY <1>7, <2>1 DEF BrokerDrops, TypeOK, procVars, clientVars, history
<1>8. CASE BrokerRestart
  <2>1. Blank \in Retained
    BY DEF Blank, Retained
  <2>2. retained' \in Retained /\ forgot' \in BOOLEAN
    BY <1>8, <2>1 DEF BrokerRestart, TypeOK
  <2>3. session' \in 0..MaxConnects /\ restarts' \in 0..MaxRestarts
    BY <1>8 DEF BrokerRestart, TypeOK
  <2>4. QED
    BY <1>8, <2>2, <2>3 DEF BrokerRestart, TypeOK, procVars, clientVars
<1>9. ASSUME NEW e \in Epochs, Announce(e)
      PROVE  TypeOK'
  <2> USE DEF UnchangedByAnnounce, AnnouncerAt, brokerVars, history
  <2>1. Disco(e) \in Message /\ Online(e) \in Message
    BY MessageFacts DEF Epochs
  <2>2. CASE AnnounceDisco(e)
    BY <2>1, <2>2, PublishTyping DEF AnnounceDisco, TypeOK
  <2>3. CASE AnnounceOnline(e)
    BY <2>1, <2>3, PublishTyping DEF AnnounceOnline, TypeOK
  <2>4. CASE AnnounceReturns(e)
    BY <2>4 DEF AnnounceReturns, UnchangedByReturn, TypeOK
  <2>5. CASE AnnounceFails(e)
    BY <2>5 DEF AnnounceFails, UnchangedByReturn, TypeOK
  <2>6. QED
    BY <1>9, <2>2, <2>3, <2>4, <2>5 DEF Announce
<1>10. CASE NewMQTTReturns \/ StartsPolling \/ SkipsPublish \/ Tick \/ Signal
  BY <1>10 DEF NewMQTTReturns, StartsPolling, SkipsPublish, Tick, Signal,
               UnchangedByMain, TypeOK, clientVars, brokerVars
<1>11. CASE PublishState
  <2>1. published + 1 \in 0..MaxStates
    BY <1>11 DEF PublishState, TypeOK
  <2>2. StateMsg(published + 1) \in Message
    BY <2>1, MessageFacts
  <2>3. QED
    BY <1>11, <2>1, <2>2, PublishTyping DEF PublishState, UnchangedByMain, TypeOK, brokerVars
<1>12. CASE Close
  <2>1. Offline \in Message
    BY MessageFacts
  <2>2. raced' \in BOOLEAN
    BY <1>12 DEF Close, TypeOK
  <2>3. QED
    BY <1>12, <2>1, <2>2, PublishTyping DEF Close, UnchangedByMain, TypeOK, brokerVars
<1>13. CASE Disconnect
  <2>1. Append(wire, Bye) \in Seq(Message)
    BY WireAppend, MessageFacts DEF TypeOK
  <2>2. QED
    BY <1>1, <1>13, <2>1, VanishTyping DEF Disconnect, TypeOK, Ended, brokerVars, history
<1>14. CASE ConnectTimesOut \/ Kill
  BY <1>1, <1>14, VanishTyping DEF ConnectTimesOut, Kill, TypeOK, Ended, brokerVars, history
<1>15. CASE Restart
  <2>1. stop' \in BOOLEAN /\ wire' \in Seq(Message)
    BY <1>1, <1>15 DEF Restart
  <2>2. restarts' \in 0..MaxRestarts
    BY <1>15 DEF Restart, TypeOK
  <2>3. /\ main' \in {"connecting", "starting", "pass", "select", "closing"} \cup Ended
        /\ status' \in {"connecting", "connected", "reconnecting", "closing", "gone"}
    BY <1>15 DEF Restart
  <2>4. QED
    BY <1>15, <2>1, <2>2, <2>3 DEF Restart, TypeOK, brokerVars, history
<1>16. CASE UNCHANGED vars
  BY <1>16 DEF vars, procVars, clientVars, brokerVars, history, TypeOK
<1>17. QED
  BY <1>2, <1>3, <1>4, <1>5, <1>6, <1>7, <1>8, <1>9, <1>10, <1>11, <1>12,
     <1>13, <1>14, <1>15, <1>16 DEF Next

\* Type correctness.
THEOREM Typing == Spec => []TypeOK
BY TypingInit, TypingNext, PTL DEF Spec
-----------------------------------------------------------------------------
(***************************************************************************)
(* Close.  The argument: while a Close that no announcement overlaps is    *)
(* under way, nothing on the wire or still to be written says online after *)
(* the offline; the broker reads in order, so when DISCONNECT discards the *)
(* will the availability is not online.  Every other way to lose a session *)
(* fires the will, or is a broker restart.                                 *)
(***************************************************************************)

\* Writing a packet that does not say online keeps the last word offline.
LEMMA OfflineWinsAppend ==
    ASSUME wire \in Seq(Message), OfflineWins,
           NEW m \in Message, m.kind # "online",
           wire' = Append(wire, m), retained' = retained
    PROVE  OfflineWins'
BY WireAppend DEF OfflineWins

\* Writing offline makes it the last word.
LEMMA OfflineWinsOffline ==
    ASSUME wire \in Seq(Message), wire' = Append(wire, Offline)
    PROVE  OfflineWins'
<1>1. Offline \in Message /\ Offline.kind = "offline"
  BY MessageFacts DEF Offline
<1>2. /\ Len(wire') = Len(wire) + 1 /\ Len(wire) \in Nat
      /\ wire'[Len(wire) + 1].kind = "offline"
  BY <1>1, WireAppend
<1>3. QED
  BY <1>2 DEF OfflineWins

\* Reading a packet keeps the last word offline.
LEMMA OfflineWinsRead ==
    ASSUME wire \in Seq(Message), wire # <<>>, retained \in Retained, OfflineWins,
           wire' = Tail(wire), retained' = Apply(Head(wire), retained)
    PROVE  OfflineWins'
<1>1. /\ Head(wire) \in Message
      /\ Head(wire) = wire[1]
      /\ Len(wire) \in Nat \ {0}
      /\ Len(wire') = Len(wire) - 1
      /\ \A i \in 1..Len(wire') : wire'[i] = wire[i + 1]
  BY WireTail
<1>2. CASE /\ retained.avail # "online"
           /\ \A j \in 1..Len(wire) : wire[j].kind # "online"
  <2>1. Head(wire).kind # "online"
    BY <1>1, <1>2
  <2>2. retained'.avail # "online"
    BY <1>1, <1>2, <2>1, RetainedFacts
  <2>3. QED
    BY <1>1, <1>2, <2>2 DEF OfflineWins
<1>3. ASSUME NEW i \in 1..Len(wire), wire[i].kind = "offline",
             \A j \in 1..Len(wire) : j > i => wire[j].kind # "online"
      PROVE  OfflineWins'
  <2>1. CASE i = 1
    <3>1. retained'.avail = "offline"
      <4>1. Head(wire) \in Message /\ Head(wire).kind = "offline"
        BY <1>1, <1>3, <2>1
      <4>2. QED
        BY <4>1, RetainedFacts
    <3>2. \A j \in 1..Len(wire') : wire'[j].kind # "online"
      BY <1>1, <1>3, <2>1
    <3>3. QED
      BY <3>1, <3>2 DEF OfflineWins
  <2>2. CASE i > 1
    <3>1. /\ i - 1 \in 1..Len(wire')
          /\ wire'[i - 1].kind = "offline"
          /\ \A j \in 1..Len(wire') : j > i - 1 => wire'[j].kind # "online"
      BY <1>1, <1>3, <2>2
    <3>2. QED
      BY <3>1 DEF OfflineWins
  <2>3. QED
    BY <2>1, <2>2
<1>4. QED
  BY <1>2, <1>3 DEF OfflineWins

\* Nothing to read changes, and the availability does not turn online.
LEMMA OfflineWinsKept ==
    ASSUME OfflineWins, wire' = wire,
           retained' = retained \/ retained'.avail # "online"
    PROVE  OfflineWins'
BY DEF OfflineWins

\* Publishing leaves DISCONNECT where it is.
LEMMA PublishKeepsBye ==
    ASSUME TypeOK, CloseInv, NEW m \in Message, m.kind # "bye", Publish(m)
    PROVE  /\ status' = status
           /\ resend' = resend
           /\ status # "connected" => wire' = wire
           /\ status = "connected" => wire' = Append(wire, m)
           /\ \A i \in 1..Len(wire') :
                 wire'[i].kind = "bye" => status' = "closing" /\ i = Len(wire')
           /\ \A n \in store' \cup resend' : n.kind # "bye"
<1>1. CASE status = "connected"
  <2>1. wire' = Append(wire, m)
    BY <1>1 DEF Publish
  <2>2. \A i \in 1..Len(wire) : wire[i].kind # "bye"
    BY <1>1 DEF CloseInv
  <2>3. \A i \in 1..Len(wire') : wire'[i].kind # "bye"
    BY <2>1, <2>2, WireAppend DEF TypeOK
  <2>4. QED
    BY <1>1, <2>1, <2>3 DEF Publish, CloseInv
<1>2. CASE status # "connected"
  BY <1>2 DEF Publish, CloseInv
<1>3. QED
  BY <1>1, <1>2

LEMMA CloseInit == Init => CloseInv
<1>1. Len(<<>>) = 0
  BY EmptySeq
<1>2. QED
  BY <1>1 DEF Init, CloseInv, NoSessionNoOnline, ClosingOnLine, Blank

LEMMA CloseNext == TypeOK /\ CloseInv /\ [Next]_vars => CloseInv'
<1> SUFFICES ASSUME TypeOK, CloseInv, [Next]_vars
             PROVE  CloseInv'
  OBVIOUS
<1>1. Len(<<>>) = 0
  BY EmptySeq
<1>2. CASE Connect
  <2>1. /\ session' # 0 /\ status' = "connected" /\ Len(wire') = 0
        /\ resend' = store /\ store' = store
    BY <1>1, <1>2 DEF Connect, TypeOK
  <2>2. ClosingOnLine' => raced'
    BY <1>2 DEF Connect, ClosingOnLine
  <2>3. QED
    BY <2>1, <2>2 DEF CloseInv, NoSessionNoOnline
<1>3. CASE Resume
  <2>1. PICK m \in resend : /\ resend' = resend \ {m} /\ wire' = Append(wire, m)
                            /\ released' = released \cup {e \in Epochs : Awaits(e, m)}
    BY <1>3 DEF Resume
  <2>2. /\ status = "connected"
        /\ UNCHANGED <<main, status, announcer, store, retained, session, raced, orphaned>>
    BY <1>3 DEF Resume, procVars, brokerVars, history
  <2>3. ClosingOnLine /\ ~raced => m.kind # "online" /\ ~Announcing'
    BY <2>1, <2>2 DEF CloseInv, Announcing, Active
  <2>4. ClosingOnLine /\ ~raced => OfflineWins'
    BY <2>1, <2>2, <2>3, OfflineWinsAppend DEF CloseInv, TypeOK
  <2>5. \A i \in 1..Len(wire) : wire[i].kind # "bye"
    BY <2>2 DEF CloseInv
  <2>6. \A i \in 1..Len(wire') : wire'[i].kind # "bye"
    BY <2>1, <2>5, WireAppend DEF TypeOK, CloseInv
  <2>7. QED
    BY <2>1, <2>2, <2>3, <2>4, <2>6 DEF CloseInv, NoSessionNoOnline, ClosingOnLine
<1>4. CASE Acknowledged
  BY <1>4 DEF Acknowledged, procVars, brokerVars, history, CloseInv, OfflineWins,
              NoSessionNoOnline, ClosingOnLine, Announcing, Active
<1>5. CASE ConnectionLost
  BY <1>1, <1>5 DEF ConnectionLost, Cut, procVars, brokerVars, history, CloseInv,
                    NoSessionNoOnline, ClosingOnLine
<1>6. CASE BrokerReads
  <2>1. /\ wire # <<>> /\ wire' = Tail(wire)
        /\ retained' = Apply(Head(wire), retained)
        /\ session # 0
        /\ session' = 0 => Head(wire).kind = "bye"
        /\ UNCHANGED <<main, announcer, status, store, resend, raced, orphaned>>
    BY <1>6 DEF BrokerReads, procVars, history
  <2>2. (ClosingOnLine \/ status = "closing") /\ ~raced => OfflineWins'
    BY <2>1, OfflineWinsRead DEF CloseInv, TypeOK
  <2>3. /\ Head(wire) = wire[1] /\ Head(wire) \in Message
        /\ Len(wire) \in Nat \ {0} /\ Len(wire') = Len(wire) - 1
        /\ \A i \in 1..Len(wire') : wire'[i] = wire[i + 1]
    BY <2>1, WireTail DEF TypeOK
  <2>4. \A i \in 1..Len(wire') :
           wire'[i].kind = "bye" => status' = "closing" /\ i = Len(wire')
    <3>1. ASSUME NEW i \in 1..Len(wire'), wire'[i].kind = "bye"
          PROVE  status' = "closing" /\ i = Len(wire')
      <4>1. i + 1 \in 1..Len(wire) /\ wire[i + 1].kind = "bye"
        BY <2>3, <3>1
      <4>2. status = "closing" /\ i + 1 = Len(wire)
        BY <4>1 DEF CloseInv
      <4>3. i \in Nat /\ Len(wire') = Len(wire) - 1 /\ Len(wire) \in Nat
        BY <2>3
      <4>4. QED
        BY <2>1, <4>2, <4>3
    <3>2. QED
      BY <3>1
  <2>5. Announcing' <=> Announcing
    BY <2>1, <1>6 DEF Announcing, Active, BrokerReads
  <2>6. CASE Head(wire).kind = "bye"
    <3>1. status = "closing" /\ Len(wire) = 1
      BY <2>3, <2>6 DEF CloseInv
    <3>2. retained'.avail = retained.avail
      BY <2>1, <2>3, <2>6, RetainedFacts DEF TypeOK
    <3>3. ~raced => retained.avail # "online"
      BY <2>3, <2>6, <3>1 DEF CloseInv, OfflineWins
    <3>4. NoSessionNoOnline'
      BY <2>1, <3>2, <3>3 DEF NoSessionNoOnline
    <3>5. QED
      BY <2>1, <2>2, <2>4, <2>5, <3>4 DEF CloseInv, ClosingOnLine
  <2>7. CASE Head(wire).kind # "bye"
    <3>1. NoSessionNoOnline'
      BY <2>1, <2>7 DEF NoSessionNoOnline
    <3>2. QED
      BY <2>1, <2>2, <2>4, <2>5, <3>1 DEF CloseInv, ClosingOnLine
  <2>8. QED
    BY <2>6, <2>7
<1>7. CASE BrokerDrops
  <2>1. /\ retained'.avail = "offline"
        /\ UNCHANGED <<main, announcer, status, store, resend, wire, raced, orphaned>>
    BY <1>7, RetainedFacts, MessageFacts
    DEF BrokerDrops, TypeOK, procVars, clientVars, history
  <2>2. OfflineWins => OfflineWins'
    BY <2>1, OfflineWinsKept
  <2>3. QED
    BY <2>1, <2>2 DEF CloseInv, NoSessionNoOnline, ClosingOnLine, Announcing, Active
<1>8. CASE BrokerRestart
  <2>1. /\ retained' = retained \/ retained'.avail # "online"
        /\ orphaned'
        /\ UNCHANGED <<main, announcer, status, store, resend, wire, raced>>
    BY <1>8 DEF BrokerRestart, Blank, procVars, clientVars
  <2>2. OfflineWins => OfflineWins'
    BY <2>1, OfflineWinsKept
  <2>3. QED
    BY <2>1, <2>2 DEF CloseInv, NoSessionNoOnline, ClosingOnLine, Announcing, Active
<1>9. ASSUME NEW e \in Epochs, Announce(e)
      PROVE  CloseInv'
  <2>1. /\ Active(e)
        /\ UNCHANGED <<main, session, retained, raced, orphaned>>
    BY <1>9 DEF Announce, AnnounceDisco, AnnounceOnline, AnnounceReturns, AnnounceFails,
                AnnouncerAt, UnchangedByAnnounce, Active, brokerVars, history
  <2>2. ClosingOnLine => raced
    BY <2>1 DEF CloseInv, Announcing
  <2>3. CASE UnchangedByReturn
    <3>1. OfflineWins => OfflineWins'
      BY <2>1, <2>3, OfflineWinsKept DEF UnchangedByReturn
    <3>2. QED
      BY <2>1, <2>2, <2>3, <3>1
      DEF CloseInv, NoSessionNoOnline, ClosingOnLine, UnchangedByReturn
  <2>4. ASSUME NEW m \in {Disco(e), Online(e)}, Publish(m)
        PROVE  CloseInv'
    <3>1. m \in Message /\ m.kind # "bye"
      <4>1. e \in Nat
        BY DEF Epochs
      <4>2. Disco(e).kind # "bye" /\ Online(e).kind # "bye"
        BY DEF Disco, Online
      <4>3. QED
        BY <2>4, <4>1, <4>2, MessageFacts
    <3>2. OfflineWins /\ wire' = wire => OfflineWins'
      BY <2>1, OfflineWinsKept
    <3>3. QED
      BY <2>1, <2>2, <2>4, <3>1, <3>2, PublishKeepsBye
      DEF CloseInv, NoSessionNoOnline, ClosingOnLine
  <2>5. QED
    BY <1>9, <2>3, <2>4 DEF Announce, AnnounceDisco, AnnounceOnline, AnnounceReturns,
                            AnnounceFails
<1>10. CASE NewMQTTReturns \/ StartsPolling \/ SkipsPublish \/ Tick \/ Signal
  <2>1. /\ main' # "closing" /\ main # "stopped"
        /\ UNCHANGED <<status, store, resend, wire, session, retained, raced, orphaned>>
    BY <1>10 DEF NewMQTTReturns, StartsPolling, SkipsPublish, Tick, Signal,
                 UnchangedByMain, clientVars, brokerVars
  <2>2. QED
    BY <2>1 DEF CloseInv, NoSessionNoOnline, ClosingOnLine
<1>11. CASE PublishState
  <2>1. /\ main' = "select" /\ main = "pass"
        /\ UNCHANGED <<session, retained, raced, orphaned>>
        /\ Publish(StateMsg(published + 1))
    BY <1>11 DEF PublishState, UnchangedByMain, brokerVars
  <2>2. StateMsg(published + 1) \in Message /\ StateMsg(published + 1).kind # "bye"
    BY MessageFacts, BoundsAssumption DEF TypeOK, StateMsg
  <2>3. QED
    BY <2>1, <2>2, PublishKeepsBye DEF CloseInv, NoSessionNoOnline, ClosingOnLine
<1>12. CASE Close
  <2>1. /\ main' = "closing" /\ main = "select" /\ Publish(Offline)
        /\ raced' = (raced \/ Announcing)
        /\ UNCHANGED <<announcer, session, retained, orphaned>>
    BY <1>12 DEF Close, UnchangedByMain, brokerVars
  <2>2. Offline \in Message /\ Offline.kind # "bye"
    BY MessageFacts DEF Offline
  <2>3. status # "closing" /\ status' = status /\ resend' = resend
    BY <2>1, <2>2, PublishKeepsBye DEF CloseInv
  <2>4. Announcing' <=> Announcing
    BY <2>1, <2>3 DEF Announcing, Active
  <2>5. status = "connected" => OfflineWins'
    BY <2>1, <2>2, PublishKeepsBye, OfflineWinsOffline DEF TypeOK
  <2>6. NoSessionNoOnline'
    BY <2>1 DEF CloseInv, NoSessionNoOnline
  <2>7. QED
    BY <2>1, <2>2, <2>3, <2>4, <2>5, <2>6, PublishKeepsBye DEF CloseInv, ClosingOnLine
<1>13. CASE Disconnect
  <2>1. /\ main = "closing" /\ main' = "stopped" /\ store' = {} /\ resend' = {}
        /\ UNCHANGED <<session, retained, raced, orphaned>>
    BY <1>13 DEF Disconnect, Vanish, brokerVars, history
  <2>2. NoSessionNoOnline'
    BY <2>1 DEF CloseInv, NoSessionNoOnline
  <2>3. CASE status = "connected" /\ status' = "closing" /\ wire' = Append(wire, Bye)
    <3>1. Bye \in Message /\ Bye.kind = "bye"
      BY MessageFacts DEF Bye
    <3>2. ~raced => OfflineWins'
      BY <2>1, <2>3, <3>1, OfflineWinsAppend DEF CloseInv, TypeOK, ClosingOnLine
    <3>3. \A i \in 1..Len(wire) : wire[i].kind # "bye"
      BY <2>3 DEF CloseInv
    <3>4. \A i \in 1..Len(wire') : wire'[i].kind = "bye" => i = Len(wire')
      BY <2>3, <3>1, <3>3, WireAppend DEF TypeOK
    <3>5. QED
      BY <2>1, <2>2, <2>3, <3>2, <3>4 DEF CloseInv, ClosingOnLine
  <2>4. CASE status' = "gone" /\ wire' = <<>>
    BY <1>1, <2>1, <2>2, <2>4 DEF CloseInv, ClosingOnLine
  <2>5. QED
    BY <1>13, <2>3, <2>4 DEF Disconnect
<1>14. CASE ConnectTimesOut \/ Kill
  <2>1. /\ status' = "gone" /\ wire' = <<>> /\ store' = {} /\ resend' = {}
        /\ UNCHANGED <<session, retained, raced, orphaned>>
    BY <1>14 DEF ConnectTimesOut, Kill, Vanish, brokerVars, history
  <2>2. QED
    BY <1>1, <2>1 DEF CloseInv, NoSessionNoOnline, ClosingOnLine
<1>15. CASE Restart
  <2>1. /\ status' = "connecting" /\ wire' = <<>>
        /\ UNCHANGED <<store, resend, session, retained, raced, orphaned>>
    BY <1>15 DEF Restart, brokerVars, history
  <2>2. QED
    BY <1>1, <2>1 DEF CloseInv, NoSessionNoOnline, ClosingOnLine
<1>16. CASE UNCHANGED vars
  BY <1>16 DEF vars, procVars, clientVars, brokerVars, history, CloseInv, OfflineWins,
               NoSessionNoOnline, ClosingOnLine, Announcing, Active
<1>17. QED
  BY <1>2, <1>3, <1>4, <1>5, <1>6, <1>7, <1>8, <1>9, <1>10, <1>11, <1>12,
     <1>13, <1>14, <1>15, <1>16 DEF Next

THEOREM CloseCorrect == Spec => []CloseInv
BY TypingInit, TypingNext, CloseInit, CloseNext, PTL DEF Spec

\* A broker that holds no session of the node does not show it online,
\* except after an announcement that overlapped Close or a broker restart:
\* whatever the quality of service, however often connections are lost,
\* taken over and written again, whenever the process dies.
THEOREM NoSessionNoOnlineHolds == Spec => []NoSessionNoOnline
<1>1. CloseInv => NoSessionNoOnline
  BY DEF CloseInv
<1>2. QED
  BY <1>1, CloseCorrect, PTL
-----------------------------------------------------------------------------
(***************************************************************************)
(* Announce.  The argument: with acknowledged delivery, as long as the     *)
(* broker has not applied a discovery none is acknowledged, so each one    *)
(* published stays stored and whoever waits for it still waits, or went on *)
(* because the client wrote it again; until somebody does no copy of       *)
(* online exists in the store, on the wire or at the broker.  The broker   *)
(* keeps what it has unless it forgets it all.                             *)
(***************************************************************************)

\* A step after which the broker lacks the discovery is one before which it did.
LEMMA LackingBefore ==
    ASSUME TypeOK, [Next]_vars, Lacking'
    PROVE  Lacking
<1>1. CASE BrokerReads
  <2>1. /\ wire # <<>> /\ retained' = Apply(Head(wire), retained) /\ forgot' = forgot
    BY <1>1 DEF BrokerReads
  <2>2. Head(wire) \in Message
    BY <2>1, WireTail DEF TypeOK
  <2>3. CASE Head(wire).kind = "disco"
    <3>1. retained' = [retained EXCEPT !.disco = TRUE]
      BY <2>1, <2>2, <2>3, RetainedFacts DEF TypeOK
    <3>2. QED
      BY <3>1 DEF Lacking, TypeOK, Retained
  <2>4. CASE Head(wire).kind # "disco"
    BY <2>1, <2>2, <2>4, RetainedFacts DEF Lacking, TypeOK
  <2>5. QED
    BY <2>3, <2>4
<1>2. CASE Connect \/ BrokerDrops
  <2>1. retained' \in {retained, Will(retained)} /\ forgot' = forgot
    BY <1>2 DEF Connect, BrokerDrops, history
  <2>2. QED
    BY <2>1, RetainedFacts, MessageFacts DEF Lacking, TypeOK
<1>3. CASE BrokerRestart
  BY <1>3 DEF BrokerRestart, Lacking
<1>4. CASE \/ Resume \/ Acknowledged \/ ConnectionLost
           \/ \E e \in Epochs : Announce(e)
  BY <1>4 DEF Resume, Acknowledged, ConnectionLost, Announce, AnnounceDisco,
              AnnounceOnline, AnnounceReturns, AnnounceFails, UnchangedByAnnounce,
              brokerVars, history, Lacking
<1>5. CASE \/ NewMQTTReturns \/ StartsPolling \/ PublishState \/ SkipsPublish \/ Tick
           \/ Signal \/ Close \/ Restart
  BY <1>5 DEF NewMQTTReturns, StartsPolling, PublishState, SkipsPublish, Tick, Signal,
              Close, Restart, UnchangedByMain, brokerVars, history, Lacking
<1>6. CASE ConnectTimesOut \/ Disconnect \/ Kill
  BY <1>6 DEF ConnectTimesOut, Disconnect, Kill, Vanish, brokerVars, Lacking
<1>7. CASE UNCHANGED vars
  BY <1>7 DEF vars, brokerVars, history, Lacking
<1>8. QED
  BY <1>1, <1>2, <1>3, <1>4, <1>5, <1>6, <1>7 DEF Next

\* A publish of anything else says online nowhere, and keeps what is stored.
LEMMA PublishSaysNothing ==
    ASSUME TypeOK, NEW m \in Message, m.kind # "online", Publish(m),
           retained'.avail = retained.avail
    PROVE  /\ OnlineNowhere => OnlineNowhere'
           /\ store \subseteq store'
<1>1. /\ resend' = resend /\ store \subseteq store'
      /\ \A n \in store' : n \in store \/ n = m
  BY DEF Publish
<1>2. CASE wire' = Append(wire, m)
  BY <1>1, <1>2, WireAppend DEF TypeOK, OnlineNowhere
<1>3. CASE wire' = wire
  BY <1>1, <1>3 DEF OnlineNowhere
<1>4. QED
  BY <1>1, <1>2, <1>3 DEF Publish

\* What is due stays due while announcers only start, what is stored stays and
\* the process does not come back.
LEMMA DueKept ==
    ASSUME Attached => DiscoDue, Attached' => Attached,
           \A e \in Epochs : announcer[e] = "start" => announcer'[e] = "start",
           \A e \in Epochs : Disco(e) \in store => Disco(e) \in store'
    PROVE  Attached' => DiscoDue'
BY DEF DiscoDue, Disco

LEMMA DiscoveryInit == Init => DiscoveryInv
<1>1. Len(<<>>) = 0
  BY EmptySeq
<1>2. QED
  BY <1>1 DEF Init, DiscoveryInv, DiscoveryComes, OnlineNowhere, Attached, Blank

LEMMA DiscoveryNext == TypeOK /\ DiscoveryInv /\ [Next]_vars => DiscoveryInv'
<1> SUFFICES ASSUME TypeOK, DiscoveryInv, [Next]_vars, Lacking'
             PROVE  DiscoveryComes' /\ (~early' => OnlineNowhere')
  BY DEF DiscoveryInv
<1>0. Lacking /\ DiscoveryComes /\ (~early => OnlineNowhere)
  BY LackingBefore DEF DiscoveryInv
<1>1. Len(<<>>) = 0
  BY EmptySeq
<1> HIDE DEF DiscoveryInv
<1>2. CASE Connect
  <2>1. /\ store' = store /\ resend' = store /\ wire' = <<>> /\ acks' = {}
        /\ announcer' = [announcer EXCEPT ![epoch + 1] = "start"]
        /\ retained' = retained \/ retained' = Will(retained)
        /\ early' = early
    BY <1>2 DEF Connect, OnConnect
  <2>2. epoch + 1 \in Epochs
    BY <1>2, BoundsAssumption DEF Connect, TypeOK, Epochs
  <2>3. DiscoveryComes'
    <3>1. \A e \in Epochs : announcer'[e] = "discoWait" => Disco(e) \in store'
      BY <1>0, <2>1 DEF DiscoveryComes, TypeOK
    <3>2. DiscoDue'
      BY <2>1, <2>2 DEF DiscoDue, TypeOK
    <3>3. QED
      BY <2>1, <3>1, <3>2 DEF DiscoveryComes
  <2>4. retained'.avail \in {retained.avail, "offline"}
    BY <2>1, RetainedFacts, MessageFacts DEF TypeOK
  <2>5. QED
    BY <1>0, <1>1, <2>1, <2>3, <2>4 DEF OnlineNowhere
<1>3. CASE Resume
  <2>1. PICK m \in resend : resend' = resend \ {m} /\ wire' = Append(wire, m)
    BY <1>3 DEF Resume
  <2>2. UNCHANGED <<announcer, status, store, acks, retained, early>>
    BY <1>3 DEF Resume, procVars, brokerVars, history
  <2>3. DiscoveryComes'
    BY <1>0, <2>2 DEF DiscoveryComes, Attached, DiscoDue
  <2>4. OnlineNowhere => OnlineNowhere'
    BY <2>1, <2>2, WireAppend DEF OnlineNowhere, TypeOK
  <2>5. QED
    BY <1>0, <2>2, <2>3, <2>4
<1>4. CASE Acknowledged
  <2>1. PICK m \in acks : /\ acks' = acks \ {m} /\ store' = store \ {m}
                          /\ resend' = resend \ {m}
    BY <1>4 DEF Acknowledged
  <2>2. UNCHANGED <<announcer, status, wire, retained, early>>
    BY <1>4 DEF Acknowledged, procVars, brokerVars, history
  <2>3. \A e \in Epochs : Disco(e) # m
    BY <1>0 DEF DiscoveryComes, Disco
  <2>4. DiscoveryComes'
    <3>1. Attached' => DiscoDue'
      BY <1>0, <2>1, <2>2, <2>3, DueKept DEF DiscoveryComes, Attached
    <3>2. QED
      BY <1>0, <2>1, <2>2, <2>3, <3>1 DEF DiscoveryComes
  <2>5. OnlineNowhere => OnlineNowhere'
    BY <2>1, <2>2 DEF OnlineNowhere
  <2>6. QED
    BY <1>0, <2>2, <2>4, <2>5
<1>5. CASE ConnectionLost
  <2>1. /\ wire' = <<>> /\ resend' = {} /\ acks' = {} /\ (Attached' => Attached)
        /\ UNCHANGED <<announcer, store, retained, early>>
    BY <1>5 DEF ConnectionLost, Cut, procVars, brokerVars, Attached
  <2>2. QED
    BY <1>0, <1>1, <2>1 DEF DiscoveryComes, DiscoDue, OnlineNowhere
<1>6. CASE BrokerReads
  <2>1. /\ wire # <<>> /\ wire' = Tail(wire) /\ retained' = Apply(Head(wire), retained)
        /\ acks' = acks \/ acks' = acks \cup {Head(wire)}
        /\ early' = (early /\ Head(wire).kind # "disco")
        /\ UNCHANGED <<announcer, status, store, resend>>
    BY <1>6 DEF BrokerReads, procVars
  <2>2. /\ Head(wire) = wire[1] /\ Head(wire) \in Message
        /\ Len(wire) \in Nat \ {0} /\ Len(wire') = Len(wire) - 1
        /\ \A i \in 1..Len(wire') : wire'[i] = wire[i + 1]
    BY <2>1, WireTail DEF TypeOK
  <2>3. Head(wire).kind # "disco"
    <3>1. SUFFICES ASSUME Head(wire).kind = "disco"
                   PROVE  FALSE
      OBVIOUS
    <3>2. retained' = [retained EXCEPT !.disco = TRUE]
      BY <2>1, <2>2, <3>1, RetainedFacts DEF TypeOK
    <3>3. QED
      BY <3>2 DEF Lacking, TypeOK, Retained
  <2>4. DiscoveryComes'
    BY <1>0, <2>1, <2>3 DEF DiscoveryComes, Attached, DiscoDue
  <2>5. ~early' => OnlineNowhere
    BY <1>0, <2>1, <2>3
  <2>6. OnlineNowhere => OnlineNowhere'
    <3>1. SUFFICES ASSUME OnlineNowhere
                   PROVE  OnlineNowhere'
      OBVIOUS
    <3>2. Head(wire).kind # "online"
      BY <2>2, <3>1 DEF OnlineNowhere
    <3>3. retained'.avail # "online"
      BY <2>1, <2>2, <3>1, <3>2, RetainedFacts DEF OnlineNowhere, TypeOK
    <3>4. \A i \in 1..Len(wire') : wire'[i].kind # "online"
      BY <2>2, <3>1 DEF OnlineNowhere
    <3>5. QED
      BY <2>1, <3>1, <3>3, <3>4 DEF OnlineNowhere
  <2>7. QED
    BY <2>4, <2>5, <2>6
<1>7. CASE BrokerDrops
  <2>1. /\ retained'.avail = "offline"
        /\ UNCHANGED <<announcer, status, store, resend, wire, acks, early>>
    BY <1>7, RetainedFacts, MessageFacts
    DEF BrokerDrops, TypeOK, procVars, clientVars, history
  <2>2. QED
    BY <1>0, <2>1 DEF DiscoveryComes, Attached, DiscoDue, OnlineNowhere
<1>8. CASE BrokerRestart
  <2>1. UNCHANGED <<announcer, status, store, resend, wire, acks, retained, early>>
    BY <1>8 DEF BrokerRestart, procVars, clientVars, Lacking
  <2>2. QED
    BY <1>0, <2>1 DEF DiscoveryComes, Attached, DiscoDue, OnlineNowhere
<1>9. ASSUME NEW e \in Epochs, Announce(e)
      PROVE  DiscoveryComes' /\ (~early' => OnlineNowhere')
  <2>1. e \in Nat /\ Disco(e) \in Message /\ Online(e) \in Message
    BY MessageFacts DEF Epochs
  <2>2. UNCHANGED <<status, retained, acks>>
    BY <1>9 DEF Announce, AnnounceDisco, AnnounceOnline, AnnounceReturns, AnnounceFails,
                UnchangedByAnnounce, UnchangedByReturn, Publish, brokerVars
  <2>3. CASE AnnounceDisco(e)
    <3>1. /\ Publish(Disco(e)) /\ early' = early
          /\ announcer' = [announcer EXCEPT ![e] = "discoWait"]
      BY <2>3 DEF AnnounceDisco, AnnouncerAt
    <3>2. /\ OnlineNowhere => OnlineNowhere'
          /\ store \subseteq store' /\ Disco(e) \in store'
      <4>1. Disco(e).kind # "online"
        BY DEF Disco
      <4>2. Disco(e) \in store'
        BY <1>0, <3>1 DEF Publish, Lacking
      <4>3. QED
        BY <2>1, <2>2, <3>1, <4>1, <4>2, PublishSaysNothing
    <3>3. \A d \in Epochs : announcer'[d] = "discoWait" => Disco(d) \in store'
      BY <1>0, <3>1, <3>2 DEF DiscoveryComes, TypeOK
    <3>4. DiscoDue'
      BY <3>2 DEF DiscoDue
    <3>5. QED
      BY <1>0, <2>2, <3>1, <3>2, <3>3, <3>4 DEF DiscoveryComes
  <2>4. CASE AnnounceOnline(e)
    <3>1. /\ announcer[e] = "discoWait" /\ store \subseteq store'
          /\ announcer' = [announcer EXCEPT ![e] = "onlineWait"]
          /\ early' = (early \/ (Disco(e) \in store /\ ~retained.disco))
      BY <2>4 DEF AnnounceOnline, AnnouncerAt, Publish
    <3>2. early'
      BY <1>0, <3>1 DEF DiscoveryComes, Lacking
    <3>3. \A d \in Epochs : announcer'[d] = "discoWait" => Disco(d) \in store'
      BY <1>0, <3>1 DEF DiscoveryComes, TypeOK
    <3>4. \A d \in Epochs : announcer[d] = "start" => announcer'[d] = "start"
      BY <3>1 DEF TypeOK
    <3>5. Attached' => DiscoDue'
      BY <1>0, <2>2, <3>1, <3>4, DueKept DEF DiscoveryComes, Attached
    <3>6. QED
      BY <1>0, <2>2, <3>2, <3>3, <3>5 DEF DiscoveryComes
  <2>5. CASE AnnounceReturns(e) \/ AnnounceFails(e)
    <3>1. /\ UNCHANGED <<store, resend, wire, early>>
          /\ announcer[e] # "start"
          /\ \/ announcer' = [announcer EXCEPT ![e] = "done"]
             \/ announcer' = [announcer EXCEPT ![e] = "failed"]
      BY <2>5 DEF AnnounceReturns, AnnounceFails, AnnouncerAt, UnchangedByReturn
    <3>2. /\ \A d \in Epochs : announcer[d] = "start" => announcer'[d] = "start"
          /\ \A d \in Epochs : announcer'[d] = "discoWait" => announcer[d] = "discoWait"
      BY <3>1 DEF TypeOK
    <3>3. Attached' => DiscoDue'
      BY <1>0, <2>2, <3>1, <3>2, DueKept DEF DiscoveryComes, Attached
    <3>4. QED
      BY <1>0, <2>2, <3>1, <3>2, <3>3 DEF DiscoveryComes, OnlineNowhere
  <2>6. QED
    BY <1>9, <2>3, <2>4, <2>5 DEF Announce
<1>10. CASE NewMQTTReturns \/ StartsPolling \/ SkipsPublish \/ Tick \/ Signal
  <2>1. UNCHANGED <<announcer, status, store, resend, wire, acks, retained, early>>
    BY <1>10 DEF NewMQTTReturns, StartsPolling, SkipsPublish, Tick, Signal,
                 UnchangedByMain, clientVars, brokerVars
  <2>2. QED
    BY <1>0, <2>1 DEF DiscoveryComes, Attached, DiscoDue, OnlineNowhere
<1>11. CASE PublishState \/ Close
  <2>1. PICK m \in {StateMsg(published + 1), Offline} : Publish(m)
    BY <1>11 DEF PublishState, Close
  <2>2. UNCHANGED <<announcer, status, acks, retained, early>>
    BY <1>11 DEF PublishState, Close, UnchangedByMain, Publish, brokerVars
  <2>3. m \in Message
    BY <2>1, MessageFacts, BoundsAssumption DEF TypeOK
  <2>4. m.kind # "online"
    BY <2>1 DEF StateMsg, Offline
  <2>5. (OnlineNowhere => OnlineNowhere') /\ store \subseteq store'
    BY <2>1, <2>2, <2>3, <2>4, PublishSaysNothing
  <2>6. Attached' => DiscoDue'
    BY <1>0, <2>2, <2>5, DueKept DEF DiscoveryComes, Attached
  <2>7. QED
    BY <1>0, <2>2, <2>5, <2>6 DEF DiscoveryComes
<1>12. CASE Disconnect \/ ConnectTimesOut \/ Kill
  <2>1. /\ store' = {} /\ resend' = {} /\ acks' = {}
        /\ announcer' = [e \in Epochs |-> "none"]
        /\ retained' = retained /\ early' = early
        /\ wire' = <<>> \/ wire' = Append(wire, Bye)
        /\ status' \in {"closing", "gone"}
    BY <1>12 DEF Disconnect, ConnectTimesOut, Kill, Vanish, brokerVars
  <2>2. Bye \in Message /\ Bye.kind # "online"
    BY MessageFacts DEF Bye
  <2>3. OnlineNowhere => \A i \in 1..Len(wire') : wire'[i].kind # "online"
    <3>1. CASE wire' = <<>>
      BY <1>1, <3>1
    <3>2. CASE wire' = Append(wire, Bye)
      BY <2>2, <3>2, WireAppend DEF OnlineNowhere, TypeOK
    <3>3. QED
      BY <2>1, <3>1, <3>2
  <2>4. OnlineNowhere => OnlineNowhere'
    BY <2>1, <2>3 DEF OnlineNowhere
  <2>5. DiscoveryComes'
    BY <2>1 DEF DiscoveryComes, Attached
  <2>6. QED
    BY <1>0, <2>1, <2>4, <2>5
<1>13. CASE Restart
  <2>1. /\ wire' = <<>> /\ status' = "connecting"
        /\ UNCHANGED <<announcer, store, resend, acks, retained, early>>
    BY <1>13 DEF Restart, brokerVars, history
  <2>2. QED
    BY <1>0, <1>1, <2>1 DEF DiscoveryComes, Attached, OnlineNowhere
<1>14. CASE UNCHANGED vars
  <2>1. UNCHANGED <<announcer, status, store, resend, wire, acks, retained, early>>
    BY <1>14 DEF vars, procVars, clientVars, brokerVars, history
  <2>2. QED
    BY <1>0, <2>1 DEF DiscoveryComes, Attached, DiscoDue, OnlineNowhere
<1>15. QED
  BY <1>2, <1>3, <1>4, <1>5, <1>6, <1>7, <1>8, <1>9, <1>10, <1>11, <1>12,
     <1>13, <1>14 DEF Next

\* With acknowledged delivery, a node shown online is a node Home Assistant has
\* the discovery of, unless a broker restart lost what was retained, in
\* whatever order the client writes its stored messages again; or, if an
\* announcement went on although its discovery was only written again, one
\* whose discovery is still on its way as long as its process runs.
THEOREM OnlineIsDiscoverableHolds == Spec => []OnlineIsDiscoverable
<1>1. DiscoveryInv => OnlineIsDiscoverable
  BY DEF DiscoveryInv, Lacking, DiscoveryComes, OnlineNowhere, OnlineIsDiscoverable
<1>2. Spec => []DiscoveryInv
  BY TypingInit, TypingNext, DiscoveryInit, DiscoveryNext, PTL DEF Spec
<1>3. QED
  BY <1>1, <1>2, PTL
=============================================================================
