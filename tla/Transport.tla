------------------------------ MODULE Transport ------------------------------
(***************************************************************************)
(* The MQTT transport of sparkwrangler (internal/publisher/mqtt.go) with   *)
(* the three parties that share it: the main goroutine (the poll loop of   *)
(* cmd/sparkwrangler/main.go, seen only through what it publishes), one    *)
(* announcer goroutine per broker connection (the OnConnect callback), and *)
(* the outside world: the paho client's message store, the TCP connection  *)
(* and the broker with its retained messages and the registered will.      *)
(*                                                                         *)
(* Time is abstract here: a 10 s or 30 s wait may end at any moment while  *)
(* its token is incomplete.  Module Poll is where time is counted.         *)
(***************************************************************************)
EXTENDS Naturals, Sequences, FiniteSets

CONSTANTS
    QoS,               \* the quality of service of every publish, 0, 1 or 2
    MaxConnects,       \* bound: connections the broker accepts
    MaxStates,         \* bound: states published
    MaxRestarts        \* bound: restarts, of the process and of the broker

ASSUME QoSAssumption == QoS \in 0..2
ASSUME BoundsAssumption == /\ MaxConnects \in Nat
                           /\ MaxStates \in Nat
                           /\ MaxRestarts \in Nat

VARIABLES
    main,           \* where the main goroutine is
    stop,           \* ctx is cancelled: SIGTERM or SIGINT has been received
    announcer,      \* where the OnConnect goroutine of each connection is
    status,         \* the paho client's connection status
    epoch,          \* the number of the latest connection
    store,          \* messages published with QoS > 0 and not acknowledged
    resend,         \* what of it the client has still to write on this connection
    released,       \* announcers whose token that writing has completed
    wire,           \* what is written on this connection, broker still to read
    acks,           \* acknowledgements on their way back
    session,        \* the connection the broker holds with its will, 0 if none
    retained,       \* the broker's retained messages for this node
    published,      \* the number of states published so far
    restarts,       \* restarts so far, of the process and of the broker
    raced,          \* history: an announcement overlapped this run's Close
    early,          \* history: an announcement went on to online because a
                    \* claim had completed the token of its discovery
    settled,        \* history: the latest state was published on this connection
                    \* with no stored state left to write again
    orphaned,       \* history: the broker restarted and nobody came back yet
    forgot          \* history: a broker restart lost the retained messages

procVars == <<main, stop, announcer>>
clientVars == <<status, epoch, store, resend, released, wire, acks>>
brokerVars == <<session, retained>>
history == <<raced, early, settled, orphaned, forgot>>
vars == <<procVars, clientVars, brokerVars, published, restarts, history>>
-----------------------------------------------------------------------------
(***************************************************************************)
(* Messages.  "by" tells apart the messages of one kind: the connection an *)
(* announcement belongs to, the number of a state.  "bye" is DISCONNECT.   *)
(***************************************************************************)
Kinds == {"disco", "online", "offline", "state", "bye"}
Message == [kind : Kinds, by : Nat]

Disco(e) == [kind |-> "disco", by |-> e]
Online(e) == [kind |-> "online", by |-> e]
Offline == [kind |-> "offline", by |-> 0]
StateMsg(n) == [kind |-> "state", by |-> n]
Bye == [kind |-> "bye", by |-> 0]

Epochs == 1..MaxConnects
Ended == {"stopped", "dead"}
Running == main \notin Ended
Active(e) == announcer[e] \in {"start", "discoWait", "onlineWait"}

Blank == [disco |-> FALSE, avail |-> "none", state |-> 0]
Retained == [disco : BOOLEAN, avail : {"none", "online", "offline"}, state : Nat]

TypeOK ==
    /\ main \in {"connecting", "starting", "pass", "select", "closing"} \cup Ended
    /\ stop \in BOOLEAN
    /\ announcer \in [Epochs -> {"none", "start", "discoWait", "onlineWait",
                                 "done", "failed"}]
    /\ status \in {"connecting", "connected", "reconnecting", "closing", "gone"}
    /\ epoch \in 0..MaxConnects
    /\ store \in SUBSET Message
    /\ resend \in SUBSET Message
    /\ released \in SUBSET Epochs
    /\ wire \in Seq(Message)
    /\ acks \in SUBSET Message
    /\ session \in 0..MaxConnects
    /\ retained \in Retained
    /\ published \in 0..MaxStates
    /\ restarts \in 0..MaxRestarts
    /\ raced \in BOOLEAN
    /\ early \in BOOLEAN
    /\ settled \in BOOLEAN
    /\ orphaned \in BOOLEAN
    /\ forgot \in BOOLEAN

Init ==
    /\ main = "connecting"
    /\ stop = FALSE
    /\ announcer = [e \in Epochs |-> "none"]
    /\ status = "connecting"
    /\ epoch = 0
    /\ store = {}
    /\ resend = {}
    /\ released = {}
    /\ wire = <<>>
    /\ acks = {}
    /\ session = 0
    /\ retained = Blank
    /\ published = 0
    /\ restarts = 0
    /\ raced = FALSE
    /\ early = FALSE
    /\ settled = FALSE
    /\ orphaned = FALSE
    /\ forgot = FALSE
-----------------------------------------------------------------------------
(***************************************************************************)
(* The paho client, as NewMQTT configures it: SetCleanSession(false) with  *)
(* the default in-memory store, automatic reconnect.  Publish with QoS > 0 *)
(* stores the message until it is acknowledged; a QoS 0 message published  *)
(* while the link is down is dropped and its token completes at once.      *)
(***************************************************************************)
Publish(m) ==
    /\ store' = IF QoS > 0 THEN store \cup {m} ELSE store
    /\ wire' = IF status = "connected" THEN Append(wire, m) ELSE wire
    /\ UNCHANGED <<status, epoch, resend, acks>>

\* What publish sees of its token: complete, by an acknowledgement or because
\* the client has claimed the message's id again, whether the message itself is
\* already written again or comes next; or not complete within 10 s.  A QoS 0
\* token may also fail, when the connection breaks under the write.
Complete(e, m) == m \notin store \/ m \in resend \/ e \in released
GivesUp(m) == m \in store \/ QoS = 0

\* The connection is over; unacknowledged messages stay in the store, and so
\* do the tokens that wait for them.
Cut == wire' = <<>> /\ acks' = {} /\ resend' = {} /\ settled' = FALSE

\* The will of NewMQTT, which the broker publishes when a session ends
\* without DISCONNECT, or when a newer connection takes it over.
\* Wrong variants: no will is registered; its payload is not the one the
\* discovery declares.
NoWill(r) == r
WillPayloadUnknown(r) == [r EXCEPT !.avail = "down"]
Will(r) == [r EXCEPT !.avail = "offline"]

\* Every connection, the first and each reconnection, runs OnConnect in a
\* goroutine of its own.
\* Wrong variant: announce at start only.
OnFirstConnect(e) ==
    announcer' = IF e = 1 THEN [announcer EXCEPT ![e] = "start"] ELSE announcer
OnConnect(e) == announcer' = [announcer EXCEPT ![e] = "start"]

\* The broker accepts a connection.
Connect ==
    /\ status \in {"connecting", "reconnecting"}
    /\ epoch < MaxConnects
    /\ epoch' = epoch + 1
    /\ status' = "connected"
    /\ session' = epoch + 1
    /\ retained' = IF session # 0 THEN Will(retained) ELSE retained
    /\ resend' = store
    /\ wire' = <<>>
    /\ acks' = {}
    /\ OnConnect(epoch + 1)
    /\ raced' = (main = "closing")
    /\ settled' = FALSE
    /\ orphaned' = FALSE
    /\ UNCHANGED <<main, stop, store, released, published, restarts,
                   early, forgot>>

\* The client then resumes, beside OnConnect: for each stored message it claims
\* the id for a new token, which completes the one an announcer waits for,
\* without an error (see Complete), and writes the message on the new
\* connection, in an order nothing in the program fixes.
Awaits(e, m) == \/ announcer[e] = "discoWait" /\ m = Disco(e)
                \/ announcer[e] = "onlineWait" /\ m = Online(e)
Resume ==
    /\ status = "connected"
    /\ \E m \in resend :
          /\ resend' = resend \ {m}
          /\ wire' = Append(wire, m)
          /\ released' = released \cup {e \in Epochs : Awaits(e, m)}
    /\ UNCHANGED <<procVars, status, epoch, store, acks, brokerVars, published,
                   restarts, history>>

\* What is acknowledged meanwhile is not written again.
Acknowledged ==
    /\ \E m \in acks : /\ acks' = acks \ {m}
                       /\ store' = store \ {m}
                       /\ resend' = resend \ {m}
    /\ UNCHANGED <<procVars, status, epoch, released, wire,
                   brokerVars, published, restarts, history>>

\* The connection breaks, or its keepalive finds it broken.  After Close
\* there is no process left to reconnect.
ConnectionLost ==
    /\ \/ status = "connected" /\ status' = "reconnecting"
       \/ status = "closing" /\ status' = "gone"
    /\ Cut
    /\ UNCHANGED <<procVars, epoch, store, released, brokerVars, published, restarts,
                   raced, early, orphaned, forgot>>
-----------------------------------------------------------------------------
(***************************************************************************)
(* The broker.                                                             *)
(***************************************************************************)
Reachable == status \in {"connected", "closing"} /\ session = epoch

\* The effect of one PUBLISH on the retained messages.
Apply(m, r) ==
    CASE m.kind = "disco"   -> [r EXCEPT !.disco = TRUE]
      [] m.kind = "online"  -> [r EXCEPT !.avail = "online"]
      [] m.kind = "offline" -> [r EXCEPT !.avail = "offline"]
      [] m.kind = "state"   -> [r EXCEPT !.state = m.by]
      [] m.kind = "bye"     -> r

\* The broker reads the next packet.  DISCONNECT ends the session and
\* discards its will.
BrokerReads ==
    /\ Reachable
    /\ session # 0
    /\ wire # <<>>
    /\ wire' = Tail(wire)
    /\ retained' = Apply(Head(wire), retained)
    /\ session' = IF Head(wire).kind = "bye" THEN 0 ELSE session
    /\ acks' = IF QoS > 0 /\ status = "connected" THEN acks \cup {Head(wire)} ELSE acks
    /\ early' = (early /\ Head(wire).kind # "disco")
    /\ UNCHANGED <<procVars, status, epoch, store, resend, released,
                   published, restarts, raced, settled, orphaned,
                   forgot>>

\* The broker gives a session up without DISCONNECT: the peer closed the
\* socket, or nothing was heard for one and a half keepalive periods.
BrokerDrops ==
    /\ session # 0
    /\ session' = 0
    /\ retained' = Will(retained)
    /\ UNCHANGED <<procVars, clientVars, published, restarts, history>>

\* The broker restarts: sessions and wills are gone, retained messages
\* survive if it persists them.
BrokerRestart ==
    /\ restarts < MaxRestarts
    /\ restarts' = restarts + 1
    /\ session' = 0
    /\ orphaned' = TRUE
    /\ \/ retained' = retained /\ forgot' = forgot
       \/ retained' = Blank /\ forgot' = TRUE
    /\ UNCHANGED <<procVars, clientVars, published, raced, early, settled>>
-----------------------------------------------------------------------------
(***************************************************************************)
(* Announce, in the OnConnect goroutine of connection e: the discovery     *)
(* message, and once its token is complete the availability.  An error of  *)
(* either publish ends it; nothing tries again before the next connection. *)
(***************************************************************************)
AnnouncerAt(e, from, to) ==
    /\ announcer[e] = from
    /\ announcer' = [announcer EXCEPT ![e] = to]
    /\ released' = released \ {e}

UnchangedByAnnounce ==
    UNCHANGED <<main, stop, brokerVars, published, restarts, raced, settled, orphaned, forgot>>

UnchangedByReturn == UNCHANGED <<status, epoch, store, resend, wire, acks, early>>

AnnounceDisco(e) ==
    /\ AnnouncerAt(e, "start", "discoWait")
    /\ Publish(Disco(e))
    /\ UNCHANGED early
    /\ UnchangedByAnnounce

\* Wrong variant: online is published without waiting for the discovery.
AnnounceOnlineAtOnce(e) ==
    /\ AnnouncerAt(e, "discoWait", "onlineWait")
    /\ Publish(Online(e))
    /\ UNCHANGED early
    /\ UnchangedByAnnounce
AnnounceOnline(e) ==
    /\ Complete(e, Disco(e))
    /\ AnnouncerAt(e, "discoWait", "onlineWait")
    /\ Publish(Online(e))
    /\ early' = (early \/ (Disco(e) \in store /\ ~retained.disco))
    /\ UnchangedByAnnounce

AnnounceReturns(e) ==
    /\ Complete(e, Online(e))
    /\ AnnouncerAt(e, "onlineWait", "done")
    /\ UnchangedByReturn
    /\ UnchangedByAnnounce

\* Wrong variant: a publish that timed out counts as a success.
AnnounceIgnoresError(e) ==
    /\ \/ GivesUp(Disco(e)) /\ AnnouncerAt(e, "discoWait", "done")
       \/ GivesUp(Online(e)) /\ AnnouncerAt(e, "onlineWait", "done")
    /\ UnchangedByReturn
    /\ UnchangedByAnnounce
AnnounceFails(e) ==
    /\ \/ GivesUp(Disco(e)) /\ AnnouncerAt(e, "discoWait", "failed")
       \/ GivesUp(Online(e)) /\ AnnouncerAt(e, "onlineWait", "failed")
    /\ UnchangedByReturn
    /\ UnchangedByAnnounce

Announce(e) == \/ AnnounceDisco(e)
               \/ AnnounceOnline(e)
               \/ AnnounceReturns(e)
               \/ AnnounceFails(e)
-----------------------------------------------------------------------------
(***************************************************************************)
(* The main goroutine: NewMQTT, the poll loop, Close.                      *)
(***************************************************************************)
\* The process is gone: its goroutines, its in-memory store, its socket.
Vanish(last) ==
    /\ main' = last
    /\ announcer' = [e \in Epochs |-> "none"]
    /\ store' = {}
    /\ resend' = {}
    /\ released' = {}
    /\ acks' = {}
    /\ settled' = FALSE
    /\ UNCHANGED <<raced, early, orphaned, forgot>>

UnchangedByMain == UNCHANGED <<announcer, released, brokerVars, restarts, early, orphaned, forgot>>

\* NewMQTT's connect token completes with the first connection.
NewMQTTReturns ==
    /\ main = "connecting"
    /\ status # "connecting"
    /\ main' = "starting"
    /\ UNCHANGED <<stop, clientVars, published, raced, settled>>
    /\ UnchangedByMain

\* The connect token's 30 s are over: run returns the error before Close is
\* deferred.  OnConnect may already be running.
ConnectTimesOut ==
    /\ main = "connecting"
    /\ Vanish("dead")
    /\ status' = "gone"
    /\ wire' = <<>>
    /\ UNCHANGED <<stop, epoch, brokerVars, published, restarts>>

\* Readiness is signalled and signal.NotifyContext installed.
StartsPolling ==
    /\ main = "starting"
    /\ main' = "pass"
    /\ UNCHANGED <<stop, clientVars, published, raced, settled>>
    /\ UnchangedByMain

\* No state of an earlier pass waits to be written again.
NoneOlder == \A m \in resend : m.kind # "state"

\* One pass that is due.  PublishState's wait, however it ends, only delays
\* the select that follows: the error is logged.
\* Wrong variant: a pass is left out while the one before is unacknowledged.
SkipWhileUnacknowledged ==
    /\ main = "pass"
    /\ published < MaxStates
    /\ published' = published + 1
    /\ IF \E m \in store : m.kind = "state"
       THEN UNCHANGED clientVars
       ELSE Publish(StateMsg(published + 1))
    /\ settled' = (status = "connected" /\ NoneOlder)
    /\ main' = "select"
    /\ UNCHANGED <<stop, raced>>
    /\ UnchangedByMain
PublishState ==
    /\ main = "pass"
    /\ published < MaxStates
    /\ published' = published + 1
    /\ Publish(StateMsg(published + 1))
    /\ settled' = (status = "connected" /\ NoneOlder)
    /\ main' = "select"
    /\ UNCHANGED <<stop, raced>>
    /\ UnchangedByMain

\* One pass that is not due, which only pings the watchdog.
SkipsPublish ==
    /\ main = "pass"
    /\ main' = "select"
    /\ UNCHANGED <<stop, clientVars, published, raced, settled>>
    /\ UnchangedByMain

Tick ==
    /\ main = "select"
    /\ main' = "pass"
    /\ UNCHANGED <<stop, clientVars, published, raced, settled>>
    /\ UnchangedByMain

\* SIGTERM or SIGINT once NotifyContext is installed; before that the signal
\* kills the process, which is Kill.
Signal ==
    /\ main \in {"pass", "select"}
    /\ ~stop
    /\ stop' = TRUE
    /\ UNCHANGED <<main, clientVars, published, raced, settled>>
    /\ UnchangedByMain

\* An announcement is under way, or an old one waits to be written again.
Announcing == \/ \E e \in Epochs : Active(e)
              \/ \E m \in resend : m.kind = "online"

\* The select takes ctx.Done and poll returns; the deferred Close publishes
\* offline.
\* Wrong variants: Close leaves the marking to the will; Close waits for a
\* connection.
CloseWithoutOffline ==
    /\ main = "select"
    /\ stop
    /\ main' = "closing"
    /\ raced' = (raced \/ Announcing)
    /\ UNCHANGED <<stop, clientVars, published, settled>>
    /\ UnchangedByMain
CloseWhenConnected ==
    /\ main = "select"
    /\ stop
    /\ status = "connected"
    /\ main' = "closing"
    /\ Publish(Offline)
    /\ raced' = (raced \/ Announcing)
    /\ UNCHANGED <<stop, published, settled>>
    /\ UnchangedByMain
Close ==
    /\ main = "select"
    /\ stop
    /\ main' = "closing"
    /\ Publish(Offline)
    /\ raced' = (raced \/ Announcing)
    /\ UNCHANGED <<stop, published, settled>>
    /\ UnchangedByMain

\* The wait for offline ends, acknowledged or not; Disconnect(1000) writes
\* DISCONNECT behind what is already written, or just stops a client that is
\* reconnecting; the process exits.
Disconnect ==
    /\ main = "closing"
    /\ Vanish("stopped")
    /\ \/ /\ status = "connected"
          /\ status' = "closing"
          /\ wire' = Append(wire, Bye)
       \/ /\ status # "connected"
          /\ status' = "gone"
          /\ wire' = <<>>
    /\ UNCHANGED <<stop, epoch, brokerVars, published, restarts>>

\* Power loss, SIGKILL by the watchdog or by the stop timeout, a crash, a
\* signal before NotifyContext or a second one during Close.
Kill ==
    /\ Running
    /\ Vanish("dead")
    /\ status' = "gone"
    /\ wire' = <<>>
    /\ UNCHANGED <<stop, epoch, brokerVars, published, restarts>>

\* Restart=always, or an operator.
Restart ==
    /\ ~Running
    /\ restarts < MaxRestarts
    /\ restarts' = restarts + 1
    /\ main' = "connecting"
    /\ stop' = FALSE
    /\ status' = "connecting"
    /\ wire' = <<>>
    /\ UNCHANGED <<announcer, epoch, store, resend, released, acks, brokerVars,
                   published, history>>
-----------------------------------------------------------------------------
Next ==
    \/ Connect \/ Resume \/ Acknowledged \/ ConnectionLost
    \/ BrokerReads \/ BrokerDrops \/ BrokerRestart
    \/ \E e \in Epochs : Announce(e)
    \/ NewMQTTReturns \/ ConnectTimesOut \/ StartsPolling
    \/ PublishState \/ SkipsPublish \/ Tick \/ Signal
    \/ Close \/ Disconnect \/ Kill \/ Restart

Spec == Init /\ [][Next]_vars
-----------------------------------------------------------------------------
(***************************************************************************)
(* Fairness: every wait of the program ends (each has a timeout), the      *)
(* broker reads what reached it, a broken connection is noticed by both    *)
(* keepalives.  The select of the poll loop picks at random between a tick *)
(* and ctx.Done when both are ready, so taking ctx.Done is strongly fair.  *)
(* Nothing is assumed of signals, crashes, losses or reconnections.        *)
(***************************************************************************)
Fairness ==
    /\ WF_vars(NewMQTTReturns \/ ConnectTimesOut)
    /\ WF_vars(StartsPolling)
    /\ WF_vars(PublishState \/ SkipsPublish)
    /\ WF_vars(Tick)
    /\ SF_vars(Close)
    /\ WF_vars(Disconnect)
    /\ \A e \in Epochs : WF_vars(Announce(e))
    /\ WF_vars(Resume)
    /\ WF_vars(Acknowledged)
    /\ WF_vars(BrokerReads)
    /\ WF_vars(BrokerDrops /\ ~Reachable)
    /\ WF_vars(ConnectionLost /\ ~Reachable)

FairSpec == Spec /\ Fairness
-----------------------------------------------------------------------------
(***************************************************************************)
(* Safety.                                                                 *)
(***************************************************************************)
\* A broker that holds no session of this node, and so no will that could
\* still correct the picture, does not show it online.  The two exceptions
\* are named: an announcement that overlapped Close, and a broker restart
\* nobody reconnected after.  (The will of NewMQTT, the offline of Close and
\* the order of both on the wire.)
NoSessionNoOnline ==
    session = 0 /\ retained.avail = "online" => raced \/ orphaned

\* The process the broker last heard of is still there, ...
Attached == status \in {"connected", "reconnecting"}
\* ... and a discovery of it is about to be published or not acknowledged yet.
DiscoDue == \E e \in Epochs : announcer[e] = "start" \/ Disco(e) \in store

\* With acknowledged delivery, a node shown online is one Home Assistant has
\* been told how to read, whatever is lost and written again in whatever
\* order.  The one exception is named: after a reconnection an announcement may
\* go on without the acknowledgement it waits for; then the discovery is still
\* on its way, unless the process, and soon its session, is gone.  (Announce
\* waits for the discovery before it says online.)
OnlineIsDiscoverable ==
    QoS > 0 /\ retained.avail = "online" /\ ~forgot
    => retained.disco \/ (early /\ (Attached => DiscoDue))

Live == status = "connected" /\ session = epoch /\ session # 0
AvailOnWire == \E i \in 1..Len(wire) : wire[i].kind \in {"online", "offline"}

\* Once Announce has returned without error on the live connection, and
\* until Close, the broker has the discovery and shows the node online,
\* unless an availability message is still on the wire: the will of a
\* session taken over, messages of earlier connections written again and a
\* broker that forgot everything do not undo it.  (OnConnect on every
\* connection, Announce, the will.)
AnnouncedShowsOnline ==
    /\ Live
    /\ \E e \in Epochs : e = epoch /\ announcer[e] = "done"
    /\ main # "closing"
    /\ ~AvailOnWire
    => retained.avail = "online" /\ retained.disco

\* The damage a reordered resend can do ends with the next pass: a state
\* published when no older one is left to be written again is the one the
\* broker shows, as soon as no state is on its way, until the connection ends.
\* Before that an older state may replace a newer one.  (PublishState, and the
\* client's store, which is written again in no fixed order.)
LatestShown ==
    /\ settled /\ Live
    /\ \A i \in 1..Len(wire) : wire[i].kind # "state"
    => retained.state = published

\* A deliberately stopped daemon is not left showing online: once the broker
\* has read everything and holds no session, the availability is not online.
\* (Close, and the comment above it.)
StoppedShowsOffline ==
    main = "stopped" /\ session = 0 => retained.avail # "online"
-----------------------------------------------------------------------------
(***************************************************************************)
(* The inductive invariants behind these (see TransportProofs).            *)
(***************************************************************************)
ClosingOnLine == main = "closing" /\ status = "connected"

\* Whatever the broker still reads, the last word is not online.
OfflineWins ==
    \/ \E i \in 1..Len(wire) :
          /\ wire[i].kind = "offline"
          /\ \A j \in 1..Len(wire) : j > i => wire[j].kind # "online"
    \/ /\ retained.avail # "online"
       /\ \A j \in 1..Len(wire) : wire[j].kind # "online"

\* While an undisturbed Close is under way, and after it, nothing can put
\* online behind its offline, and DISCONNECT is the last packet written.
CloseInv ==
    /\ NoSessionNoOnline
    /\ status = "closing" => main = "stopped"
    /\ ClosingOnLine /\ ~raced => ~Announcing
    /\ (ClosingOnLine \/ status = "closing") /\ ~raced => OfflineWins
    /\ \A i \in 1..Len(wire) :
          wire[i].kind = "bye" => status = "closing" /\ i = Len(wire)
    /\ \A m \in store \cup resend : m.kind # "bye"

\* As long as the broker lacks the discovery, it is on its way, whoever waits for
\* its acknowledgement is still waiting, and unless one of them went on without
\* it no message that says online exists anywhere.
Lacking == QoS > 0 /\ ~forgot /\ ~retained.disco
DiscoveryComes ==
    /\ \A m \in acks : m.kind # "disco"
    /\ \A e \in Epochs : announcer[e] = "discoWait" => Disco(e) \in store
    /\ Attached => DiscoDue
OnlineNowhere ==
    /\ retained.avail # "online"
    /\ \A m \in store \cup resend : m.kind # "online"
    /\ \A i \in 1..Len(wire) : wire[i].kind # "online"

DiscoveryInv == Lacking => DiscoveryComes /\ (~early => OnlineNowhere)

\* Only Close says offline, so until it does the messages of an announcement,
\* each where it was published or already applied, are not undone, and online
\* is not read before the discovery.
OnWire(kind) == \E i \in 1..Len(wire) : wire[i].kind = kind
DiscoThenOnline ==
    \E i, j \in 1..Len(wire) : /\ i < j
                               /\ wire[i].kind = "disco" /\ wire[j].kind = "online"

AnnouncedInv ==
    /\ \A e \in Epochs : e > epoch => announcer[e] = "none"
    /\ main # "closing" =>
          /\ \A m \in store \cup resend : m.kind # "offline"
          /\ status = "connected" => ~OnWire("offline")
    /\ Live /\ main # "closing" =>
          \A e \in Epochs : e = epoch =>
             /\ announcer[e] = "discoWait" => retained.disco \/ OnWire("disco")
             /\ announcer[e] \in {"onlineWait", "done"} =>
                   /\ retained.disco \/ DiscoThenOnline
                   /\ retained.avail = "online" \/ OnWire("online")

\* Once the rewriting is over, the last state written, or else the one shown,
\* is the latest.
LatestLast ==
    \/ \E i \in 1..Len(wire) :
          /\ wire[i] = StateMsg(published)
          /\ \A j \in 1..Len(wire) : j > i => wire[j].kind # "state"
    \/ /\ retained.state = published
       /\ ~OnWire("state")

LatestInv ==
    /\ settled /\ status = "connected" => NoneOlder
    /\ settled /\ Live => LatestLast

TransportInv == CloseInv /\ DiscoveryInv /\ AnnouncedInv /\ LatestInv
-----------------------------------------------------------------------------
(***************************************************************************)
(* What all of this amounts to at the broker (see Availability).           *)
(***************************************************************************)
Avail == INSTANCE Availability
             WITH known <- retained.disco, shown <- retained.avail,
                  attended <- session # 0, hasty <- raced, early <- early,
                  orphaned <- orphaned, forgot <- forgot

\* The transport implements Availability: each of its steps is a step the
\* promise allows, or changes nothing a subscriber of the broker can see.
\* (NewMQTT, Announce and Close together.)
ImplementsAvailability == Avail!Spec
-----------------------------------------------------------------------------
(***************************************************************************)
(* Liveness.                                                               *)
(***************************************************************************)
AnnounceFailed == \E e \in Epochs : e = epoch /\ announcer[e] = "failed"

\* Every connection that stays up ends in a node that is discoverable and
\* online, the first one and each reconnection, also after a broker that
\* lost its retained messages, unless its Announce reported an error.
\* (OnConnect runs Announce on every connection.)
ConnectionAnnounced ==
    Live ~> \/ retained.avail = "online" /\ retained.disco
            \/ AnnounceFailed
            \/ ~Live
            \/ main = "closing"

\* A signal taken by the poll loop ends the process, also when the broker is
\* unreachable.  (The bounded waits of publish and Close.)
StopTerminates == stop ~> ~Running

\* A node that lost power, crashed or was killed while the broker held its
\* session does not stay online.  (SetWill before Connect.)
PowerLossShown ==
    main = "dead" /\ session # 0
    ~> retained.avail # "online" \/ main # "dead" \/ orphaned

\* A connection that stays up gets its node marked online.  (What the
\* comment of Announce promises; there is no second attempt.)
ConnectedIsMarkedOnline ==
    Live ~> retained.avail = "online" \/ ~Live \/ main = "closing"
=============================================================================
