# sparkwrangler: models, checks and proofs

sparkwrangler is a daemon that runs on a vLLM node and publishes what the node
does to Home Assistant over MQTT. It is small, but it stands between four
parties that fail independently of each other: the engine it asks, the broker it
publishes through, `nvidia-smi`, and systemd, which restarts it. This directory
holds TLA+ modules translated from its Go source, TLC configurations that check
them on small instances, and theorems that TLAPS checks for every value of the
parameters.

Paths below are relative to the repository.

## 1. The system

### Components

| component | source | state it keeps | operations |
|---|---|---|---|
| startup | `cmd/sparkwrangler/main.go` (`run`) | none after the start | load the settings, probe the address, connect, defer `Close`, signal readiness, install signal handling, `poll` |
| configuration | `internal/config` | none | flags over environment over defaults, `validate` |
| broker URL and TLS | `internal/publisher/tls.go` | none | `ValidateBrokerURL`, `buildTLSConfig` |
| poll loop and watchdog | `main.go` (`poll`, `observe`, `watchdogTick`) | `prev`, `prevAt`, `nextPublish`, the ticker | a pass that publishes, a pass that only pings, the select |
| MQTT transport | `internal/publisher/mqtt.go` | the client, its message store, the connection | `NewMQTT`, `OnConnect`, `Announce`, `PublishState`, `publish`, `Close` |
| vLLM client | `internal/vllm/client.go` | none | `Read`: `/health`, `/v1/models`, `/metrics` |
| exposition parser | `internal/vllm/metrics.go`, `names.go` | none | `ParseMetrics`, `parseLabels`, the look-ups |
| state payload | `internal/publisher/state.go` | none (the previous `Reading` is the loop's) | `FromVLLM`, `tokenRate`, `WorkerState` |
| discovery payload | `internal/hadiscovery` | constant tables | the device message, the entity catalog and its templates |
| network identity | `internal/host/network.go` | none | `PrimaryMAC`, `defaultRouteInterface`, `ethernetInterfaces`, `readMAC` |
| host memory | `internal/host/host.go` | none | `ReadMemory`, `UsedPct` |
| accelerator adapter | `internal/gpu` | none | `Read`: runs `nvidia-smi` |
| systemd protocol | `internal/sdnotify` | the datagram socket | `Ready`, `Status`, `Watchdog`, `Stopping`, `WatchdogInterval` |
| the unit | `deploy/sparkwrangler.service` | systemd's: start counter, watchdog and stop timers | `Restart=always`, `WatchdogSec`, `StartLimitBurst`, `TimeoutStopSec` |

### How they interact

* The main goroutine calls `observe`, then `PublishState`, then the watchdog
  ping, and then blocks in a select over the ticker and `ctx.Done`. Everything
  in a pass is synchronous; an operation that is slow delays all that follow.
* The MQTT client calls `OnConnect` in a goroutine of its own for the first
  connection and for every reconnection; `OnConnect` calls `Announce`, which
  runs concurrently with the main goroutine and with the announcers of other
  connections. They share nothing but the client.
* The broker keeps three retained messages for the node (discovery,
  availability, state) and, per session, the will. It publishes the will when a
  session ends without DISCONNECT, or when a newer connection takes it over.
* systemd measures the time between two pings, kills, restarts, counts the
  starts and gives up; it sends SIGTERM, which cancels `ctx`.
* Home Assistant reads the state payload through the template each entity of the
  discovery declares: a key that is absent makes the entity unknown.

### What is hard in it

The hazards are listed one by one, at their lines, in `PROJECT.json`. They are of
seven sorts:

1. availability is written by three parties (announcer, `Close`, the broker's
   will) through a store that writes messages again after a reconnection, which
   completes the tokens of those who wait for them, and a state may be written
   again behind a newer one;
2. one wait that gives up (`publish`, 10 s) races the late answer;
3. the watchdog has to cover whatever a pass may wait for, and a due test on a
   sampled time runs on a ticker of the same period;
4. the timers of the unit (start limit, watchdog, stop) are set against the
   timeouts of the program, and neither side checks the other;
5. a rate is made of two counters and two times which are not sampled together,
   against an engine that fails and restarts in between;
6. a value that a source did not give must stay absent through five places
   (reader, reading, state, JSON, template), one of which no Go test runs;
7. a start has many ways to be wrong, found in different places: the search for
   the address, the typed settings, the URL, the TLS options.

### What makes each component correct

| component | properties |
|---|---|
| transport | the availability Home Assistant sees is explained by the state of the daemon (`NoSessionNoOnline`, `AnnouncedShowsOnline`, `PowerLossShown`, and as a whole `ImplementsAvailability`); online does not stand where no discovery is, or is on its way (`OnlineIsDiscoverable`); a settled state is the latest (`LatestShown`); each connection is announced (`ConnectionAnnounced`); a stop ends (`StopTerminates`) |
| poll loop | a slow loop is not killed (`HealthyNotKilled`), a hung one is, in time (`WedgeKilledInTime`); a bound on the time between two publishes (`PublishGap`) and on the way to `Close` (`StopIsPrompt`) |
| under its unit | a hung loop is repaired (`WedgeRepaired`); systemd gives up on an outage (`AttemptsEnd`), and never because of a hung loop alone (`GivesUpForAReason`); a stop is cut short only for a reason (`CutShortOnlyWhenSlow`) |
| reading, over time | no token is counted that was not generated (`RateNotOverstated`), the time a rate divides by is the right one (`RateOverTheGap`); a payload says only what an engine said in that very pass (`SaysOnlyWhatWasSaid`); false has a reason (`FalseIsExplained`) and is reached (`EngineFollowed`) |
| reading, one payload | every entity shows what its source said, or is unknown (`ShowsWhatWasSaid`); a payload is not lost for any other reason than a number that is none (`LostOnlyToNoNumber`); a line is read back as it was written (`LinesRecovered`) |
| network identity | the right interface (`IdentifiesNode`), found if it exists (`AbsentOnlyWhenNone`); the start is refused only for a named one, or a blank name (`RefusesOnlyForNamed`) |
| startup | refused exactly when something is wrong (`RefusesTheFaulty`), connected as asked (`ConnectsAsAsked`), exposed only with a warning (`ExposureIsWarned`) |

## 2. The modules

| module | models | proofs |
|---|---|---|
| `Availability` | what the transport promises at the broker: no client, connection or message in it | |
| `Transport` | `mqtt.go` with the client's store, the connection, the broker and the restarts; implements `Availability` | `TransportProofs`, `AvailabilityProofs` |
| `Poll` | `poll` and `watchdogTick` in discrete time, with systemd's watchdog | `PollProofs` |
| `Service` | `Poll` from start to start, under its unit and against a broker that goes away | `ServiceProofs` |
| `Observe` | `observe`, `Client.Read`, `FromVLLM`, `tokenRate` against a changing engine | `ObserveProofs` |
| `Exposition` | the reader of the Prometheus text format, and the writer it reads from | `PayloadProofs` |
| `Payload` | one pass from what its sources say to what each entity shows; uses `Exposition` | `PayloadProofs` |
| `Network` | `PrimaryMAC` and what `run` does with its result | `NetworkProofs` |
| `Startup` | `config.Load`, the URL and TLS decisions, the warnings, in the order of `run` and `NewMQTT` | `StartupProofs` |

`PROJECT.json` maps each definition that models code to the lines it stands for.
A definition whose comment calls it a *wrong variant* is a bug the code does not
have. It is used by nothing; putting it in the place of the definition it
precedes makes TLC report the property named beside it in `PROJECT.json`, which
shows that the property can fail.

### Transport and Availability

`main` is where the main goroutine is, seen only through what it publishes;
`announcer[e]` is where the `OnConnect` goroutine of connection `e` is; `store`,
`resend`, `wire` and `acks` are the client's unacknowledged messages, those still
to be written on this connection, those written that the broker has not read,
and the acknowledgements on the way back; `released` are the announcers whose
token the writing again has completed; `session` is the connection the broker
holds a will for, and `retained` its three retained messages.

| code | definition |
|---|---|
| `NewMQTT`: `SetCleanSession(false)`, `SetWill`, reconnect | `Publish`, `Connect`, `Resume`, `Awaits`, `Will` |
| `OnConnect` | `OnConnect`, called from `Connect` |
| `Announce` | `AnnounceDisco`, `AnnounceOnline`, `AnnounceReturns`, `AnnounceFails` |
| `publish` (wait of 10 s, error of the token) | `Complete`, `GivesUp` |
| connect token, 30 s | `NewMQTTReturns`, `ConnectTimesOut` |
| `PublishState`, from `poll` | `PublishState`, `SkipsPublish` |
| `Close` and its deferral | `Close`, `Disconnect` |
| SIGTERM, `NotifyContext` | `Signal`; a signal before it is installed is `Kill` |
| unit's `Restart=always`, power loss, SIGKILL | `Restart`, `Kill` |
| broker (external) | `BrokerReads`, `BrokerDrops`, `BrokerRestart`, `Apply` |
| network (external) | `ConnectionLost`, `Acknowledged` |

When a connection comes back, the client claims the id of each message it has
stored for a new token, and completes the token that held it, without an error.
So `publish` returns nil with nothing acknowledged, and an `Announce` that waited
for its discovery goes on to online. `Resume` releases whoever awaits the message
it writes, and `Complete` lets a wait end from the moment the message is due to be
written again, since the claim comes before the write.

Abstractions. What is written again is the store as it is when the broker accepts
the connection; the client reads it a little later, beside `OnConnect`, and a
message published in between may be written twice. The will of a session that is
taken over is published at once: a broker does so before it reads anything of the
new connection. Time is not counted: a wait ends at any moment while its token is
incomplete, which includes every moment a timeout can fall on. The order in
which stored messages are written again is arbitrary; the client's is that of a
map. A connection of which only one side knows is a `session` that differs from
`epoch`, or one the broker has dropped while `status` is still "connected". A
session exists from the moment the client knows of it: a CONNECT whose CONNACK
is lost is not modelled. Packet identifiers and the QoS 2 handshake are not
modelled: for every QoS above 0 a message leaves the store when it is
acknowledged. The will and the offline message are the same payload. States are
numbered in the order they are published, so that one that overtakes another can
be seen.

`Availability` says what a subscriber can rely on: only a node that is known (or
was, before the broker forgot) is shown online; a session that ends without a
goodbye is missed, and shown offline; a node leaves by itself only when it is not
shown online, but for one named exception, `hasty`: it left while an announcement
was under way. The other exception is `early`: an announcement went on to online
without its acknowledgement while the broker had no discovery of the node. It ends
with the next discovery the broker reads. `Transport` states the mapping as `Avail`,
with `raced` for `hasty`.

### Poll

One unit of time is a second of the shipped configuration. Every timer is an age
(`sincePing`, `sincePub`, `late`, `inPhase`, `stopAge`) or a remaining time
(`untilTick`), so no clock grows, and ages stop at `AgeCap`, which exceeds all
that is compared. `pc` is the place in the loop; a pass that publishes goes
through the blocking operations in order: `health`, `models`, `metrics`, `smi`,
`publish`. `nvidia-smi` either ends within `SmiTime` or hangs (`wedged`), as it is
run with no timeout; `Jitter` is how late a goroutine that is ready may run.

| code | definition |
|---|---|
| `watchdogTick`, `WatchdogInterval` | `watchdogTick`, `WatchdogInterval`, `TickPeriod` |
| `now`, `nextPublish`, the due test | `sincePub`, `Due`, `PassPublishes`, `PassSkips` |
| `Client.Read` and its timeout, `exec.CommandContext`, `publish` | `HealthAnswers` ... `PublishEnds`, `Limit` |
| `sd.Watchdog()` | `Ping`; that nothing else pings, `PingAges` |
| select | `TakesTick`, `TakesDone` |
| `time.Ticker` (external) | `Ticker`: a full channel drops the tick |
| systemd's watchdog (external) | `WatchdogKills` |

### Service

`Service` extends `Poll`: every step of the loop is one of its own, and around it
are the start, which fails at once or waits for a broker, `Close`, and systemd.
`unit` is the state of the unit, `unitAge` the time in it or on the stop timer;
`starts` and `window` are systemd's rate limit. `broker` says whether connections are accepted, which
may change at any time; a broker that is there accepts within `ConnectTime`.
`trying`, `refused`, `faulty`, `missed` and `slow` are histories for the properties:
`refused` counts the starts of the interval that found no broker, `faulty` those
that failed before they looked for one.

| code | definition |
|---|---|
| an error of `run` before the connect: settings, named interface, URL, TLS files | `StartFails` |
| `NewMQTT`'s wait for the connect token, `Ready` | `Connects`, `ConnectTimesOut` |
| `poll`, the deferred `Close` with `Disconnect(1000)`, `Stopping` | `Works`, `CloseReturns`, `Quiesce` |
| `Restart=always`, `RestartSec` | `Restarts` |
| `StartLimitIntervalSec`, `StartLimitBurst` | `Counted`, `WindowAges` |
| `WatchdogSec` | `Aborts` |
| `KillSignal`, `TimeoutStopSec` | `Stops`, `StopTimesOut` |

The limit is systemd's: an interval begins with the first start counted in it and
what exceeds the burst is refused. Refused credentials do not end a start at once:
under `SetConnectRetry(true)` the client tries again until the 30 s are over, so they
are a broker that does not accept. While stopping, the watchdog is not armed.
Whether the stop timer begins with the signal or again with STOPPING=1 is left
open.

### Observe

One pass is the three requests, then `FromVLLM`, then the assignment to `prev`
and `prevAt`; the engine generates, fails, stops and restarts with its counter
at zero, and maybe another model, between any two steps. A payload is `up`, the
model, prefix caching, one Boolean for the gauges, and the rate as tokens over time,
not yet divided. `Told` is what `FromVLLM` copies before it looks at `Up`, `Serving`
what it adds. An engine that is replaced in the middle of a pass may give the model
and its successor the scrape: `served` is therefore a set, and the payload of such a
pass a mixture. The variables called history
(`made`, `between`, `readAge`, `gap`, `trouble`, `served`) are what really happened,
for the properties to compare with. Time passes before and within the requests; the
time the accelerator and the publish take is part of the time between passes.

### Exposition and Payload

A line is a sequence of tokens: each character that means something to the format
is one, a run of characters that mean nothing is one. `Exposition` has the writer
(names, labels with quotes and backslashes escaped, a value) and the reader,
operator by operator as in `metrics.go`; a loop of the code is a function defined by
recursion on the place in the text, so that it can be proved about. What the code
keeps in a struct with optional fields, and JSON in an object, is a set of pairs of a
name and a value, built by `Object`: an absent field is a name without a pair.

`Payload` is one pass: the engine writes a scrape, a line at a time, and it is
parsed as it is written; `Client.Read` looks values up and `FromVLLM` copies them;
`nvidia-smi` answers a row, the kernel a `meminfo`, each possibly partial; then
`PublishState` marshals the result or fails. Numbers are their spelling, so that
`h/q*100` is told from `q/h*100` and a value that went through `kibToBytes` from
one that did not. `told` records what the sources said, `Truth` what each entity
ought to show of it, and `Shown` what its template makes of the payload.

| code | definition |
|---|---|
| `parseLine` with `splitNameAndRest`, `splitLabelsAndValue`, `parseLabels` | the same in `Exposition` |
| `Metrics.Value`, `ValueWhere`, `Label` | the same in `Payload` |
| `applyMetrics`, `FromVLLM`, `omitempty` | `applyMetrics`, `FromVLLM` |
| `parseSMI`, `smiFloat` | the same |
| `parseMemInfo`, `UsedPct`, `kibToBytes` | the same |
| `vllmSensors`, `hostSensors`, `optional`, `optionalBinary` | the same |
| `json.Marshal` in `PublishState` | `NoNumber`, `Publishes` |

### Network

`host` is what the machine says: the interfaces under `/sys/class/net`, and the
lines of `/proc/net/route`. The two loops are steps of their own, so that their
invariants can be stated and proved. Interfaces are numbered in the order of
their names. The four exclusions of `isPhysicalEthernet` are kinds of interface,
and an address is missing or malformed, all zero, or the interface's own; the
parsing of a line is reduced to whether it names a default route and whether its
metric is a number. The setting is a name, empty, or white space: `preferred` is
what `PrimaryMAC` sees of it after trimming, and `run` tests it untrimmed, so a
blank one makes the search automatic and its error fatal.

### Startup

An operator writes settings in the environment, then flags, each with a value of
its domain or with something that does not parse. `Registers` resolves the
environment into defaults, `ParsesFlag` overrides; `Validates`, `Probes`,
`ChecksURL`, `BuildsTLS`, `Warns` and `Dials` follow in the order of `run` and
`NewMQTT`, each refusing the start where the code returns an error. `conn` is what
the client options are given. What the operator meant is stated without the
steps: `Asked`, `Faulty`. A file either holds what it should or does not, a key that
belongs to another certificate does not, and QoS is cast to a byte where the code
casts it. `Asked` is defined on the flags that were parsed: `Load` stops at the first
argument that is no flag, and `run` asks for none behind it, so that in
`-tls-insecure false -qos 2` the QoS is never read (`internal/config/config.go:102`).
`EndsFlags` may stop at any argument, but what is behind it is no input of the model.
Levels are `info` and `error`; `slog` takes offsets and any case as well.

### Order of work

1. `Transport` and its proofs, because what it gets wrong is shown to everybody
   as a fact about the node. Done.
2. `Poll` and its proofs. Done.
3. `Observe`, then `ObserveProofs`. Done.
4. `Network` and its proofs. Done.
5. `Availability`, and `Transport` shown to implement it, by TLC and by proof.
   Done.
6. Theorems for `AnnouncedShowsOnline`, `LatestShown`, `WedgeKilledInTime` and
   `StopIsPrompt`. Done.
7. `Service`: start limit, restarts, connect timeout and stop timeout in the time
   of `Poll`. Done.
8. `Startup` and its proofs. Done.
9. `Exposition` and `Payload`. Done.
10. Theorems for whole invariants of `Transport` and `Poll`, and the proofs of
    `Service`. Done.
11. The proofs of `Exposition` and `Payload`. Done.

`Observe` composed with `Poll` would only multiply their states: what they share
is the time between two passes and the moment of a cancellation, and `Observe`
leaves both free. `Transport` composed with `Poll` likewise: `Transport` lets a
wait end at any moment, and `Poll` lets a publish take any time up to its limit.

## 3. The runs

| run | question | bounds |
|---|---|---|
| `transport_qos1` | Is availability right, is the discovery there, is the state the latest, with acknowledged delivery, and is all of it `Availability`? | QoS 1, 2 connections, 2 states, 1 restart of the process or the broker |
| `transport_live` | Is every lasting connection announced, does a stop end, does a power loss show? | QoS 1, 2 connections, no state, 1 restart of the process or the broker; fairness |
| `poll_default` | Does the shipped timing leave the loop alive, publishing and prompt to stop, and is a hung one killed in time? | 15 s interval, WatchdogSec 60, 5 s requests, 10 s publish, `nvidia-smi` 6 s, jitter 1 |
| `service` | Do the unit's timers fit the program's? | shipped values in units of 5 s, but 4 starts in 225 s and a stop of 25 s; fairness |
| `observe` | Do rates and up or down follow the engine? | 2 models, a counter up to 1, one unit per request and between passes; fairness |
| `payload` | Does every entity show what its source said? | a model name of up to 2 characters, 2 lines, 1 odd field in a row |
| `network` | Is the address the right one on every host? | 2 interfaces, 2 routes, 2 metrics and one that does not parse; a name, none or a blank |
| `startup` | Is a start refused exactly when it should be, and connected as asked? | 4 settings in the environment, 1 flag |
| `transport_stop_online`, `transport_never_online`, `poll_long_interval`, `observe_false` | see *Where the code does something else* | each the smallest that shows it |

Why the bounds are enough.

* `transport_*`. Two connections make a message of the first be written again on
  the second, behind or before those of the second's announcer; two states let
  one overtake the other; a restart lets a new process meet its predecessor's
  session and will, or a broker forget. A restart of each in one behaviour is left
  to the theorems, which cover every number of each, and QoS 0 and 2.
* `poll_default` has the real timing, with nothing scaled; `SmiTime` 6 is an
  assumption about an `nvidia-smi` that works. The theorems cover every timing,
  among them a worker's and one where the watchdog sets the pace.
* `service` checks the inductive invariant behind its properties too,
  `SupervisionInv`, whose first conjunct is the type invariant `ServiceTypeOK`. It
  counts in fives because every shipped value but `nvidia-smi`'s time is
  a multiple of 5 s; what is lost is the jitter, which `poll_default` has.
  `Disconnect(1000)` is rounded up to a unit, and `TimeoutStopSec` gets one more than
  the shipped 20 s to make up for it. Four starts in 225 s stand for five in 300 s:
  as there, the outages of a burst fit into the interval, and neither its hangs nor
  one outage and hangs do. The shipped numbers, and all others, are the theorems'.
* `observe`. A counter up to 1 lets an engine fall behind the count that was read,
  and overtake one that was read as 0 after a restart. Two models let one stay
  behind.
* `payload` checks `PayloadInv`, whose first conjunct is the type invariant, for the
  same reason. Two characters are what it takes for an escaped backslash to stand
  before a closing quote, and for a brace to stand before an equals sign; two lines
  are what the hit rate needs and what lets a second sample of one name follow
  the first. One odd field in a row stands beside three good ones, so that a field
  that takes another along would show. The theorems cover names, scrapes and rows
  with any number of characters, lines and odd fields.
* `network`. With two interfaces and two routes each comparison has a winner and
  a loser; the theorems cover all sizes.
* `startup`. Four settings in the environment are a TLS URL, a bundle and a key
  pair, and the flag overrides any of them or spoils a fifth. 257 among the
  numbers is a QoS that would be 1 in a byte. The theorems cover any number.

Deadlock is not checked where the system stops by design: the process has ended
and no restart is left, the loop has returned, the unit has failed or was
stopped, the pass, the probe or the start is over.

Fairness. `Transport`: each wait of the program ends, since `publish` has 10 s,
the connect token 30 s and `Disconnect` 1 s; the client writes what it has
stored, the broker reads what it received; a broken connection is noticed by
the keepalive of either side. All of that is weak fairness. `Close` is strongly
fair, because a select with a tick and `ctx.Done` both ready picks one at random
and cannot pick the tick for ever. Nothing is assumed of signals, crashes, losses
or reconnections. `Service`: time passes, a broker that stays accepts, systemd
does what is due; nothing is assumed of the loop, which the bounds on time drive,
nor of the operator. `Observe`: time passes and each request ends within its
timeout; nothing is assumed of the engine, and `EngineFollowed` speaks of an
engine that stays as it is. `Poll` needs none: a loop that hangs is *bounded* to
be killed within `WatchdogSec`, which is stronger than eventually.

### Where the code does something else

Four runs end in a counterexample. Each contradicts a sentence of the repository.

* `transport_stop_online` / `StoppedShowsOffline`. The comment of `Close` says
  that without its publish "a deliberately stopped daemon would leave its device
  showing online forever". An announcer that passes the discovery while `Close`
  waits publishes online behind the offline; DISCONNECT discards the will, and
  online stays. `NoSessionNoOnline` shows that this overlap (`raced`) is the only
  way, apart from a broker restart.
* `transport_never_online` / `ConnectedIsMarkedOnline`. "Announce publishes the
  retained discovery message and marks the node online". When the discovery's
  acknowledgement takes more than 10 s, `Announce` returns an error, and nothing
  calls it again on this connection.
* `poll_long_interval` / `HealthyNotKilled`. "The watchdog pings independently,
  so a longer interval here does not risk being killed". The ping is sent after a
  pass, so the watchdog must cover a tick and a whole slow pass. With an interval
  of 60 s the tick is 30 s and 30 s are left, which three requests of 5 s,
  `nvidia-smi` of 6 s and a publish of 10 s exceed. `Roomy` states the condition
  under which it holds; the shipped 15 s satisfies it.
* `observe_false` / `FalseMeansDown`. "False means 'the engine should be here and
  is not'". A stop request in the middle of a pass cancels the health request,
  and the pass publishes `vllm_up` false for an engine that is up.

What the other runs say with a condition attached, a reader should know as well:

* `OnlineIsDiscoverable` has an exception, `early`: after a reconnection an
  announcement goes on without the acknowledgement it waited for, and online may be
  read before the discovery. Until the process ends a discovery is then still due,
  and the next one read ends the exception; a process that ends before leaves a will,
  which takes online back.
* `GivesUpForAReason` does not say that an outage is the only reason: one start that
  fails at once costs 10 s instead of 40 s, so five such starts, or one among hangs,
  use the limit up with the broker well.
* `RefusesOnlyForNamed` has an exception, a blank name: `PrimaryMAC` trims it and
  `run` does not (`cmd/sparkwrangler/main.go:53`), so a directory that cannot be
  listed ends a start for which no interface was named.

* `PublishGap` bounds the time between two publishes by almost two intervals, not
  one: `nextPublish` counts from a sampled `now`, so a pass that wakes late makes
  the next tick find itself early.
* `ExposureIsWarned` leaves log level error out: at that level the warning of
  `deploy/sparkwrangler.env.example:42-44` is not shown.
* `LinesRecovered` leaves out the labels of a line one of whose values ends in a
  backslash: `parseLabels` looks one character back for the escape
  (`internal/vllm/metrics.go:131`). The line's name and number survive even so.
* `LostOnlyToNoNumber` names the one way to lose a payload: `nvidia-smi`, or the
  concurrency label, spelling NaN or infinity, which `ParseFloat` takes and
  `json.Marshal` refuses.

## 4. The proofs

Each theorem holds for all values of the constants that satisfy the assumptions
named in the module: bounds and times are natural numbers, a restart delay and a
burst are not zero, `QoS` is 0, 1 or 2,
an interval is not zero, `WatchdogSec` is not 1 (half of it would be no time at
all), a metric is below `MaxInt`, what marks a setting as unset or garbage is no
value of any setting.

* **`TransportProofs`.** `Typing`. `NoSessionNoOnlineHolds` follows from
  `CloseCorrect`, the invariance of `CloseInv`: by itself the property says
  nothing of what is on the wire, and the broker's reading of DISCONNECT could
  discard the will with online as the last word. `CloseInv` adds that during and
  after a Close no announcement overlaps, offline comes after every online the
  broker has still to read, and that DISCONNECT is the last packet, written by a
  process that has stopped. `OnlineIsDiscoverableHolds` follows from
  `DiscoveryInv`: as long as the broker lacks the discovery, one is about to be
  published or stored, none is acknowledged, whoever waits for it has it stored, and
  unless one of them went on early no message that says online is in the store, on
  the wire or to be written again.
* **`AvailabilityProofs`.** `AnnouncedShowsOnlineHolds` from `AnnouncedInv`: until
  Close, nothing says offline but a will that has been read, and each message of
  the current announcement is either applied or on the wire, in order.
  `LatestShownHolds` from `LatestInv`: once nothing is to be written again, the
  last state on the wire, or else the one shown, is the latest. `Implements`: for
  every QoS above 0 the initial states and every step of `Transport` are those of
  `Availability` or a stutter; it needs the invariants above, since that the will
  is discarded only by a node not shown online is `CloseInv`'s doing, and that
  online is applied only to a node that is known is `DiscoveryInv`'s.
  `TransportInvHolds` states all of these invariants together, as the run checks
  them.
* **`PollProofs`.** `Typing` and `AgesBounded`, the invariance of `PollInv`: how
  old the last ping and the last publish can be at each place of the loop. At
  the select an age is bounded by how far the ticker has come, in an operation
  by the limits of those before it and the time spent in it. From it:
  `HealthyNotKilledHolds`, under `Roomy`, and `PublishGapHolds`.
  `WedgeKilledInTimeHolds` from `WedgeInv`: time in an operation is time without a
  ping. `StopIsPromptHolds` from `StopInv`, which follows a stop request through
  no tick, one tick and two, and shows that the second is too recent for a third
  to be due; its condition `Calm` says that passes and ticks are farther apart
  than one publish timeout and two wake-ups. `LoopInvHolds` states the three
  invariants together.
* **`ServiceProofs`.** `Supervision`, the invariance of `SupervisionInv`: every step of
  the process is one of `Poll`, so its bounds carry over from start to start
  (`PollInv`, `StopInv`), and around them are what systemd has counted (`CountInv`)
  and how long that took at least, by what each start ended in (`AtLeastInv`), and at most (`AtMostInv`). From it
  `GivesUpForAReasonHolds` and `AttemptsEndHolds`, and, with `CutInv`, which follows
  the stop timer along the stop request, `CutShortOnlyWhenSlowHolds`.
  `OnlyTheHungAreAborted` is `HealthyNotKilled` carried over to the unit. Each is proved
  for every timing under the condition it needs, which the shipped numbers meet:
  `Spaced`, that no burst of hangs, nor of hangs and one outage, fits into the
  interval (300 s are less than 5 × 70 s and than 40 s + 4 × 70 s); `Contained`, that a
  burst of outages does (5 × 40 s); `StopFits`, that three prompt publishes and three
  late wake-ups, and `Disconnect`'s second, are shorter than `TimeoutStopSec` (16 s of
  20 s, with a publish prompt within 5 s, before any late wake-up); and `Roomy`. They say by how much each of
  these values may be changed.
* **`ObserveProofs`.** `Typing`; `SaysOnlyWhatWasSaidHolds` from `SaidInv`: the reading
  under way is of this pass, and nothing else is copied; `FalseIsExplainedHolds`
  with `PassInv`, what is known of the engine at each place of the pass;
  `RateNotOverstatedHolds` from `TokensInv`: the engine's counter has not outrun
  the one last read by more than what was generated since, restarts or not;
  `RateOverTheGapHolds` from `TimeInv`: the time since the counter was read and
  the time since its pass began differ by no more than the requests of a pass.
* **`StartupProofs`.** `Typing`, and `RefusesTheFaultyHolds`,
  `ConnectsAsAskedHolds` and `ExposureIsWarnedHolds` from `StartupInv`, which says
  what each phase has established about the settings and the connection.
* **`NetworkProofs`.** `Typing` and `ProbeCorrect`, the invariance of `ProbeInv`:
  the loop over the routes holds the preferred line of those it has read, the
  loop over the interfaces the candidates among those it has looked at. From it
  `IdentifiesNodeHolds`, `AbsentOnlyWhenNoneHolds` and `RefusesOnlyForNamedHolds`,
  for tables and directories of every size.
* **`PayloadProofs`.** What the readers compute is proved for texts of every length.
  The induction this takes is by a least counterexample: a set of natural numbers
  that has a member has a least one (`LeastNumber`, from the well-foundedness of the
  inclusion of finite sets), the functions the modules define by recursion exist,
  and two that take the same steps agree. From there the argument follows the data.
  First `parseLabels` after `RenderLabels` is the identity on the labels, key by key,
  except for a value that ends in a backslash, and `parseLine` finds the name, the
  labels and the number of every line (`LinesRecoveredHolds`). Then the look-ups in
  what was parsed return what the first line of that name said. Last,
  `PayloadInv`, by the steps of a pass: what is known of the scrape, of the reading,
  of the state and of the payload once each source has answered. The entities are
  divided among the sources, and what one source adds leaves the names of the others
  alone, which is why one that fails takes nothing along. `PayloadInvHolds` states
  it; `PayloadTyping`, `ShowsWhatWasSaidHolds` and `LostOnlyToNoNumberHolds` follow.

The invariants named here are conjuncts of `TransportInv`, `LoopInv`,
`SupervisionInv`, `PayloadInv` and `ProbeInv`, which the runs check and theorems state
(TLC has checked `ObserveInv` and
`StartupInv` the same way; they add nothing to the runs' own properties).

Only model-checked. Liveness, which the prover cannot treat under fairness:
`ConnectionAnnounced`, `StopTerminates`, `PowerLossShown`, `EngineFollowed`,
`WedgeRepaired`. Every safety property of a passing run is stated by a theorem.

## 5. What is not modelled

* The discovery message beyond which entity reads which key through which
  template on which node: device record, names, units, classes and topics are
  constant data. In `Transport` the message is one value.
* Formatting: how a number is printed or rounded, and a percentage that overflows
  (`pct` of a finite number near the largest). Numbers in `Payload` are texts
  built from what was read and the arithmetic done to it.
* The datagram socket of `sdnotify`, the status line and all other logging but
  the two warnings about exposure.
* `WATCHDOG_PID` is always the daemon's own, as systemd sets it.
* Comment and empty lines of an exposition, which are skipped; a blank and an open
  brace inside a model's name, which the reader treats like any character there.
* `generation_tokens_per_second` in `Payload`, which needs two passes: `Observe` has
  it. The engine there says prefix caching is on, or says nothing of it.
* Settings that are only copied from the environment to where they are used.
* The client library beyond what `mqtt.go` relies on: its store has no limit here
  and packet identifiers do not run out, although a broker that is away for long
  enough makes both grow (`internal/publisher/mqtt.go:230`).
* An address that changes after the start: the probe runs once
  (`cmd/sparkwrangler/main.go:46`), and `Network` is one host at one time.
* The hardening of the unit, which only takes rights away, and the development
  tools.
