--------------------------------- MODULE Poll ---------------------------------
(***************************************************************************)
(* The work loop of cmd/sparkwrangler/main.go (poll, observe, watchdogTick)*)
(* in discrete time, under systemd's watchdog: when it publishes, when it  *)
(* pings, and what a slow engine, a slow broker, a hung nvidia-smi or a    *)
(* stop request do to both.                                                *)
(*                                                                         *)
(* All times are durations, in one unit; every timer is kept as an age or  *)
(* a remaining time, so that no clock grows.  An operation may end at any  *)
(* time up to its limit; time passes (Elapse) unless something is overdue. *)
(***************************************************************************)
EXTENDS Naturals

CONSTANTS
    Interval,        \* cfg.Interval
    WatchdogSec,     \* the unit's WatchdogSec, 0 when the watchdog is off
    VLLMTimeout,     \* cfg.VLLMTimeout, the limit of one HTTP request
    SmiTime,         \* the longest run of an nvidia-smi that does end
    PublishTimeout,  \* publish's wait for its token
    Jitter,          \* the longest delay of a goroutine that is ready to run
    WithVLLM         \* FALSE in worker mode

ASSUME TimesAssumption == /\ Interval \in Nat \ {0}
                          /\ WatchdogSec \in Nat /\ WatchdogSec # 1
                          /\ VLLMTimeout \in Nat
                          /\ SmiTime \in Nat
                          /\ PublishTimeout \in Nat
                          /\ Jitter \in Nat
                          /\ WithVLLM \in BOOLEAN

VARIABLES
    pc,         \* where the loop is
    inPhase,    \* time spent in the current blocking operation
    untilTick,  \* time until the ticker fires next
    pending,    \* the ticker's channel holds a tick
    late,       \* how long the select has been ready
    sincePing,  \* time since READY or the last WATCHDOG=1
    sincePub,   \* time since the start of the last pass that published
    wedged,     \* nvidia-smi hangs
    stop,       \* ctx is cancelled
    stopAge     \* time since it was

vars == <<pc, inPhase, untilTick, pending, late, sincePing, sincePub,
          wedged, stop, stopAge>>
-----------------------------------------------------------------------------
\* Half of WatchdogSec, as sdnotify reads it from WATCHDOG_USEC.
WatchdogInterval == WatchdogSec \div 2

watchdogTick(interval, watchdog) ==
    IF watchdog > 0 /\ watchdog < interval THEN watchdog ELSE interval

TickPeriod == watchdogTick(Interval, WatchdogInterval)

\* The blocking operations of one pass that publishes, in order.
EnginePhases == {"health", "models", "metrics"}
Phases == EnginePhases \cup {"smi", "publish"}

PhaseLimit(p) == CASE p = "publish"         -> PublishTimeout
                   [] p = "smi"             -> SmiTime
                   [] p \in EnginePhases    -> VLLMTimeout

\* How long an operation may take.  A cancelled ctx ends the HTTP requests
\* and the nvidia-smi it was passed to; publish takes no ctx.
\* Wrong variant: observe is not passed the ctx.
LimitWithoutCtx(p) == PhaseLimit(p)
Limit(p) == IF stop /\ p # "publish" THEN 0 ELSE PhaseLimit(p)

\* The longest time from the start of a pass to the start of an operation.
Before(p) == CASE p = "health"  -> 0
               [] p = "models"  -> VLLMTimeout
               [] p = "metrics" -> 2 * VLLMTimeout
               [] p = "smi"     -> 3 * VLLMTimeout
               [] p = "publish" -> 3 * VLLMTimeout + SmiTime

WorkMax == 3 * VLLMTimeout + SmiTime + PublishTimeout

FirstPhase == IF WithVLLM THEN "health" ELSE "smi"

TypeOK ==
    /\ pc \in Phases \cup {"top", "select", "returned", "killed"}
    /\ inPhase \in Nat
    /\ untilTick \in 1..TickPeriod
    /\ pending \in BOOLEAN
    /\ late \in Nat
    /\ sincePing \in Nat
    /\ sincePub \in Nat
    /\ wedged \in BOOLEAN
    /\ stop \in BOOLEAN
    /\ stopAge \in Nat

\* READY has just been sent; nextPublish is the zero time, so the first pass
\* publishes.
Init ==
    /\ pc = "top"
    /\ inPhase = 0
    /\ untilTick = TickPeriod
    /\ pending = FALSE
    /\ late = 0
    /\ sincePing = 0
    /\ sincePub = Interval
    /\ wedged = FALSE
    /\ stop = FALSE
    /\ stopAge = 0
-----------------------------------------------------------------------------
\* now is not before nextPublish, which is the start of the last publishing
\* pass plus the interval.
\* Wrong variant: the interval is added twice.
DueTwice == sincePub >= 2 * Interval
Due == sincePub >= Interval

Running == pc \in Phases \cup {"top", "select"}

\* sd.Watchdog, sent after the work, and back to the select.
\* Wrong variant: the pass is not followed by a ping.
NoPing ==
    /\ pc' = "select"
    /\ inPhase' = 0
    /\ late' = 0
    /\ UNCHANGED sincePing
Ping ==
    /\ pc' = "select"
    /\ inPhase' = 0
    /\ late' = 0
    /\ sincePing' = 0

\* The top of the loop: now is sampled; the pass publishes or only pings.
PassPublishes ==
    /\ pc = "top"
    /\ Due
    /\ pc' = FirstPhase
    /\ inPhase' = 0
    /\ sincePub' = 0
    /\ UNCHANGED <<untilTick, pending, late, sincePing, wedged, stop, stopAge>>

PassSkips ==
    /\ pc = "top"
    /\ ~Due
    /\ Ping
    /\ UNCHANGED <<untilTick, pending, sincePub, wedged, stop, stopAge>>

GoTo(p) ==
    /\ pc' = p
    /\ inPhase' = 0
    /\ UNCHANGED <<untilTick, pending, late, sincePing, sincePub, wedged, stop, stopAge>>

\* vc.Read: an unhealthy engine is not asked further; a model list that
\* cannot be had does not stop the metrics.  A cancelled ctx fails them all.
HealthAnswers == pc = "health" /\ ~stop /\ GoTo("models")
HealthFails == pc = "health" /\ GoTo("smi")
ModelsEnds == pc = "models" /\ GoTo("metrics")
MetricsEnds == pc = "metrics" /\ GoTo("smi")

SmiEnds == pc = "smi" /\ ~wedged /\ GoTo("publish")

\* nvidia-smi is run with no timeout of its own.
SmiHangs ==
    /\ pc = "smi"
    /\ ~wedged
    /\ wedged' = TRUE
    /\ UNCHANGED <<pc, inPhase, untilTick, pending, late, sincePing, sincePub, stop, stopAge>>

PublishEnds ==
    /\ pc = "publish"
    /\ Ping
    /\ UNCHANGED <<untilTick, pending, sincePub, wedged, stop, stopAge>>

\* The select takes the tick.
TakesTick ==
    /\ pc = "select"
    /\ pending
    /\ pending' = FALSE
    /\ pc' = "top"
    /\ late' = 0
    /\ UNCHANGED <<inPhase, untilTick, sincePing, sincePub, wedged, stop, stopAge>>

\* The select takes ctx.Done: STOPPING=1 is sent and poll returns to the
\* deferred Close.  When a tick is there too, Go picks one of them at random.
TakesDone ==
    /\ pc = "select"
    /\ stop
    /\ pc' = "returned"
    /\ UNCHANGED <<inPhase, untilTick, pending, late, sincePing, sincePub, wedged,
                   stop, stopAge>>

Signal ==
    /\ Running
    /\ ~stop
    /\ stop' = TRUE
    /\ UNCHANGED <<pc, inPhase, untilTick, pending, late, sincePing, sincePub, wedged,
                   stopAge>>

\* systemd aborts a service it has not heard from for WatchdogSec.
WatchdogExpired == WatchdogSec > 0 /\ sincePing >= WatchdogSec
WatchdogKills ==
    /\ Running
    /\ WatchdogExpired
    /\ pc' = "killed"
    /\ UNCHANGED <<inPhase, untilTick, pending, late, sincePing, sincePub, wedged, stop,
                   stopAge>>

Ready == pc = "select" /\ (pending \/ stop)

\* A ticker drops the tick its channel has no room for.
\* Wrong variant: it fires one unit too late.
TickerLate ==
    IF untilTick = 0
    THEN untilTick' = TickPeriod /\ pending' = TRUE
    ELSE untilTick' = untilTick - 1 /\ UNCHANGED pending
Ticker ==
    IF untilTick = 1
    THEN untilTick' = TickPeriod /\ pending' = TRUE
    ELSE untilTick' = untilTick - 1 /\ UNCHANGED pending

\* Ages stop growing beyond anything the program or a property compares.
AgeCap == 2 * (Interval + TickPeriod + WatchdogSec + 3 * Jitter + PublishTimeout + WorkMax)
Older(age) == IF age < AgeCap THEN age + 1 ELSE age

\* Only the loop pings.
\* Wrong variant: a goroutine of its own pings at every tick.
PingAgesElsewhere == sincePing' = IF untilTick = 1 THEN 0 ELSE Older(sincePing)
PingAges == sincePing' = Older(sincePing)

\* One unit of time passes.
TimePasses ==
    /\ pc \in Phases \cup {"select"}
    /\ Ready => late < Jitter
    /\ pc \in Phases /\ ~wedged => inPhase < Limit(pc)
    /\ inPhase' = IF pc \in Phases THEN Older(inPhase) ELSE 0
    /\ late' = IF Ready THEN late + 1 ELSE 0
    /\ Ticker
    /\ PingAges
    /\ sincePub' = Older(sincePub)
    /\ stopAge' = IF stop THEN Older(stopAge) ELSE 0
    /\ UNCHANGED <<pc, wedged, stop>>

\* systemd is at once.
Elapse == ~WatchdogExpired /\ TimePasses

\* The steps of the loop itself.
PollStep ==
    \/ PassPublishes \/ PassSkips
    \/ HealthAnswers \/ HealthFails \/ ModelsEnds \/ MetricsEnds
    \/ SmiEnds \/ SmiHangs \/ PublishEnds
    \/ TakesTick \/ TakesDone

Next == PollStep \/ Signal \/ WatchdogKills \/ Elapse

Spec == Init /\ [][Next]_vars
-----------------------------------------------------------------------------
PingBound == TickPeriod + Jitter + WorkMax
LongerOf(a, b) == IF a >= b THEN a ELSE b
\* How old the last publish may be when the tick of the next one is there.
TickBound == LongerOf(Interval - 1 + TickPeriod, WorkMax)
GapBound == TickBound + Jitter

\* The watchdog leaves room for one whole pass after a late wake-up.
Roomy == WatchdogSec = 0 \/ PingBound < WatchdogSec

\* A loop whose operations all end is never killed by the watchdog, however
\* slow the engine and the broker are within their timeouts, when there is that
\* room.  (watchdogTick and the ping after every pass, due or not.)
HealthyNotKilled == pc = "killed" => wedged

\* A state is published at least this often, whatever is slow and however
\* the wake-ups of the loop jitter: a pass that wakes just before it is due
\* waits for one more tick, and one that outlasts its tick is followed by the
\* next at once.  (The due test and the ticker.)
PublishGap == Running /\ ~wedged => sincePub <= GapBound

\* Passes and ticks are far enough apart for a stop to need few of them, when a
\* publish takes no longer than the given time.
CalmFor(limit) == Interval > limit + 2 * Jitter /\ TickPeriod > limit + 2 * Jitter
Calm == CalmFor(PublishTimeout)

\* Once the signal is there, the loop reaches its Close within two publish
\* timeouts and three wake-ups: one timeout for the publish under way and one
\* for a due pass the select may still choose; a third pass is never due.
\* (The ctx passed to observe, and the select.)
StopIsPrompt ==
    Running /\ ~wedged /\ Calm => stopAge <= 2 * PublishTimeout + 3 * Jitter

\* The inductive invariant behind the first two (see PollProofs): how old the
\* last ping and the last publishing pass can be at each place of the loop.
PollInv ==
    ~wedged =>
        /\ Roomy => pc # "killed"
        /\ pc \in Phases =>
               /\ inPhase <= PhaseLimit(pc)
               /\ sincePing <= TickPeriod + Jitter + Before(pc) + inPhase
               /\ sincePub <= Before(pc) + inPhase
               /\ ~pending => sincePub <= TickPeriod - untilTick
        /\ pc = "select" =>
               /\ late <= Jitter
               /\ sincePing <= IF pending THEN TickPeriod + late ELSE TickPeriod - untilTick
               /\ sincePub <= IF pending
                              THEN TickBound + late
                              ELSE Interval - 1 + (TickPeriod - untilTick)
        /\ pc = "top" =>
               /\ ~pending
               /\ sincePing <= TickPeriod + Jitter
               /\ sincePub <= GapBound

\* A loop that hangs is killed within WatchdogSec of hanging, however far the
\* pass has come and whatever the ticker does meanwhile.  (The ping is sent
\* from the loop, after the work, and from nowhere else.)
WedgeKilledInTime == Running /\ wedged /\ WatchdogSec > 0 => inPhase <= WatchdogSec

WedgeInv ==
    /\ inPhase <= sincePing
    /\ WatchdogSec > 0 => sincePing <= WatchdogSec

\* Since the last tick, as long as no other one is due.
SinceTick == TickPeriod - untilTick

\* The publish that a stop request finds under way, or that follows it, takes no
\* longer than the given time.
Answered(limit) == pc = "publish" /\ ~wedged => stopAge = 0 \/ inPhase <= limit

\* Where a stop request can find the loop, and how far it has come since: no
\* tick taken after it, one tick, or two.  The second of two ticks is recent,
\* so that there cannot be a third.
StopWithin(limit) ==
    /\ ~stop => stopAge = 0
    /\ stop /\ ~wedged /\ CalmFor(limit) =>
        /\ pc \in Phases =>
               \/ stopAge <= IF pc = "publish" THEN inPhase ELSE 0
               \/ /\ sincePub = inPhase
                  /\ pc # "publish" => inPhase = 0
                  /\ \/ /\ stopAge <= limit + Jitter + inPhase
                        /\ pending => SinceTick <= inPhase
                     \/ /\ stopAge <= limit + 2 * Jitter + inPhase
                        /\ ~pending /\ SinceTick <= Jitter + inPhase
        /\ pc = "select" =>
               \/ stopAge <= limit + late
               \/ /\ stopAge <= limit + Jitter + late
                  /\ pending => SinceTick <= late
               \/ /\ stopAge <= limit + 2 * Jitter + late
                  /\ ~pending /\ SinceTick <= Jitter + late
               \/ /\ stopAge <= 2 * limit + Jitter + late
                  /\ sincePub <= limit + late
                  /\ pending => SinceTick <= limit + late
               \/ /\ stopAge <= 2 * limit + 2 * Jitter + late
                  /\ ~pending /\ SinceTick <= limit + Jitter + late
        /\ pc = "top" =>
               \/ stopAge <= limit + Jitter
               \/ stopAge <= limit + 2 * Jitter /\ SinceTick <= Jitter
               \/ /\ stopAge <= 2 * limit + 2 * Jitter
                  /\ sincePub <= limit + Jitter
                  /\ SinceTick <= limit + Jitter
StopInv == StopWithin(PublishTimeout)

LoopInv == PollInv /\ WedgeInv /\ StopInv
=============================================================================
