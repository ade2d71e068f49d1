------------------------------- MODULE Observe -------------------------------
(***************************************************************************)
(* What one node says about its engine: observe of cmd/sparkwrangler,      *)
(* Client.Read of internal/vllm and FromVLLM of internal/publisher, against*)
(* an engine that comes, goes, fails requests, restarts its counters and   *)
(* generates tokens while it is being asked, and a ctx that is cancelled   *)
(* meanwhile.                                                              *)
(*                                                                         *)
(* A payload keeps what the properties tell apart: the values of a scrape  *)
(* are present or absent together, the token counter on its own; the limit *)
(* of the model, which comes with its name, and the values of the          *)
(* accelerator and of the host, which no engine touches, are left out.     *)
(***************************************************************************)
EXTENDS Integers

CONSTANTS
    Interval,     \* the shortest time between two passes that publish
    VLLMTimeout,  \* the limit of one HTTP request
    Models,       \* the names of what an engine may serve
    MaxTokens,    \* bound: the engine's token counter
    MaxIdle       \* bound: time from one pass to the next

ASSUME ConstantsAssumption == /\ Interval \in Nat \ {0}
                              /\ VLLMTimeout \in Nat
                              /\ "none" \notin Models
                              /\ MaxTokens \in Nat
                              /\ MaxIdle \in Nat

VARIABLES
    withVLLM,   \* cfg.VLLMURL is not empty: not worker mode
    engine,     \* the engine: "up", "sick" or "down", its model and its token counter
    cancelled,  \* ctx
    pc,         \* where observe is
    waited,     \* time spent in the current request
    reading,    \* the Reading under construction
    prev,       \* of the Reading of the pass before, the counter: all that is used
    elapsed,    \* now.Sub(prevAt) of the pass under way
    prevAge,    \* time since prevAt
    state,      \* the payload last handed to PublishState
    made,       \* history: tokens generated since the counter was last read
    between,    \* history: tokens generated between the two reads of a rate
    readAge,    \* history: time since the counter was last read
    gap,        \* history: time between the two reads of a rate
    trouble,    \* history: the engine was not up at some time of a /health that failed
    served      \* history: the models served at some time of the pass under way

history == <<made, between, readAge, gap, trouble, served>>
vars == <<withVLLM, engine, cancelled, pc, waited, reading, prev, elapsed, prevAge,
          state, history>>
-----------------------------------------------------------------------------
Absent == -1
Requests == {"health", "models", "metrics"}

Counter == {Absent} \cup 0..MaxTokens

\* The empty name.
Unsaid == "none"
Names == Models \cup {Unsaid}

\* An engine that is down has no counter and serves nothing.
NoEngine == [status |-> "down", model |-> Unsaid, tokens |-> 0]
Engines == [status : {"up", "sick"}, model : Models, tokens : 0..MaxTokens] \cup {NoEngine}

\* The zero Reading.
NoReading == [up |-> FALSE, model |-> Unsaid, gauges |-> FALSE, tokens |-> Absent]
Readings == [up : BOOLEAN, model : Names, gauges : BOOLEAN, tokens : Counter]

\* Tokens over time; over no time it is no rate.
NoRate == [delta |-> 0, over |-> 0]

WorkerState == [up |-> "absent", model |-> Unsaid, caching |-> FALSE, gauges |-> FALSE,
                rate |-> NoRate]
Payloads == [up : {"absent", "true", "false"}, model : Names, caching : BOOLEAN,
             gauges : BOOLEAN, rate : [delta : Nat, over : Nat]]

TypeOK ==
    /\ withVLLM \in BOOLEAN
    /\ engine \in Engines
    /\ cancelled \in BOOLEAN
    /\ pc \in Requests \cup {"idle", "rest", "returned"}
    /\ waited \in 0..VLLMTimeout
    /\ reading \in Readings
    /\ prev \in Counter
    /\ elapsed \in Nat
    /\ prevAge \in Nat
    /\ state \in Payloads
    /\ made \in Nat
    /\ between \in Nat
    /\ readAge \in Nat
    /\ gap \in Nat
    /\ trouble \in BOOLEAN
    /\ served \in SUBSET Models

\* The first pass is due at once, with no reading to compare with.
Init ==
    /\ withVLLM \in BOOLEAN
    /\ engine \in IF withVLLM THEN {e \in Engines : e.tokens = 0} ELSE {NoEngine}
    /\ cancelled = FALSE
    /\ pc = "idle"
    /\ waited = 0
    /\ reading = NoReading
    /\ prev = Absent
    /\ elapsed = 0
    /\ prevAge = Interval
    /\ state = WorkerState
    /\ made = 0
    /\ between = 0
    /\ readAge = 0
    /\ gap = 0
    /\ trouble = FALSE
    /\ served = {}
-----------------------------------------------------------------------------
(***************************************************************************)
(* The engine, the signal and the clock.                                   *)
(***************************************************************************)
\* Nobody looks at the engine in worker mode, or after the daemon has returned.
Watched == withVLLM /\ pc # "returned"
UnchangedByWorld == UNCHANGED <<withVLLM, pc, reading, prev, elapsed, state, between, gap>>

\* The histories run while there is a counter to compare with, and stop growing
\* beyond anything a property compares.
Compares == prev # Absent \/ reading.tokens # Absent
Bump(n, cap) == IF Compares /\ n < cap THEN n + 1 ELSE n

Generates ==
    /\ Watched
    /\ engine.status = "up"
    /\ engine.tokens < MaxTokens
    /\ engine' = [engine EXCEPT !.tokens = @ + 1]
    /\ made' = Bump(made, MaxTokens + 1)
    /\ UNCHANGED <<cancelled, waited, prevAge, readAge, trouble, served>>
    /\ UnchangedByWorld

\* The models of an engine that is up.
Serves(e) == IF e.status = "up" THEN {e.model} ELSE {}

\* It fails requests for a while (or answers them too late), recovers, stops,
\* and comes up again, with its counter at zero and maybe another model.
EngineChanges ==
    /\ Watched
    /\ \/ engine.status = "up" /\ engine' = [engine EXCEPT !.status = "sick"]
       \/ engine.status = "sick" /\ engine' = [engine EXCEPT !.status = "up"]
       \/ engine.status # "down" /\ engine' = NoEngine
       \/ /\ engine.status = "down"
          /\ \E model \in Models :
                engine' = [status |-> "up", model |-> model, tokens |-> 0]
    /\ trouble' = (trouble \/ (pc = "health" /\ engine'.status # "up"))
    /\ served' = IF pc \in Requests THEN served \cup Serves(engine') ELSE served
    /\ UNCHANGED <<cancelled, waited, prevAge, made, readAge>>
    /\ UnchangedByWorld

Signal ==
    /\ ~cancelled
    /\ pc # "returned"
    /\ cancelled' = TRUE
    /\ UNCHANGED <<engine, waited, prevAge, made, readAge, trouble, served>>
    /\ UnchangedByWorld

\* One unit of time, unless a request has to end.
Elapse ==
    /\ pc # "returned"
    /\ IF pc \in Requests
       THEN waited < VLLMTimeout /\ ~cancelled /\ waited' = waited + 1
       ELSE prevAge < MaxIdle /\ UNCHANGED waited
    /\ prevAge' = prevAge + 1
    /\ readAge' = Bump(readAge, 2 * (MaxIdle + 3 * VLLMTimeout) + 1)
    /\ UNCHANGED <<engine, cancelled, made, trouble, served>>
    /\ UnchangedByWorld
-----------------------------------------------------------------------------
(***************************************************************************)
(* Client.Read.                                                            *)
(***************************************************************************)
GoTo(next) == pc' = next /\ waited' = 0

\* Neither touches what observe and poll keep between passes.
UnchangedByRead == UNCHANGED <<withVLLM, engine, cancelled, prev, elapsed, prevAge,
                               state, served>>
UnchangedHistory == UNCHANGED <<made, between, readAge, gap>>

\* One GET: an engine that is up answers it; it fails, within the timeout, when
\* the engine is not, and at once when ctx is cancelled.
Answered == engine.status = "up" /\ ~cancelled
Fails == engine.status # "up" \/ cancelled

\* A pass that is due begins; in worker mode nobody is asked.  (Nothing looks back
\* at the rate of the last payload, which is forgotten here.)
StartsPass ==
    /\ pc = "idle"
    /\ prevAge >= Interval
    /\ GoTo(IF withVLLM THEN "health" ELSE "rest")
    /\ elapsed' = prevAge
    /\ prevAge' = 0
    /\ trouble' = (withVLLM /\ engine.status # "up")
    /\ served' = IF withVLLM THEN Serves(engine) ELSE {}
    /\ state' = [state EXCEPT !.rate = NoRate]
    /\ UNCHANGED <<withVLLM, engine, cancelled, reading, prev>>
    /\ UnchangedHistory

HealthAnswers ==
    /\ pc = "health"
    /\ Answered
    /\ reading' = [reading EXCEPT !.up = TRUE]
    /\ GoTo("models")
    /\ trouble' = FALSE
    /\ UnchangedByRead
    /\ UnchangedHistory

\* Read returns the zero Reading and no error.
HealthFails ==
    /\ pc = "health"
    /\ Fails
    /\ GoTo("rest")
    /\ UNCHANGED <<reading, trouble>>
    /\ UnchangedByRead
    /\ UnchangedHistory

\* servedModel, which may find no model in the answer; whether or not it has one,
\* the metrics are asked for.
ModelsEnds ==
    /\ pc = "models"
    /\ \/ /\ Answered
          /\ \E model \in {engine.model, Unsaid} : reading' = [reading EXCEPT !.model = model]
       \/ Fails /\ UNCHANGED reading
    /\ GoTo("metrics")
    /\ UNCHANGED trouble
    /\ UnchangedByRead
    /\ UnchangedHistory

\* metrics and applyMetrics: each metric of the scrape is there or not.
MetricsAnswer ==
    /\ pc = "metrics"
    /\ Answered
    /\ \E some, counter \in BOOLEAN :
          /\ reading' = [reading EXCEPT
                           !.gauges = some,
                           !.tokens = IF counter THEN engine.tokens ELSE Absent]
          /\ IF counter
             THEN between' = made /\ made' = 0 /\ gap' = readAge /\ readAge' = 0
             ELSE UnchangedHistory
    /\ GoTo("rest")
    /\ UNCHANGED trouble
    /\ UnchangedByRead

\* Up but unscrapable is reported as up.
MetricsFails ==
    /\ pc = "metrics"
    /\ Fails
    /\ GoTo("rest")
    /\ UNCHANGED <<reading, trouble>>
    /\ UnchangedByRead
    /\ UnchangedHistory
-----------------------------------------------------------------------------
(***************************************************************************)
(* FromVLLM, and the end of the pass in poll.                              *)
(***************************************************************************)
\* Wrong variant: a counter that went backwards is not noticed.
tokenRateSigned(r, p, over) ==
    IF r.tokens # Absent /\ p # Absent /\ over > 0
    THEN [delta |-> r.tokens - p, over |-> over]
    ELSE NoRate
tokenRate(r, p, over) ==
    IF r.tokens # Absent /\ p # Absent /\ over > 0 /\ r.tokens >= p
    THEN [delta |-> r.tokens - p, over |-> over]
    ELSE NoRate

\* What is copied before r.Up is looked at, and what after.
Told(r) == [WorkerState EXCEPT !.up = IF r.up THEN "true" ELSE "false",
                               !.model = r.model, !.caching = r.gauges]
Serving(r, p, over) == [Told(r) EXCEPT !.gauges = r.gauges, !.rate = tokenRate(r, p, over)]

\* Wrong variants: the last payload stands while the engine is down; a model that
\* was not listed is taken from it; an engine that cannot be scraped counts as down.
FromVLLMHolding(r, p, over) == IF r.up THEN Serving(r, p, over) ELSE state
FromVLLMRemembering(r, p, over) ==
    IF r.up
    THEN [Serving(r, p, over) EXCEPT !.model = IF @ = Unsaid THEN state.model ELSE @]
    ELSE Told(r)
FromVLLMByScrape(r, p, over) ==
    IF r.up /\ r.gauges THEN Serving(r, p, over) ELSE [Told(r) EXCEPT !.up = "false"]
FromVLLM(r, p, over) == IF r.up THEN Serving(r, p, over) ELSE Told(r)

\* Which reading the next pass compares with: this one, also when it failed.
\* Wrong variant: the last one that had a counter.
KeepsLastGood(r) == IF r.tokens = Absent THEN prev ELSE r.tokens
Keeps(r) == r.tokens

\* The accelerator and the memory add values of their own; the payload is
\* handed to PublishState, whose error changes nothing of what is kept here.
\* What is not kept is forgotten.
Publishes ==
    /\ pc = "rest"
    /\ state' = IF withVLLM THEN FromVLLM(reading, prev, elapsed) ELSE WorkerState
    /\ prev' = Keeps(reading)
    /\ IF prev' = Absent THEN made' = 0 /\ readAge' = 0 ELSE UNCHANGED <<made, readAge>>
    /\ reading' = NoReading
    /\ elapsed' = 0
    /\ between' = 0
    /\ gap' = 0
    /\ GoTo("idle")
    /\ served' = {}
    /\ UNCHANGED <<withVLLM, engine, cancelled, prevAge, trouble>>

\* The select takes ctx.Done.
Returns ==
    /\ pc = "idle"
    /\ cancelled
    /\ pc' = "returned"
    /\ UNCHANGED <<withVLLM, engine, cancelled, waited, reading, prev, elapsed, prevAge,
                   state, history>>

Next ==
    \/ Generates \/ EngineChanges \/ Signal \/ Elapse
    \/ StartsPass \/ HealthAnswers \/ HealthFails \/ ModelsEnds
    \/ MetricsAnswer \/ MetricsFails \/ Publishes \/ Returns

Spec == Init /\ [][Next]_vars

\* Time passes, every request ends within its timeout, and the loop goes on.
Fairness == /\ WF_vars(Elapse)
            /\ WF_vars(StartsPass)
            /\ WF_vars(HealthAnswers \/ HealthFails)
            /\ WF_vars(ModelsEnds)
            /\ WF_vars(MetricsAnswer \/ MetricsFails)
            /\ WF_vars(Publishes)

FairSpec == Spec /\ Fairness
-----------------------------------------------------------------------------
HasRate(payload) == payload.rate.over > 0
SaysNothing(payload) ==
    payload.model = Unsaid /\ ~payload.caching /\ ~payload.gauges /\ ~HasRate(payload)

\* A rate never counts a token that was not generated between the two reads of
\* the counter it is made from, whatever the engine did in between: failed,
\* restarted, or restarted and overtook its old count.  (tokenRate, and the
\* reading poll keeps for the next pass.)
RateNotOverstated ==
    [][pc = "rest" /\ HasRate(state') => state'.rate.delta \in 0..between]_pc

\* The time a rate divides by, from the start of one pass to the start of the
\* next, is off the time between the two reads of the counter by no more than
\* the requests that come before them can take.  A pass without a counter in
\* between must not be skipped over.  (prevAt, prev and elapsed in poll.)
RateOverTheGap ==
    [][pc = "rest" /\ HasRate(state') =>
         /\ state'.rate.over <= gap + 3 * VLLMTimeout
         /\ gap <= state'.rate.over + 3 * VLLMTimeout]_pc

\* A payload says of the engine only what an engine said during that very pass: a
\* model that was served in it, up only if one was up in it, and nothing beside
\* a vllm_up that is not true.  Nothing of the engine before a
\* restart or of a pass before survives, though FromVLLM copies the model and
\* the caching before it looks at Up.  (Read's new Reading and early return,
\* FromVLLM.)
SaysOnlyWhatWasSaid ==
    [][pc = "rest" =>
         /\ state'.model \in served \cup {Unsaid}
         /\ state'.up = "true" => served # {}
         /\ state'.up # "true" => SaysNothing(state')]_pc

\* vllm_up is false only when the engine was not up at some time of the health
\* request, or when the daemon was told to stop; a model list or a scrape that
\* fails is no reason.  (Client.Read.)
BetweenPasses == pc \in {"idle", "returned"}
FalseIsExplained == BetweenPasses /\ state.up = "false" => trouble \/ cancelled

\* An engine that stays away is shown as down, and stays so; one that stays
\* is shown as up.  (The loop around observe, with the reading of each pass.)
Steady(status) == withVLLM /\ ~cancelled /\ ((engine.status = "up") <=> status = "up")
EngineFollowed ==
    /\ <>[]Steady("down") => <>[](state.up = "false")
    /\ <>[]Steady("up") => <>[](state.up = "true")

\* False means "the engine should be here and is not".
FalseMeansDown == BetweenPasses /\ state.up = "false" => trouble
-----------------------------------------------------------------------------
(***************************************************************************)
(* The strengthening for the proofs.                                       *)
(***************************************************************************)
\* What is known of the engine at each place of the pass.
PassInv ==
    /\ pc \in {"idle", "returned", "health"} => reading = NoReading
    /\ pc \in {"models", "metrics"} => reading.up /\ reading.tokens = Absent
    /\ pc = "health" /\ engine.status # "up" => trouble
    /\ pc = "rest" /\ withVLLM /\ ~reading.up => trouble \/ cancelled

\* What was read was said since the pass began, by an engine that was up.
SaidInv ==
    /\ ~reading.up => reading = NoReading
    /\ reading.up => served # {}
    /\ reading.model # Unsaid => reading.model \in served
    /\ pc \in Requests => Serves(engine) \subseteq served

\* The engine's counter has not outrun the one last read by more than what was
\* generated since, restarts or not.
TokensInv ==
    /\ reading.tokens # Absent => engine.tokens <= reading.tokens + made
    /\ prev # Absent /\ reading.tokens = Absent => engine.tokens <= prev + made
    /\ prev # Absent /\ reading.tokens # Absent => reading.tokens <= prev + between

\* A counter is read within the requests of its pass, so that the time since it
\* was read and the time since its pass began are that close.
TimeInv ==
    /\ pc = "health" => prevAge <= waited
    /\ pc = "models" => prevAge <= VLLMTimeout + waited
    /\ pc = "metrics" => prevAge <= 2 * VLLMTimeout + waited
    /\ Compares /\ pc \notin Requests => prevAge <= MaxIdle + 3 * VLLMTimeout
    /\ (prev # Absent /\ BetweenPasses) \/ reading.tokens # Absent
       => readAge <= prevAge /\ prevAge <= readAge + 3 * VLLMTimeout
    /\ prev # Absent /\ pc \in Requests
       => /\ elapsed <= MaxIdle + 3 * VLLMTimeout
          /\ readAge <= elapsed + prevAge
          /\ elapsed + prevAge <= readAge + 3 * VLLMTimeout
    /\ prev # Absent /\ reading.tokens # Absent
       => elapsed <= gap + 3 * VLLMTimeout /\ gap <= elapsed + 3 * VLLMTimeout

ObserveInv ==
    PassInv /\ SaidInv /\ TokensInv /\ TimeInv /\ FalseIsExplained
=============================================================================
