---------------------------- MODULE ObserveProofs ----------------------------
(***************************************************************************)
(* Theorems about Observe, for every interval, timeout and counter.  The   *)
(* argument: a counter that is kept for the next pass was read in the pass *)
(* before, within the requests of that pass; since then the engine has     *)
(* generated what it has generated, and may have gone back to zero.        *)
(***************************************************************************)
EXTENDS Observe, TLAPS

LEMMA TypingInit == Init => TypeOK
<1> SUFFICES ASSUME Init
             PROVE  TypeOK
  OBVIOUS
<1>1. engine \in Engines
  BY DEF Init, Engines
<1>2. reading \in Readings /\ prev \in Counter
  BY DEF Init, NoReading, Readings, Names, Counter
<1>3. state \in Payloads
  BY DEF Init, WorkerState, NoRate, Names, Payloads
<1>4. waited \in 0..VLLMTimeout /\ prevAge \in Nat
  BY ConstantsAssumption DEF Init
<1>5. /\ withVLLM \in BOOLEAN /\ cancelled \in BOOLEAN /\ trouble \in BOOLEAN
      /\ served \in SUBSET Models
  BY DEF Init
<1>6. QED
  BY <1>1, <1>2, <1>3, <1>4, <1>5 DEF Init, TypeOK

LEMMA TypingNext == TypeOK /\ [Next]_vars => TypeOK'
<1> SUFFICES ASSUME TypeOK, [Next]_vars
             PROVE  TypeOK'
  OBVIOUS
<1>1. ASSUME Generates
      PROVE  TypeOK'
  <2>1. engine' \in Engines
    BY <1>1, ConstantsAssumption DEF Generates, Engines, NoEngine, TypeOK
  <2>2. made' \in Nat
    BY <1>1, ConstantsAssumption DEF Generates, Bump, TypeOK
  <2>3. QED
    BY <1>1, <2>1, <2>2 DEF Generates, UnchangedByWorld, TypeOK
<1>2. ASSUME EngineChanges
      PROVE  TypeOK'
  <2>1. engine' \in Engines
    BY <1>2, ConstantsAssumption DEF EngineChanges, Engines, NoEngine, TypeOK
  <2>2. Serves(engine') \subseteq Models
    BY <2>1 DEF Serves, Engines, NoEngine
  <2>3. served' \in SUBSET Models /\ trouble' \in BOOLEAN
    BY <1>2, <2>2 DEF EngineChanges, TypeOK
  <2>4. QED
    BY <1>2, <2>1, <2>3 DEF EngineChanges, UnchangedByWorld, TypeOK
<1>3. ASSUME Signal
      PROVE  TypeOK'
  BY <1>3 DEF Signal, UnchangedByWorld, TypeOK
<1>4. ASSUME Elapse
      PROVE  TypeOK'
  BY <1>4, ConstantsAssumption DEF Elapse, UnchangedByWorld, TypeOK, Bump
<1>5. ASSUME StartsPass
      PROVE  TypeOK'
  <2>1. state' \in Payloads
    BY <1>5 DEF StartsPass, NoRate, TypeOK, Payloads
  <2>2. served' \in SUBSET Models
    BY <1>5 DEF StartsPass, Serves, Engines, NoEngine, TypeOK
  <2>3. waited' \in 0..VLLMTimeout /\ pc' \in Requests \cup {"rest"}
    BY <1>5, ConstantsAssumption DEF StartsPass, GoTo, Requests
  <2>4. prevAge' \in Nat /\ elapsed' \in Nat /\ trouble' \in BOOLEAN
    BY <1>5 DEF StartsPass, TypeOK
  <2>5. QED
    BY <1>5, <2>1, <2>2, <2>3, <2>4 DEF StartsPass, UnchangedHistory, TypeOK
<1>6. ASSUME HealthAnswers
      PROVE  TypeOK'
  <2>1. reading' \in Readings
    BY <1>6 DEF HealthAnswers, TypeOK, Readings
  <2>2. waited' \in 0..VLLMTimeout /\ pc' \in Requests
    BY <1>6, ConstantsAssumption DEF HealthAnswers, GoTo, Requests
  <2>3. trouble' \in BOOLEAN
    BY <1>6 DEF HealthAnswers
  <2>4. QED
    BY <1>6, <2>1, <2>2, <2>3 DEF HealthAnswers, UnchangedByRead, UnchangedHistory,
           TypeOK
<1>7. ASSUME HealthFails
      PROVE  TypeOK'
  BY <1>7, ConstantsAssumption DEF HealthFails, GoTo, UnchangedByRead,
         UnchangedHistory, TypeOK
<1>8. ASSUME ModelsEnds
      PROVE  TypeOK'
  <2>1. reading' \in Readings
    BY <1>8 DEF ModelsEnds, Answered, Engines, NoEngine, Names, TypeOK, Readings
  <2>2. waited' \in 0..VLLMTimeout /\ pc' \in Requests
    BY <1>8, ConstantsAssumption DEF ModelsEnds, GoTo, Requests
  <2>3. QED
    BY <1>8, <2>1, <2>2 DEF ModelsEnds, UnchangedByRead, UnchangedHistory, TypeOK
<1>9. ASSUME MetricsAnswer
      PROVE  TypeOK'
  <2>1. PICK some \in BOOLEAN, counter \in BOOLEAN :
           /\ reading' = [reading EXCEPT
                            !.gauges = some,
                            !.tokens = IF counter THEN engine.tokens ELSE Absent]
           /\ IF counter
              THEN between' = made /\ made' = 0 /\ gap' = readAge /\ readAge' = 0
              ELSE UnchangedHistory
    BY <1>9 DEF MetricsAnswer
  <2>2. (IF counter THEN engine.tokens ELSE Absent) \in Counter
    <3>1. engine.tokens \in 0..MaxTokens
      BY ConstantsAssumption DEF TypeOK, Engines, NoEngine
    <3>2. QED
      BY <3>1 DEF Counter
  <2>3. reading' \in Readings
    BY <2>1, <2>2 DEF TypeOK, Readings
  <2>4. made' \in Nat /\ between' \in Nat /\ readAge' \in Nat /\ gap' \in Nat
    BY <2>1 DEF UnchangedHistory, TypeOK
  <2>5. waited' \in 0..VLLMTimeout /\ pc' = "rest"
    BY <1>9, ConstantsAssumption DEF MetricsAnswer, GoTo
  <2>6. QED
    BY <1>9, <2>3, <2>4, <2>5 DEF MetricsAnswer, UnchangedByRead, TypeOK
<1>10. ASSUME MetricsFails
       PROVE  TypeOK'
  BY <1>10, ConstantsAssumption DEF MetricsFails, GoTo, UnchangedByRead,
         UnchangedHistory, TypeOK
<1>11. ASSUME Publishes
       PROVE  TypeOK'
  <2>1. tokenRate(reading, prev, elapsed) \in [delta : Nat, over : Nat]
    BY DEF tokenRate, NoRate, TypeOK, Readings, Counter
  <2>2. reading.gauges \in BOOLEAN /\ reading.model \in Names
    BY DEF TypeOK, Readings
  <2>3. FromVLLM(reading, prev, elapsed) \in Payloads
    <3>1. Told(reading) \in Payloads
      BY <2>2 DEF Told, WorkerState, NoRate, Payloads
    <3>2. Serving(reading, prev, elapsed) \in Payloads
      BY <2>1, <2>2, <3>1 DEF Serving, Payloads
    <3>3. QED
      BY <3>1, <3>2 DEF FromVLLM
  <2>4. WorkerState \in Payloads
    BY DEF WorkerState, NoRate, Names, Payloads
  <2>5. state' \in Payloads
    BY <1>11, <2>3, <2>4 DEF Publishes
  <2>6. prev' \in Counter /\ reading' \in Readings
    BY <1>11 DEF Publishes, Keeps, NoReading, Names, TypeOK, Readings, Counter
  <2>7. waited' \in 0..VLLMTimeout /\ pc' = "idle" /\ made' \in Nat /\ readAge' \in Nat
    BY <1>11, ConstantsAssumption DEF Publishes, GoTo, TypeOK
  <2>8. QED
    BY <1>11, <2>5, <2>6, <2>7 DEF Publishes, TypeOK
<1>12. ASSUME Returns
       PROVE  TypeOK'
  BY <1>12 DEF Returns, history, TypeOK
<1>13. ASSUME UNCHANGED vars
       PROVE  TypeOK'
  BY <1>13 DEF vars, history, TypeOK
<1>14. QED
  BY <1>1, <1>2, <1>3, <1>4, <1>5, <1>6, <1>7, <1>8, <1>9, <1>10, <1>11, <1>12,
         <1>13 DEF Next

\* Type correctness.
THEOREM Typing == Spec => []TypeOK
BY TypingInit, TypingNext, PTL DEF Spec
-----------------------------------------------------------------------------
\* What is known of the engine at each place of the pass.
LEMMA PassNext == TypeOK /\ PassInv /\ [Next]_vars => PassInv'
<1> SUFFICES ASSUME TypeOK, PassInv, [Next]_vars
             PROVE  PassInv'
  OBVIOUS
<1>1. ASSUME Generates
      PROVE  PassInv'
  BY <1>1 DEF Generates, UnchangedByWorld, PassInv
<1>2. ASSUME EngineChanges
      PROVE  PassInv'
  BY <1>2 DEF EngineChanges, UnchangedByWorld, PassInv
<1>3. ASSUME Signal
      PROVE  PassInv'
  BY <1>3 DEF Signal, UnchangedByWorld, PassInv
<1>4. ASSUME Elapse
      PROVE  PassInv'
  BY <1>4 DEF Elapse, UnchangedByWorld, PassInv
<1>5. ASSUME StartsPass
      PROVE  PassInv'
  BY <1>5 DEF StartsPass, GoTo, PassInv
<1>6. ASSUME HealthAnswers
      PROVE  PassInv'
  BY <1>6 DEF HealthAnswers, GoTo, PassInv, NoReading
<1>7. ASSUME HealthFails
      PROVE  PassInv'
  BY <1>7 DEF HealthFails, Fails, GoTo, UnchangedByRead, PassInv
<1>8. ASSUME ModelsEnds
      PROVE  PassInv'
  BY <1>8 DEF ModelsEnds, GoTo, TypeOK, Readings, PassInv
<1>9. ASSUME MetricsAnswer
      PROVE  PassInv'
  BY <1>9 DEF MetricsAnswer, GoTo, PassInv
<1>10. ASSUME MetricsFails
       PROVE  PassInv'
  BY <1>10 DEF MetricsFails, GoTo, PassInv
<1>11. ASSUME Publishes
       PROVE  PassInv'
  BY <1>11 DEF Publishes, GoTo, PassInv
<1>12. ASSUME Returns
       PROVE  PassInv'
  BY <1>12 DEF Returns, PassInv
<1>13. ASSUME UNCHANGED vars
       PROVE  PassInv'
  BY <1>13 DEF vars, history, PassInv
<1>14. QED
  BY <1>1, <1>2, <1>3, <1>4, <1>5, <1>6, <1>7, <1>8, <1>9, <1>10, <1>11, <1>12,
         <1>13 DEF Next

\* The counters.
LEMMA TokensNext == TypeOK /\ PassInv /\ TokensInv /\ [Next]_vars => TokensInv'
<1> SUFFICES ASSUME TypeOK, PassInv, TokensInv, [Next]_vars
             PROVE  TokensInv'
  OBVIOUS
<1>1. ASSUME Generates
      PROVE  TokensInv'
  BY <1>1, ConstantsAssumption DEF Generates, UnchangedByWorld, TypeOK, Engines,
         NoEngine, TokensInv, Counter, Readings, Bump, Compares
<1>2. ASSUME EngineChanges
      PROVE  TokensInv'
  BY <1>2 DEF EngineChanges, UnchangedByWorld, TypeOK, Engines, NoEngine, TokensInv,
         Counter, Readings
<1>3. ASSUME Signal
      PROVE  TokensInv'
  BY <1>3 DEF Signal, UnchangedByWorld, TokensInv
<1>4. ASSUME Elapse
      PROVE  TokensInv'
  BY <1>4 DEF Elapse, UnchangedByWorld, TokensInv
<1>5. ASSUME StartsPass
      PROVE  TokensInv'
  BY <1>5 DEF StartsPass, UnchangedHistory, TokensInv
<1>6. ASSUME HealthAnswers
      PROVE  TokensInv'
  BY <1>6 DEF HealthAnswers, UnchangedByRead, UnchangedHistory, TokensInv
<1>7. ASSUME HealthFails
      PROVE  TokensInv'
  BY <1>7 DEF HealthFails, UnchangedByRead, UnchangedHistory, TokensInv
<1>8. ASSUME ModelsEnds
      PROVE  TokensInv'
  BY <1>8 DEF ModelsEnds, UnchangedByRead, UnchangedHistory, TypeOK, Readings, TokensInv
<1>9. ASSUME MetricsAnswer
      PROVE  TokensInv'
  BY <1>9 DEF MetricsAnswer, UnchangedByRead, UnchangedHistory, TypeOK, Engines,
         NoEngine, Readings, PassInv, TokensInv, Absent
<1>10. ASSUME MetricsFails
       PROVE  TokensInv'
  BY <1>10 DEF MetricsFails, UnchangedByRead, UnchangedHistory, TokensInv
<1>11. ASSUME Publishes
       PROVE  TokensInv'
  BY <1>11 DEF Publishes, Keeps, TokensInv, NoReading
<1>12. ASSUME Returns
       PROVE  TokensInv'
  BY <1>12 DEF Returns, history, TokensInv
<1>13. ASSUME UNCHANGED vars
       PROVE  TokensInv'
  BY <1>13 DEF vars, history, TokensInv
<1>14. QED
  BY <1>1, <1>2, <1>3, <1>4, <1>5, <1>6, <1>7, <1>8, <1>9, <1>10, <1>11, <1>12,
         <1>13 DEF Next

\* The times.
LEMMA TimeNext == TypeOK /\ PassInv /\ TimeInv /\ [Next]_vars => TimeInv'
<1> SUFFICES ASSUME TypeOK, PassInv, TimeInv, [Next]_vars
             PROVE  TimeInv'
  OBVIOUS
<1>1. ASSUME Generates
      PROVE  TimeInv'
  BY <1>1 DEF Generates, UnchangedByWorld, TimeInv, Compares, BetweenPasses
<1>2. ASSUME EngineChanges
      PROVE  TimeInv'
  BY <1>2 DEF EngineChanges, UnchangedByWorld, TimeInv, Compares, BetweenPasses
<1>3. ASSUME Signal
      PROVE  TimeInv'
  BY <1>3 DEF Signal, UnchangedByWorld, TimeInv, Compares, BetweenPasses
<1>4. ASSUME Elapse
      PROVE  TimeInv'
  BY <1>4, ConstantsAssumption DEF Elapse, UnchangedByWorld, TypeOK, TimeInv,
         Compares, Requests, BetweenPasses, Bump
<1>5. ASSUME StartsPass
      PROVE  TimeInv'
  BY <1>5, ConstantsAssumption DEF StartsPass, GoTo, UnchangedHistory, TypeOK,
         PassInv, TimeInv, Compares, Requests, NoReading, BetweenPasses
<1>6. ASSUME HealthAnswers
      PROVE  TimeInv'
  BY <1>6, ConstantsAssumption DEF HealthAnswers, GoTo, UnchangedByRead,
         UnchangedHistory, TypeOK, TimeInv, BetweenPasses
<1>7. ASSUME HealthFails
      PROVE  TimeInv'
  BY <1>7, ConstantsAssumption DEF HealthFails, GoTo, UnchangedByRead,
         UnchangedHistory, TypeOK, TimeInv, BetweenPasses
<1>8. ASSUME ModelsEnds
      PROVE  TimeInv'
  BY <1>8, ConstantsAssumption DEF ModelsEnds, GoTo, UnchangedByRead,
         UnchangedHistory, TypeOK, Readings, TimeInv, Compares, BetweenPasses
<1>9. ASSUME MetricsAnswer
      PROVE  TimeInv'
  BY <1>9, ConstantsAssumption DEF MetricsAnswer, GoTo, UnchangedByRead, TypeOK,
         TimeInv, Requests, BetweenPasses
<1>10. ASSUME MetricsFails
       PROVE  TimeInv'
  BY <1>10, ConstantsAssumption DEF MetricsFails, GoTo, UnchangedByRead,
         UnchangedHistory, TypeOK, TimeInv, BetweenPasses
<1>11. ASSUME Publishes
       PROVE  TimeInv'
  BY <1>11 DEF Publishes, Keeps, GoTo, TimeInv, Compares, Requests, NoReading
<1>12. ASSUME Returns
       PROVE  TimeInv'
  BY <1>12 DEF Returns, history, TimeInv, Compares, Requests, BetweenPasses
<1>13. ASSUME UNCHANGED vars
       PROVE  TimeInv'
  BY <1>13 DEF vars, history, TimeInv, Compares, BetweenPasses
<1>14. QED
  BY <1>1, <1>2, <1>3, <1>4, <1>5, <1>6, <1>7, <1>8, <1>9, <1>10, <1>11, <1>12,
         <1>13 DEF Next

\* What was read was said in the pass under way.
LEMMA SaidNext == TypeOK /\ PassInv /\ SaidInv /\ [Next]_vars => SaidInv'
<1> SUFFICES ASSUME TypeOK, PassInv, SaidInv, [Next]_vars
             PROVE  SaidInv'
  OBVIOUS
<1>1. CASE Generates
  <2>1. Serves(engine') = Serves(engine)
    BY <1>1 DEF Generates, Serves, TypeOK, Engines, NoEngine
  <2>2. QED
    BY <1>1, <2>1 DEF Generates, UnchangedByWorld, SaidInv
<1>2. CASE EngineChanges
  <2>1. /\ UNCHANGED <<pc, reading>> /\ served \subseteq served'
        /\ pc \in Requests => Serves(engine') \subseteq served'
    BY <1>2 DEF EngineChanges, UnchangedByWorld
  <2>2. QED
    BY <2>1 DEF SaidInv
<1>3. CASE Signal \/ Elapse
  BY <1>3 DEF Signal, Elapse, UnchangedByWorld, SaidInv
<1>4. CASE StartsPass
  <2>1. /\ pc = "idle" /\ reading' = reading /\ engine' = engine
        /\ pc' = (IF withVLLM THEN "health" ELSE "rest")
        /\ served' = (IF withVLLM THEN Serves(engine) ELSE {})
    BY <1>4 DEF StartsPass, GoTo
  <2>2. reading = NoReading
    BY <2>1 DEF PassInv
  <2>3. QED
    BY <2>1, <2>2 DEF SaidInv, NoReading, Requests
<1>5. CASE HealthAnswers
  <2>1. /\ pc = "health" /\ engine.status = "up" /\ UNCHANGED <<engine, served>>
        /\ reading' = [reading EXCEPT !.up = TRUE]
    BY <1>5 DEF HealthAnswers, Answered, UnchangedByRead
  <2>2. engine.model \in served
    BY <2>1 DEF SaidInv, Requests, Serves
  <2>3. reading'.up /\ reading'.model = reading.model
    BY <2>1 DEF TypeOK, Readings
  <2>4. QED
    BY <2>1, <2>2, <2>3 DEF SaidInv, Requests
<1>6. CASE HealthFails \/ MetricsFails
  BY <1>6 DEF HealthFails, MetricsFails, GoTo, UnchangedByRead, SaidInv, Requests
<1>7. CASE ModelsEnds
  <2>1. /\ pc = "models" /\ UNCHANGED <<engine, served>>
        /\ \/ reading' = reading
           \/ /\ engine.status = "up"
              /\ \E model \in {engine.model, Unsaid} :
                    reading' = [reading EXCEPT !.model = model]
    BY <1>7 DEF ModelsEnds, Answered, UnchangedByRead
  <2>2. reading.up /\ (engine.status = "up" => engine.model \in served)
    BY <2>1 DEF PassInv, SaidInv, Requests, Serves
  <2>3. reading'.up /\ (reading'.model \in {reading.model, Unsaid} \cup served)
    BY <2>1, <2>2 DEF TypeOK, Readings
  <2>4. QED
    BY <2>1, <2>2, <2>3 DEF SaidInv, Requests
<1>8. CASE MetricsAnswer
  <2>1. pc = "metrics" /\ UNCHANGED <<engine, served>>
    BY <1>8 DEF MetricsAnswer, UnchangedByRead
  <2>2. reading.up
    BY <2>1 DEF PassInv
  <2>3. reading'.up /\ reading'.model = reading.model
    BY <1>8, <2>2 DEF MetricsAnswer, TypeOK, Readings
  <2>4. QED
    BY <2>1, <2>2, <2>3 DEF SaidInv, Requests
<1>9. CASE Publishes
  BY <1>9 DEF Publishes, GoTo, SaidInv, NoReading, Requests
<1>10. CASE Returns
  BY <1>10 DEF Returns, history, SaidInv, Requests
<1>11. CASE UNCHANGED vars
  BY <1>11 DEF vars, history, SaidInv
<1>12. QED
  BY <1>1, <1>2, <1>3, <1>4, <1>5, <1>6, <1>7, <1>8, <1>9, <1>10, <1>11 DEF Next

\* A false has its reason.
LEMMA FalseNext == TypeOK /\ PassInv /\ FalseIsExplained /\ [Next]_vars => FalseIsExplained'
<1> SUFFICES ASSUME TypeOK, PassInv, FalseIsExplained, [Next]_vars
             PROVE  FalseIsExplained'
  OBVIOUS
<1>1. ASSUME Generates
      PROVE  FalseIsExplained'
  BY <1>1 DEF Generates, UnchangedByWorld, FalseIsExplained, BetweenPasses
<1>2. ASSUME EngineChanges
      PROVE  FalseIsExplained'
  BY <1>2 DEF EngineChanges, UnchangedByWorld, FalseIsExplained, BetweenPasses
<1>3. ASSUME Signal
      PROVE  FalseIsExplained'
  BY <1>3 DEF Signal, FalseIsExplained
<1>4. ASSUME Elapse
      PROVE  FalseIsExplained'
  BY <1>4 DEF Elapse, UnchangedByWorld, FalseIsExplained, BetweenPasses
<1>5. ASSUME StartsPass
      PROVE  FalseIsExplained'
  BY <1>5 DEF StartsPass, GoTo, FalseIsExplained, BetweenPasses
<1>6. ASSUME HealthAnswers
      PROVE  FalseIsExplained'
  BY <1>6 DEF HealthAnswers, GoTo, FalseIsExplained, BetweenPasses
<1>7. ASSUME HealthFails
      PROVE  FalseIsExplained'
  BY <1>7 DEF HealthFails, GoTo, FalseIsExplained, BetweenPasses
<1>8. ASSUME ModelsEnds
      PROVE  FalseIsExplained'
  BY <1>8 DEF ModelsEnds, GoTo, FalseIsExplained, BetweenPasses
<1>9. ASSUME MetricsAnswer
      PROVE  FalseIsExplained'
  BY <1>9 DEF MetricsAnswer, GoTo, FalseIsExplained, BetweenPasses
<1>10. ASSUME MetricsFails
       PROVE  FalseIsExplained'
  BY <1>10 DEF MetricsFails, GoTo, FalseIsExplained, BetweenPasses
<1>11. ASSUME Publishes
       PROVE  FalseIsExplained'
  BY <1>11 DEF Publishes, FalseIsExplained, PassInv, FromVLLM, Serving, Told,
         WorkerState
<1>12. ASSUME Returns
       PROVE  FalseIsExplained'
  BY <1>12 DEF Returns, FalseIsExplained
<1>13. ASSUME UNCHANGED vars
       PROVE  FalseIsExplained'
  BY <1>13 DEF vars, history, FalseIsExplained, BetweenPasses
<1>14. QED
  BY <1>1, <1>2, <1>3, <1>4, <1>5, <1>6, <1>7, <1>8, <1>9, <1>10, <1>11, <1>12,
         <1>13 DEF Next

LEMMA ObserveInvInit == Init => ObserveInv
<1> SUFFICES ASSUME Init
             PROVE  ObserveInv
  OBVIOUS
<1>1. PassInv /\ SaidInv /\ TokensInv
  BY DEF Init, PassInv, SaidInv, TokensInv, NoReading, Requests
<1>2. TimeInv
  BY DEF Init, TimeInv, NoReading, Compares
<1>3. FalseIsExplained
  BY DEF Init, FalseIsExplained, WorkerState
<1>4. QED
  BY <1>1, <1>2, <1>3 DEF ObserveInv

LEMMA ObserveInvNext == TypeOK /\ ObserveInv /\ [Next]_vars => ObserveInv'
BY PassNext, SaidNext, TokensNext, TimeNext, FalseNext DEF ObserveInv

LEMMA ObserveInvHolds == Spec => []ObserveInv
BY TypingInit, TypingNext, ObserveInvInit, ObserveInvNext, PTL DEF Spec

\* vllm_up is false only for an engine that was not up during the health
\* request, or for a daemon that was told to stop (Client.Read).
THEOREM FalseIsExplainedHolds == Spec => []FalseIsExplained
<1>1. ObserveInv => FalseIsExplained
  BY DEF ObserveInv
<1>2. QED
  BY <1>1, ObserveInvHolds, PTL

\* A rate is made only by an engine that is up and of two counters.
LEMMA RateFacts ==
    ASSUME TypeOK, Publishes, HasRate(state')
    PROVE  /\ prev # Absent /\ reading.tokens # Absent
           /\ state'.rate = [delta |-> reading.tokens - prev, over |-> elapsed]
           /\ reading.tokens >= prev
BY DEF Publishes, HasRate, FromVLLM, Serving, Told, WorkerState, tokenRate, NoRate

LEMMA RestIsLeft ==
    ASSUME pc = "rest", pc' # pc, [Next]_vars
    PROVE  Publishes
BY DEF Next, vars, Generates, EngineChanges, Signal, Elapse, UnchangedByWorld,
       StartsPass, HealthAnswers, HealthFails, ModelsEnds, MetricsAnswer,
       MetricsFails, Returns

\* A payload says of the engine only what an engine said during that very pass,
\* whatever models come and go, though the model and the caching are copied
\* before r.Up is looked at (Read's new Reading and early return, FromVLLM).
THEOREM SaysOnlyWhatWasSaidHolds == Spec => SaysOnlyWhatWasSaid
<1> DEFINE Fresh == /\ state'.model \in served \cup {Unsaid}
                    /\ state'.up = "true" => served # {}
                    /\ state'.up # "true" => SaysNothing(state')
<1>1. TypeOK /\ ObserveInv /\ [Next]_vars => [pc = "rest" => Fresh]_pc
  <2> SUFFICES ASSUME TypeOK, ObserveInv, [Next]_vars, pc' # pc, pc = "rest"
               PROVE  Fresh
    OBVIOUS
  <2>1. state' = IF withVLLM THEN FromVLLM(reading, prev, elapsed) ELSE WorkerState
    BY RestIsLeft DEF Publishes
  <2>2. SaidInv
    BY DEF ObserveInv
  <2>3. CASE ~withVLLM
    BY <2>1, <2>3 DEF WorkerState, SaysNothing, HasRate, NoRate
  <2>4. CASE withVLLM /\ reading.up
    <3>1. state'.up = "true" /\ state'.model = reading.model
      BY <2>1, <2>4 DEF FromVLLM, Serving, Told, WorkerState
    <3>2. QED
      BY <2>2, <2>4, <3>1 DEF SaidInv
  <2>5. CASE withVLLM /\ ~reading.up
    <3>1. reading = NoReading
      BY <2>2, <2>5 DEF SaidInv
    <3>2. /\ state'.up = "false" /\ state'.model = Unsaid
          /\ ~state'.caching /\ ~state'.gauges /\ state'.rate = NoRate
      BY <2>1, <2>5, <3>1 DEF FromVLLM, Told, NoReading, WorkerState
    <3>3. QED
      BY <3>2 DEF SaysNothing, HasRate, NoRate
  <2>6. QED
    BY <2>3, <2>4, <2>5
<1>2. QED
  BY <1>1, Typing, ObserveInvHolds, PTL DEF Spec, SaysOnlyWhatWasSaid

\* A rate never counts a token that was not generated between the two reads it is
\* made from, however often the engine restarted (tokenRate, and prev in poll).
THEOREM RateNotOverstatedHolds == Spec => RateNotOverstated
<1>1. TypeOK /\ ObserveInv /\ [Next]_vars
      => [pc = "rest" /\ HasRate(state') => state'.rate.delta \in 0..between]_pc
  <2> SUFFICES ASSUME TypeOK, ObserveInv, [Next]_vars, pc' # pc, pc = "rest", HasRate(state')
               PROVE  state'.rate.delta \in 0..between
    OBVIOUS
  <2>1. Publishes
    BY RestIsLeft
  <2>2. QED
    BY <2>1, RateFacts DEF ObserveInv, TokensInv, TypeOK, Counter, Readings
<1>2. QED
  BY <1>1, Typing, ObserveInvHolds, PTL DEF Spec, RateNotOverstated

\* The time a rate divides by is off the time between the two reads by no more
\* than the requests before a read can take (prevAt, prev and elapsed in poll).
THEOREM RateOverTheGapHolds == Spec => RateOverTheGap
<1>1. TypeOK /\ ObserveInv /\ [Next]_vars
      => [pc = "rest" /\ HasRate(state') =>
            /\ state'.rate.over <= gap + 3 * VLLMTimeout
            /\ gap <= state'.rate.over + 3 * VLLMTimeout]_pc
  <2> SUFFICES ASSUME TypeOK, ObserveInv, [Next]_vars, pc' # pc, pc = "rest", HasRate(state')
               PROVE  /\ state'.rate.over <= gap + 3 * VLLMTimeout
                      /\ gap <= state'.rate.over + 3 * VLLMTimeout
    OBVIOUS
  <2>1. Publishes
    BY RestIsLeft
  <2>2. QED
    BY <2>1, RateFacts DEF ObserveInv, TimeInv
<1>2. QED
  BY <1>1, Typing, ObserveInvHolds, PTL DEF Spec, RateOverTheGap
=============================================================================
