------------------------------ MODULE PollProofs ------------------------------
(***************************************************************************)
(* Theorems about Poll, for every interval, watchdog, timeout and jitter.  *)
(* The argument: the ticker fires within one period of any moment and the  *)
(* loop is late by at most Jitter, so a pass starts within TickPeriod and  *)
(* Jitter of the last ping, and no pass takes longer than its operations'  *)
(* limits add up to.                                                       *)
(***************************************************************************)
EXTENDS Poll, TLAPS

LEMMA TickPeriodType == TickPeriod \in Nat \ {0}
<1>1. WatchdogInterval \in Nat
  BY TimesAssumption DEF WatchdogInterval
<1>2. QED
  BY <1>1, TimesAssumption DEF TickPeriod, watchdogTick

\* The bounds are numbers, and the operations of a pass fit into WorkMax.
LEMMA BoundFacts ==
    /\ \A p \in Phases : /\ Before(p) \in Nat
                         /\ PhaseLimit(p) \in Nat
                         /\ Before(p) + PhaseLimit(p) <= WorkMax
    /\ WorkMax \in Nat
    /\ PingBound = TickPeriod + Jitter + WorkMax
    /\ TickBound \in Nat
    /\ TickBound >= Interval - 1 + TickPeriod
    /\ TickBound >= WorkMax
    /\ GapBound = TickBound + Jitter
<1>1. /\ WorkMax \in Nat
      /\ PingBound = TickPeriod + Jitter + WorkMax
      /\ GapBound = TickBound + Jitter
  BY TimesAssumption DEF WorkMax, PingBound, GapBound
<1>2. /\ TickBound \in Nat
      /\ TickBound >= Interval - 1 + TickPeriod
      /\ TickBound >= WorkMax
  BY <1>1, TickPeriodType, TimesAssumption DEF TickBound, LongerOf
<1>3. ASSUME NEW p \in Phases
      PROVE  /\ Before(p) \in Nat
             /\ PhaseLimit(p) \in Nat
             /\ Before(p) + PhaseLimit(p) <= WorkMax
  BY <1>3, TimesAssumption DEF Phases, EnginePhases, Before, PhaseLimit, WorkMax
<1>4. QED
  BY <1>1, <1>2, <1>3

\* Every operation starts after the limits of those before it.
LEMMA PhaseOrder ==
    /\ Before("models") = Before("health") + PhaseLimit("health")
    /\ Before("metrics") = Before("models") + PhaseLimit("models")
    /\ Before("smi") = Before("metrics") + PhaseLimit("metrics")
    /\ Before("publish") = Before("smi") + PhaseLimit("smi")
    /\ Before("smi") >= Before("health") + PhaseLimit("health")
BY TimesAssumption DEF EnginePhases, Before, PhaseLimit

LEMMA OlderFacts ==
    ASSUME NEW a \in Nat
    PROVE  Older(a) \in Nat /\ Older(a) <= a + 1 /\ a <= Older(a)
BY DEF Older

\* An age one unit before the tick is at most the tick's one unit later.
LEMMA OneUnitLater ==
    /\ \A a, b, t, l \in Nat : a <= t - 1 /\ b <= a + 1 => b <= t + l
    /\ \A a, b, t, l, k \in Nat : a <= k + (t - 1) /\ b <= a + 1 => b <= k + (t + l)
OBVIOUS

\* The steps of the loop, with time that may pass beyond an expired watchdog: the
\* invariants below but WedgeInv hold of these, and Service has some that are no
\* step of Next.
LoopStep == PollStep \/ Signal \/ WatchdogKills \/ TimePasses

LEMMA NextIsLoopStep == [Next]_vars => [LoopStep]_vars
BY DEF Next, LoopStep, Elapse

LEMMA TypingInit == Init => TypeOK
<1> SUFFICES ASSUME Init
             PROVE  TypeOK
  OBVIOUS
<1>1. pending \in BOOLEAN /\ wedged \in BOOLEAN /\ stop \in BOOLEAN
  BY DEF Init
<1>2. /\ untilTick \in 1..TickPeriod /\ inPhase \in Nat /\ late \in Nat
      /\ sincePing \in Nat /\ sincePub \in Nat /\ stopAge \in Nat
  BY TickPeriodType, TimesAssumption DEF Init
<1>3. pc \in Phases \cup {"top", "select", "returned", "killed"}
  BY DEF Init
<1>4. QED
  BY <1>1, <1>2, <1>3 DEF TypeOK

LEMMA TypingStep == TypeOK /\ [LoopStep]_vars => TypeOK'
<1> SUFFICES ASSUME TypeOK, [LoopStep]_vars
             PROVE  TypeOK'
  OBVIOUS
<1>1. CASE PassPublishes \/ PassSkips
  BY <1>1 DEF PassPublishes, PassSkips, Ping, FirstPhase, Phases, EnginePhases, TypeOK
<1>2. ASSUME NEW p \in Phases, GoTo(p)
      PROVE  TypeOK'
  BY <1>2 DEF GoTo, TypeOK
<1>3. CASE HealthAnswers \/ HealthFails \/ ModelsEnds \/ MetricsEnds \/ SmiEnds
  BY <1>2, <1>3 DEF HealthAnswers, HealthFails, ModelsEnds, MetricsEnds, SmiEnds,
                    Phases, EnginePhases
<1>4. CASE SmiHangs
  BY <1>4 DEF SmiHangs, TypeOK
<1>5. CASE PublishEnds
  BY <1>5 DEF PublishEnds, Ping, TypeOK
<1>6. CASE TakesTick \/ TakesDone \/ WatchdogKills
  <2>1. CASE TakesTick
    <3>1. pending' \in BOOLEAN
      BY <2>1 DEF TakesTick
    <3>2. QED
      BY <2>1, <3>1 DEF TakesTick, TypeOK
  <2>2. CASE TakesDone \/ WatchdogKills
    BY <2>2 DEF TakesDone, WatchdogKills, TypeOK
  <2>3. QED
    BY <1>6, <2>1, <2>2
<1>7. CASE Signal
  <2>1. stop' \in BOOLEAN
    BY <1>7 DEF Signal
  <2>2. QED
    BY <1>7, <2>1 DEF Signal, TypeOK
<1>8. CASE TimePasses
  <2>1. untilTick' \in 1..TickPeriod
    BY <1>8, TickPeriodType DEF TimePasses, Ticker, TypeOK
  <2>2. pending' \in BOOLEAN
    <3>1. untilTick \in Nat /\ pending \in BOOLEAN
      BY DEF TypeOK
    <3>2. CASE untilTick = 1
      <4>1. pending' = TRUE
        BY <1>8, <3>2 DEF TimePasses, Ticker
      <4>2. QED
        BY <4>1
    <3>3. CASE untilTick # 1
      BY <1>8, <3>1, <3>3 DEF TimePasses, Ticker
    <3>4. QED
      BY <3>2, <3>3
  <2>3. /\ inPhase' \in Nat /\ sincePing' \in Nat /\ sincePub' \in Nat
        /\ stopAge' \in Nat
    BY <1>8, OlderFacts DEF TimePasses, PingAges, TypeOK
  <2>4. late' \in Nat
    BY <1>8 DEF TimePasses, TypeOK
  <2>5. QED
    BY <1>8, <2>1, <2>2, <2>3, <2>4 DEF TimePasses, TypeOK
<1>9. CASE UNCHANGED vars
  BY <1>9 DEF vars, TypeOK
<1>10. QED
  BY <1>1, <1>3, <1>4, <1>5, <1>6, <1>7, <1>8, <1>9 DEF LoopStep, PollStep

LEMMA TypingNext == TypeOK /\ [Next]_vars => TypeOK'
BY TypingStep, NextIsLoopStep

\* Type correctness.
THEOREM Typing == Spec => []TypeOK
BY TypingInit, TypingNext, PTL DEF Spec
-----------------------------------------------------------------------------
(***************************************************************************)
(* The ages of the last ping and of the last publishing pass.              *)
(***************************************************************************)
LEMMA AgesInit == Init => PollInv
<1> SUFFICES ASSUME Init
             PROVE  PollInv
  OBVIOUS
<1>1. pc = "top" /\ ~pending /\ sincePing = 0 /\ sincePub = Interval
  BY DEF Init
<1>2. sincePing <= TickPeriod + Jitter /\ sincePub <= GapBound
  BY <1>1, BoundFacts, TickPeriodType, TimesAssumption
<1>3. QED
  BY <1>1, <1>2 DEF PollInv, Phases, EnginePhases

\* A step from one operation to a later one of the same pass.
LEMMA AgesGoTo ==
    ASSUME TypeOK, PollInv, NEW p \in Phases, GoTo(p), pc \in Phases,
           Before(p) >= Before(pc) + PhaseLimit(pc)
    PROVE  PollInv'
<1> SUFFICES ASSUME ~wedged'
             PROVE  PollInv'
  BY DEF PollInv
<1>1. /\ pc' = p /\ inPhase' = 0 /\ ~wedged
      /\ sincePing' = sincePing /\ sincePub' = sincePub
      /\ pending' = pending /\ untilTick' = untilTick
  BY DEF GoTo
<1>2. /\ inPhase <= PhaseLimit(pc)
      /\ sincePing <= TickPeriod + Jitter + Before(pc) + inPhase
      /\ sincePub <= Before(pc) + inPhase
      /\ ~pending => sincePub <= TickPeriod - untilTick
  BY <1>1 DEF PollInv
<1>3. /\ inPhase' <= PhaseLimit(p)
      /\ sincePing' <= TickPeriod + Jitter + Before(p) + inPhase'
      /\ sincePub' <= Before(p) + inPhase'
  BY <1>1, <1>2, BoundFacts, TickPeriodType, TimesAssumption DEF TypeOK
<1>4. ~pending' => sincePub' <= TickPeriod - untilTick'
  BY <1>1, <1>2
<1>5. QED
  BY <1>1, <1>3, <1>4 DEF PollInv, Phases, EnginePhases

\* The ping that ends a pass.
LEMMA AgesPing ==
    ASSUME TypeOK, Ping, UNCHANGED <<untilTick, pending, sincePub, wedged>>,
           ~wedged => sincePub <= IF pending THEN TickBound
                                  ELSE Interval - 1 + (TickPeriod - untilTick)
    PROVE  PollInv'
<1>1. /\ pc' = "select" /\ late' = 0 /\ sincePing' = 0
      /\ untilTick' = untilTick /\ pending' = pending /\ sincePub' = sincePub
      /\ wedged' = wedged
  BY DEF Ping
<1>2. untilTick \in 1..TickPeriod /\ sincePub \in Nat
  BY DEF TypeOK
<1>3. ~wedged' =>
        /\ late' <= Jitter
        /\ sincePing' <= IF pending' THEN TickPeriod + late' ELSE TickPeriod - untilTick'
        /\ sincePub' <= IF pending' THEN TickBound + late'
                        ELSE Interval - 1 + (TickPeriod - untilTick')
  BY <1>1, <1>2, BoundFacts, TickPeriodType, TimesAssumption
<1>4. QED
  BY <1>1, <1>3 DEF PollInv, Phases, EnginePhases

\* Nothing the loop does lets a ping grow older than PingBound, unless it hangs.
LEMMA PingBounded ==
    ASSUME TypeOK, PollInv, Running, ~wedged
    PROVE  sincePing <= PingBound
<1>1. CASE pc \in Phases
  BY <1>1, BoundFacts, TickPeriodType, TimesAssumption DEF PollInv, TypeOK
<1>2. CASE pc = "select"
  BY <1>2, BoundFacts, TickPeriodType, TimesAssumption DEF PollInv, TypeOK
<1>3. CASE pc = "top"
  BY <1>3, BoundFacts, TickPeriodType, TimesAssumption DEF PollInv, TypeOK
<1>4. QED
  BY <1>1, <1>2, <1>3 DEF Running

LEMMA AgesStep == TypeOK /\ PollInv /\ [LoopStep]_vars => PollInv'
<1> SUFFICES ASSUME TypeOK, PollInv, [LoopStep]_vars
             PROVE  PollInv'
  OBVIOUS
<1>1. CASE PassPublishes
  <2>1. /\ pc = "top" /\ pc' = FirstPhase /\ inPhase' = 0 /\ sincePub' = 0
        /\ sincePing' = sincePing /\ wedged' = wedged /\ untilTick' = untilTick
    BY <1>1 DEF PassPublishes
  <2>2. FirstPhase \in Phases /\ FirstPhase \notin {"top", "select", "killed"}
    BY DEF FirstPhase, Phases, EnginePhases
  <2>3. ~wedged => sincePing <= TickPeriod + Jitter
    BY <2>1 DEF PollInv
  <2>4. /\ inPhase' <= PhaseLimit(FirstPhase)
        /\ sincePub' <= Before(FirstPhase) + inPhase'
        /\ ~wedged => sincePing' <= TickPeriod + Jitter + Before(FirstPhase) + inPhase'
        /\ sincePub' <= TickPeriod - untilTick'
    BY <2>1, <2>2, <2>3, BoundFacts, TickPeriodType, TimesAssumption DEF TypeOK
  <2>5. QED
    BY <2>1, <2>2, <2>4 DEF PollInv
<1>2. CASE PassSkips
  <2>1. ~wedged => ~pending
    BY <1>2 DEF PassSkips, PollInv
  <2>2. sincePub <= Interval - 1
    BY <1>2, TimesAssumption DEF PassSkips, Due, TypeOK
  <2>3. ~wedged => sincePub <= IF pending THEN TickBound
                               ELSE Interval - 1 + (TickPeriod - untilTick)
    BY <2>1, <2>2, TickPeriodType, TimesAssumption DEF TypeOK
  <2>4. QED
    BY <1>2, <2>3, AgesPing DEF PassSkips
<1>3. CASE HealthAnswers \/ HealthFails \/ ModelsEnds \/ MetricsEnds \/ SmiEnds
  <2>1. PICK p \in Phases : GoTo(p) /\ pc \in Phases
                            /\ Before(p) >= Before(pc) + PhaseLimit(pc)
    BY <1>3, PhaseOrder, BoundFacts
    DEF HealthAnswers, HealthFails, ModelsEnds, MetricsEnds, SmiEnds, Phases, EnginePhases
  <2>2. QED
    BY <2>1, AgesGoTo
<1>4. CASE SmiHangs
  BY <1>4 DEF SmiHangs, PollInv
<1>5. CASE PublishEnds
  <2>1. pc = "publish" /\ "publish" \in Phases
    BY <1>5 DEF PublishEnds, Phases
  <2>2. ~wedged => /\ sincePub <= WorkMax
                   /\ ~pending => sincePub <= TickPeriod - untilTick
    BY <2>1, BoundFacts DEF PollInv, TypeOK
  <2>3. ~wedged => sincePub <= IF pending THEN TickBound
                               ELSE Interval - 1 + (TickPeriod - untilTick)
    BY <2>2, BoundFacts, TickPeriodType, TimesAssumption DEF TypeOK
  <2>4. QED
    BY <1>5, <2>3, AgesPing DEF PublishEnds
<1>6. CASE TakesTick
  <2>1. /\ pc = "select" /\ pending /\ pc' = "top"
        /\ sincePing' = sincePing /\ sincePub' = sincePub /\ wedged' = wedged
        /\ ~pending'
    BY <1>6 DEF TakesTick
  <2>2. ~wedged => /\ late <= Jitter
                   /\ sincePing <= TickPeriod + late
                   /\ sincePub <= TickBound + late
    BY <2>1 DEF PollInv
  <2>3. ~wedged => sincePing' <= TickPeriod + Jitter /\ sincePub' <= GapBound
    BY <2>1, <2>2, BoundFacts, TickPeriodType, TimesAssumption DEF TypeOK
  <2>4. QED
    BY <2>1, <2>3 DEF PollInv, Phases, EnginePhases
<1>7. CASE TakesDone
  BY <1>7 DEF TakesDone, PollInv, Phases, EnginePhases
<1>8. CASE Signal
  BY <1>8 DEF Signal, PollInv
<1>9. CASE WatchdogKills
  <2>1. /\ pc' = "killed" /\ wedged' = wedged /\ WatchdogSec > 0
        /\ sincePing >= WatchdogSec /\ Running
    BY <1>9 DEF WatchdogKills, WatchdogExpired
  <2>2. ~wedged => sincePing <= PingBound
    BY <2>1, PingBounded
  <2>3. ~wedged => ~Roomy
    BY <2>1, <2>2, BoundFacts, TickPeriodType, TimesAssumption DEF Roomy, TypeOK
  <2>4. QED
    BY <2>1, <2>3 DEF PollInv, Phases, EnginePhases
<1>10. CASE TimePasses
  <2> SUFFICES ASSUME ~wedged
               PROVE  PollInv'
    BY <1>10 DEF TimePasses, PollInv
  <2>1. /\ pc' = pc /\ pc \in Phases \cup {"select"} /\ wedged' = wedged
        /\ sincePing' <= sincePing + 1 /\ sincePub' <= sincePub + 1
        /\ sincePing' \in Nat /\ sincePub' \in Nat
    BY <1>10, OlderFacts DEF TimePasses, PingAges, TypeOK
  <2>2. CASE pc \in Phases
    <3>1. inPhase < Limit(pc) /\ inPhase' = Older(inPhase)
      BY <1>10, <2>2 DEF TimePasses
    <3>2. inPhase < PhaseLimit(pc)
      BY <2>2, <3>1, BoundFacts DEF Limit, TypeOK
    <3>3. inPhase' = inPhase + 1
      <4>1. inPhase < WorkMax
        BY <2>2, <3>2, BoundFacts DEF TypeOK
      <4>2. WorkMax <= AgeCap
        BY BoundFacts, TickPeriodType, TimesAssumption DEF AgeCap
      <4>3. AgeCap \in Nat
        BY BoundFacts, TickPeriodType, TimesAssumption DEF AgeCap
      <4>4. QED
        BY <3>1, <4>1, <4>2, <4>3, BoundFacts DEF Older, TypeOK
    <3>4. /\ sincePing <= TickPeriod + Jitter + Before(pc) + inPhase
          /\ sincePub <= Before(pc) + inPhase
          /\ ~pending => sincePub <= TickPeriod - untilTick
      BY <2>2 DEF PollInv
    <3>5. /\ inPhase' <= PhaseLimit(pc)
          /\ sincePing' <= TickPeriod + Jitter + Before(pc) + inPhase'
          /\ sincePub' <= Before(pc) + inPhase'
      BY <2>1, <2>2, <3>2, <3>3, <3>4, BoundFacts, TickPeriodType, TimesAssumption DEF TypeOK
    <3>6. ~pending' => ~pending /\ untilTick' = untilTick - 1
      BY <1>10 DEF TimePasses, Ticker
    <3>7. ~pending' => sincePub' <= TickPeriod - untilTick'
      BY <2>1, <3>4, <3>6, TickPeriodType DEF TypeOK
    <3>8. QED
      BY <2>1, <2>2, <3>5, <3>7 DEF PollInv, Phases, EnginePhases
  <2>3. CASE pc = "select"
    <3>1. /\ late <= Jitter
          /\ sincePing <= IF pending THEN TickPeriod + late ELSE TickPeriod - untilTick
          /\ sincePub <= IF pending THEN TickBound + late
                         ELSE Interval - 1 + (TickPeriod - untilTick)
      BY <2>3 DEF PollInv
    <3>2. late' <= Jitter /\ late' \in Nat
      BY <1>10, <2>3, TimesAssumption DEF TimePasses, TypeOK
    <3>3. CASE pending
      <4>1. pending' /\ late' = late + 1
        BY <1>10, <2>3, <3>3 DEF TimePasses, Ticker, Ready
      <4>2. /\ sincePing' <= TickPeriod + late'
            /\ sincePub' <= TickBound + late'
        BY <2>1, <3>1, <3>3, <4>1, BoundFacts, TickPeriodType DEF TypeOK
      <4>3. QED
        BY <2>1, <2>3, <3>2, <4>1, <4>2 DEF PollInv, Phases, EnginePhases
    <3>4. CASE ~pending /\ untilTick = 1
      <4>1. pending'
        BY <1>10, <3>4 DEF TimePasses, Ticker
      <4>2. /\ sincePing' <= TickPeriod + late'
            /\ sincePub' <= TickBound + late'
        <5>1. /\ sincePing <= TickPeriod - 1
              /\ sincePub <= Interval - 1 + (TickPeriod - 1)
          BY <3>1, <3>4
        <5>2. /\ sincePing' \in Nat /\ sincePing \in Nat /\ sincePing' <= sincePing + 1
              /\ sincePub' \in Nat /\ sincePub \in Nat /\ sincePub' <= sincePub + 1
          BY <2>1 DEF TypeOK
        <5>3. /\ late' \in Nat /\ TickPeriod \in Nat
              /\ Interval - 1 \in Nat /\ TickBound \in Nat
              /\ TickBound >= Interval - 1 + TickPeriod
          BY <3>2, BoundFacts, TickPeriodType, TimesAssumption
        <5>4. sincePub' <= Interval - 1 + (TickPeriod + late')
          BY <5>1, <5>2, <5>3, OneUnitLater
        <5>5. sincePub' <= TickBound + late'
          <6>1. \A a, b, c, l \in Nat : a <= b + l /\ b <= c => a <= c + l
            OBVIOUS
          <6>2. /\ Interval - 1 + TickPeriod \in Nat
                /\ sincePub' <= (Interval - 1 + TickPeriod) + late'
            BY <5>2, <5>3, <5>4
          <6>3. QED
            BY <5>2, <5>3, <6>1, <6>2
        <5>6. sincePing' <= TickPeriod + late'
          BY <5>1, <5>2, <5>3, OneUnitLater
        <5>7. QED
          BY <5>5, <5>6
      <4>3. QED
        BY <2>1, <2>3, <3>2, <4>1, <4>2 DEF PollInv, Phases, EnginePhases
    <3>5. CASE ~pending /\ untilTick # 1
      <4>1. ~pending' /\ untilTick' = untilTick - 1
        BY <1>10, <3>5 DEF TimePasses, Ticker
      <4>2. /\ sincePing' <= TickPeriod - untilTick'
            /\ sincePub' <= Interval - 1 + (TickPeriod - untilTick')
        BY <2>1, <3>1, <3>5, <4>1, TickPeriodType, TimesAssumption DEF TypeOK
      <4>3. QED
        BY <2>1, <2>3, <3>2, <4>1, <4>2 DEF PollInv, Phases, EnginePhases
    <3>6. QED
      BY <3>3, <3>4, <3>5
  <2>4. QED
    BY <2>1, <2>2, <2>3
<1>11. CASE UNCHANGED vars
  BY <1>11 DEF vars, PollInv
<1>12. QED
  BY <1>1, <1>2, <1>3, <1>4, <1>5, <1>6, <1>7, <1>8, <1>9, <1>10, <1>11 DEF LoopStep, PollStep

LEMMA AgesNext == TypeOK /\ PollInv /\ [Next]_vars => PollInv'
BY AgesStep, NextIsLoopStep

THEOREM AgesBounded == Spec => []PollInv
BY TypingInit, TypingNext, AgesInit, AgesNext, PTL DEF Spec

\* A loop whose operations all end is never killed by the watchdog, for all
\* times that leave room for one whole pass after a late wake-up.
THEOREM HealthyNotKilledHolds == Spec => [](Roomy => HealthyNotKilled)
<1>1. PollInv => (Roomy => HealthyNotKilled)
  BY DEF PollInv, HealthyNotKilled
<1>2. QED
  BY <1>1, AgesBounded, PTL

\* A publishing pass starts no later than one tick after a moment at which it
\* was not yet due, or after the longest pass, and one late wake-up.
THEOREM PublishGapHolds == Spec => []PublishGap
<1>1. TypeOK /\ PollInv => PublishGap
  <2> SUFFICES ASSUME TypeOK, PollInv, Running, ~wedged
               PROVE  sincePub <= GapBound
    BY DEF PublishGap
  <2>1. CASE pc \in Phases
    BY <2>1, BoundFacts, TickPeriodType, TimesAssumption DEF PollInv, TypeOK
  <2>2. CASE pc = "select"
    BY <2>2, BoundFacts, TickPeriodType, TimesAssumption DEF PollInv, TypeOK
  <2>3. CASE pc = "top"
    BY <2>3 DEF PollInv
  <2>4. QED
    BY <2>1, <2>2, <2>3 DEF Running
<1>2. QED
  BY <1>1, Typing, AgesBounded, PTL
-----------------------------------------------------------------------------
(***************************************************************************)
(* A loop that hangs.  The argument: only the end of a pass clears the age *)
(* of the last ping, so an operation is never older than that age, and     *)
(* time does not pass beyond an expired watchdog.                          *)
(***************************************************************************)
LEMMA OlderMonotonic ==
    ASSUME NEW a \in Nat, NEW b \in Nat, a <= b
    PROVE  Older(a) <= Older(b)
BY TickPeriodType, BoundFacts, TimesAssumption DEF Older, AgeCap

LEMMA WedgeInit == Init => WedgeInv
BY TimesAssumption DEF Init, WedgeInv

LEMMA WedgeNext == TypeOK /\ WedgeInv /\ [Next]_vars => WedgeInv'
<1> SUFFICES ASSUME TypeOK, WedgeInv, [Next]_vars
             PROVE  WedgeInv'
  OBVIOUS
<1>0. inPhase \in Nat /\ sincePing \in Nat /\ WatchdogSec \in Nat
  BY TimesAssumption DEF TypeOK
<1>1. CASE PollStep \/ Signal \/ WatchdogKills
  <2>1. \/ inPhase' = 0 /\ sincePing' \in {0, sincePing}
        \/ inPhase' = inPhase /\ sincePing' = sincePing
    BY <1>1 DEF PollStep, PassPublishes, PassSkips, Ping, HealthAnswers, HealthFails,
                ModelsEnds, MetricsEnds, SmiEnds, GoTo, SmiHangs, PublishEnds, TakesTick,
                TakesDone, Signal, WatchdogKills
  <2>2. QED
    BY <1>0, <2>1 DEF WedgeInv
<1>2. CASE Elapse
  <2>1. inPhase' = Older(inPhase) \/ inPhase' = 0
    BY <1>2 DEF Elapse, TimePasses
  <2>2. sincePing' = Older(sincePing) /\ ~WatchdogExpired
    BY <1>2 DEF Elapse, TimePasses, PingAges
  <2>3. inPhase' <= sincePing'
    BY <1>0, <2>1, <2>2, OlderMonotonic, OlderFacts DEF WedgeInv
  <2>4. WatchdogSec > 0 => sincePing' <= WatchdogSec
    BY <1>0, <2>2, OlderFacts DEF WatchdogExpired
  <2>5. QED
    BY <2>3, <2>4 DEF WedgeInv
<1>3. CASE UNCHANGED vars
  BY <1>3 DEF vars, WedgeInv
<1>4. QED
  BY <1>1, <1>2, <1>3 DEF Next

\* A loop that hangs is killed within WatchdogSec of hanging, for all times.
THEOREM WedgeKilledInTimeHolds == Spec => []WedgeKilledInTime
<1>1. TypeOK /\ WedgeInv => WedgeKilledInTime
  BY TimesAssumption DEF TypeOK, WedgeInv, WedgeKilledInTime
<1>2. QED
  BY <1>1, Typing, TypingInit, TypingNext, WedgeInit, WedgeNext, PTL DEF Spec
-----------------------------------------------------------------------------
(***************************************************************************)
(* A stop request.  The argument: after it only publishes take time.  The  *)
(* select may take a tick it finds, but ticks are so far apart that after  *)
(* the second one it finds none, and after a pass that published the next  *)
(* is not due.                                                             *)
(***************************************************************************)
LEMMA PublishLimit == PhaseLimit("publish") = PublishTimeout
BY DEF PhaseLimit, EnginePhases

LEMMA StopWithinInit == ASSUME NEW limit \in Nat, Init PROVE StopWithin(limit)
BY DEF Init, StopWithin

LEMMA StopWithinStep ==
    ASSUME NEW limit \in Nat, TypeOK, PollInv, StopWithin(limit), Answered(limit),
           [LoopStep]_vars
    PROVE  StopWithin(limit)'
<1>0. /\ Jitter \in Nat /\ PublishTimeout \in Nat /\ Interval \in Nat
      /\ TickPeriod \in Nat /\ untilTick \in 1..TickPeriod /\ SinceTick \in Nat
      /\ late \in Nat /\ inPhase \in Nat /\ sincePub \in Nat /\ stopAge \in Nat
  BY TickPeriodType, TimesAssumption DEF TypeOK, SinceTick
<1> DEFINE Distant == Interval > limit + 2 * Jitter /\ TickPeriod > limit + 2 * Jitter
           InPass(p) == \/ stopAge <= IF p = "publish" THEN inPhase ELSE 0
                        \/ /\ sincePub = inPhase
                           /\ p # "publish" => inPhase = 0
                           /\ \/ /\ stopAge <= limit + Jitter + inPhase
                                 /\ pending => SinceTick <= inPhase
                              \/ /\ stopAge <= limit + 2 * Jitter + inPhase
                                 /\ ~pending /\ SinceTick <= Jitter + inPhase
           AtSelect == \/ stopAge <= limit + late
                       \/ /\ stopAge <= limit + Jitter + late
                          /\ pending => SinceTick <= late
                       \/ /\ stopAge <= limit + 2 * Jitter + late
                          /\ ~pending /\ SinceTick <= Jitter + late
                       \/ /\ stopAge <= 2 * limit + Jitter + late
                          /\ sincePub <= limit + late
                          /\ pending => SinceTick <= limit + late
                       \/ /\ stopAge <= 2 * limit + 2 * Jitter + late
                          /\ ~pending /\ SinceTick <= limit + Jitter + late
           AtTop == \/ stopAge <= limit + Jitter
                    \/ stopAge <= limit + 2 * Jitter /\ SinceTick <= Jitter
                    \/ /\ stopAge <= 2 * limit + 2 * Jitter
                       /\ sincePub <= limit + Jitter
                       /\ SinceTick <= limit + Jitter
<1>1. /\ ~stop => stopAge = 0
      /\ stop /\ ~wedged /\ Distant =>
            /\ pc \in Phases => InPass(pc)
            /\ pc = "select" => AtSelect
            /\ pc = "top" => AtTop
  BY DEF StopWithin, CalmFor
<1>2. SUFFICES /\ ~stop' => stopAge' = 0
               /\ stop' /\ ~wedged' /\ Distant =>
                     /\ pc' \in Phases => InPass(pc)'
                     /\ pc' = "select" => AtSelect'
                     /\ pc' = "top" => AtTop'
  BY DEF StopWithin, CalmFor
<1>3. "select" \notin Phases /\ "top" \notin Phases /\ FirstPhase \in Phases \ {"publish"}
  BY DEF Phases, EnginePhases, FirstPhase
<1>4. CASE PassPublishes
  <2>1. /\ pc = "top" /\ pc' = FirstPhase /\ inPhase' = 0 /\ sincePub' = 0 /\ Due
        /\ UNCHANGED <<untilTick, pending, wedged, stop, stopAge>>
    BY <1>4 DEF PassPublishes
  <2>2. SinceTick' = SinceTick
    BY <2>1 DEF SinceTick
  <2>3. ~wedged => ~pending
    BY <2>1 DEF PollInv
  <2>4. stop /\ ~wedged /\ Distant => InPass(pc)'
    BY <1>0, <1>1, <1>3, <2>1, <2>2, <2>3 DEF Due
  <2>5. QED
    BY <1>1, <1>3, <2>1, <2>4
<1>5. CASE PassSkips
  <2>1. /\ pc = "top" /\ pc' = "select" /\ late' = 0
        /\ UNCHANGED <<untilTick, pending, sincePub, wedged, stop, stopAge>>
    BY <1>5 DEF PassSkips, Ping
  <2>2. SinceTick' = SinceTick
    BY <2>1 DEF SinceTick
  <2>3. ~wedged => ~pending
    BY <2>1 DEF PollInv
  <2>4. stop /\ ~wedged /\ Distant => AtSelect'
    BY <1>0, <1>1, <2>1, <2>2, <2>3
  <2>5. QED
    BY <1>1, <1>3, <2>1, <2>4
<1>6. CASE HealthAnswers \/ HealthFails \/ ModelsEnds \/ MetricsEnds \/ SmiEnds
  <2>1. /\ pc \in Phases \ {"publish"} /\ pc' \in Phases /\ inPhase' = 0
        /\ UNCHANGED <<untilTick, pending, sincePub, wedged, stop, stopAge>>
    BY <1>6 DEF HealthAnswers, HealthFails, ModelsEnds, MetricsEnds, SmiEnds, GoTo,
                Phases, EnginePhases
  <2>2. SinceTick' = SinceTick
    BY <2>1 DEF SinceTick
  <2>3. stop /\ ~wedged /\ Distant => InPass(pc)'
    BY <1>0, <1>1, <2>1, <2>2
  <2>4. QED
    BY <1>1, <1>3, <2>1, <2>3
<1>7. CASE SmiHangs
  BY <1>1, <1>7 DEF SmiHangs
<1>8. CASE PublishEnds
  <2>1. /\ pc = "publish" /\ pc \in Phases /\ pc' = "select" /\ late' = 0
        /\ UNCHANGED <<untilTick, pending, sincePub, wedged, stop, stopAge>>
    BY <1>8 DEF PublishEnds, Ping, Phases
  <2>2. SinceTick' = SinceTick
    BY <2>1 DEF SinceTick
  <2>3. ~wedged => stopAge = 0 \/ inPhase <= limit
    BY <2>1 DEF Answered
  <2>4. stop /\ ~wedged /\ Distant => AtSelect'
    BY <1>0, <1>1, <2>1, <2>2, <2>3
  <2>5. QED
    BY <1>1, <1>3, <2>1, <2>4
<1>9. CASE TakesTick
  <2>1. /\ pc = "select" /\ pending /\ pc' = "top" /\ pending' = FALSE
        /\ UNCHANGED <<untilTick, sincePub, wedged, stop, stopAge>>
    BY <1>9 DEF TakesTick
  <2>2. SinceTick' = SinceTick
    BY <2>1 DEF SinceTick
  <2>3. ~wedged => late <= Jitter
    BY <2>1 DEF PollInv
  <2>4. stop /\ ~wedged /\ Distant => AtTop'
    BY <1>0, <1>1, <2>1, <2>2, <2>3
  <2>5. QED
    BY <1>1, <1>3, <2>1, <2>4
<1>10. CASE TakesDone \/ WatchdogKills
  BY <1>1, <1>10 DEF TakesDone, WatchdogKills, Phases, EnginePhases
<1>11. CASE Signal
  <2>1. /\ ~stop /\ stop' = TRUE
        /\ UNCHANGED <<pc, inPhase, untilTick, pending, late, sincePub, wedged, stopAge>>
    BY <1>11 DEF Signal
  <2>2. stopAge' = 0
    BY <1>1, <2>1
  <2>3. QED
    BY <1>0, <2>1, <2>2
<1>12. CASE TimePasses
  <2>1. /\ pc \in Phases \cup {"select"}
        /\ Ready => late < Jitter
        /\ pc \in Phases /\ ~wedged => inPhase < Limit(pc)
        /\ inPhase' = IF pc \in Phases THEN Older(inPhase) ELSE 0
        /\ late' = IF Ready THEN late + 1 ELSE 0
        /\ Ticker
        /\ sincePub' = Older(sincePub)
        /\ stopAge' = IF stop THEN Older(stopAge) ELSE 0
        /\ UNCHANGED <<pc, wedged, stop>>
    BY <1>12 DEF TimePasses
  <2>2. \/ untilTick = 1 /\ SinceTick' = 0 /\ pending' /\ SinceTick = TickPeriod - 1
        \/ SinceTick' = SinceTick + 1 /\ pending' = pending
    BY <1>0, <2>1 DEF Ticker, SinceTick
  <2>3. stop => stopAge' <= stopAge + 1 /\ stopAge' \in Nat
    BY <1>0, <2>1, OlderFacts
  <2>4. sincePub' <= sincePub + 1 /\ sincePub' \in Nat
    BY <1>0, <2>1, OlderFacts
  <2>5. CASE pc \in Phases
    <3>1. ASSUME stop, ~wedged, Distant
          PROVE  InPass(pc)'
      <4>1. pc = "publish" /\ inPhase < PublishTimeout
        BY <1>0, <2>1, <2>5, <3>1, PublishLimit DEF Limit
      <4>2. Older(inPhase) = inPhase + 1
        <5>1. WorkMax \in Nat /\ inPhase < AgeCap
          BY <1>0, <4>1, BoundFacts, TimesAssumption DEF AgeCap
        <5>2. QED
          BY <5>1 DEF Older
      <4>3. inPhase' = inPhase + 1 /\ (sincePub = inPhase => sincePub' = inPhase')
        BY <2>1, <2>5, <4>2
      <4>4. InPass("publish")
        BY <1>1, <2>5, <3>1, <4>1
      <4>5. stopAge = 0 \/ inPhase <= limit
        BY <3>1, <4>1 DEF Answered
      <4>6. InPass("publish")'
        BY <1>0, <2>2, <2>3, <3>1, <4>3, <4>4, <4>5
      <4>7. QED
        BY <2>1, <4>1, <4>6
    <3>2. pc' \in Phases /\ stop' = stop /\ wedged' = wedged /\ (~stop' => stopAge' = 0)
      BY <2>1, <2>5
    <3>3. QED
      BY <1>3, <3>1, <3>2
  <2>6. CASE pc = "select"
    <3>1. ASSUME stop, ~wedged, Distant
          PROVE  AtSelect'
      <4>1. late < Jitter /\ late' = late + 1 /\ AtSelect
        BY <1>1, <2>1, <2>6, <3>1 DEF Ready
      <4>2. QED
        BY <1>0, <2>2, <2>3, <2>4, <3>1, <4>1
    <3>2. QED
      BY <1>3, <2>1, <2>6, <3>1
  <2>7. QED
    BY <2>1, <2>5, <2>6
<1>13. CASE UNCHANGED vars
  BY <1>1, <1>13 DEF vars, SinceTick
<1>14. QED
  BY <1>4, <1>5, <1>6, <1>7, <1>8, <1>9, <1>10, <1>11, <1>12, <1>13 DEF LoopStep, PollStep

LEMMA StopInit == Init => StopInv
BY StopWithinInit, TimesAssumption DEF StopInv

LEMMA StopStep == TypeOK /\ PollInv /\ StopInv /\ [LoopStep]_vars => StopInv'
<1>1. PollInv => Answered(PublishTimeout)
  BY PublishLimit DEF PollInv, Answered, Phases
<1>2. QED
  BY <1>1, StopWithinStep, TimesAssumption DEF StopInv

LEMMA StopNext == TypeOK /\ PollInv /\ StopInv /\ [Next]_vars => StopInv'
BY StopStep, NextIsLoopStep

\* What the stop request costs until Close, when a publish that follows it takes no
\* longer than the given time.
LEMMA StopBound ==
    ASSUME NEW limit \in Nat, TypeOK, PollInv, StopWithin(limit), Answered(limit),
           CalmFor(limit), Running, ~wedged
    PROVE  stopAge <= 2 * limit + 3 * Jitter
<1>0. /\ Jitter \in Nat /\ late \in Nat /\ inPhase \in Nat /\ stopAge \in Nat
  BY TimesAssumption DEF TypeOK
<1>1. CASE ~stop
  BY <1>0, <1>1 DEF StopWithin
<1>2. CASE stop /\ pc \in Phases
  <2>1. pc = "publish" => stopAge = 0 \/ inPhase <= limit
    BY DEF Answered
  <2>2. QED
    BY <1>0, <1>2, <2>1 DEF StopWithin
<1>3. CASE stop /\ pc = "select"
  BY <1>0, <1>3 DEF StopWithin, PollInv
<1>4. CASE stop /\ pc = "top"
  BY <1>0, <1>4 DEF StopWithin
<1>5. QED
  BY <1>1, <1>2, <1>3, <1>4 DEF Running

\* A stop request reaches Close within two publish timeouts and three
\* wake-ups, whenever it comes and whatever the select picks, for all times
\* with that much room between passes and between ticks.
THEOREM StopIsPromptHolds == Spec => []StopIsPrompt
<1>1. PollInv => Answered(PublishTimeout)
  BY PublishLimit DEF PollInv, Answered, Phases
<1>2. TypeOK /\ PollInv /\ StopInv => StopIsPrompt
  BY <1>1, StopBound, TimesAssumption DEF StopInv, StopIsPrompt, Calm
<1>3. QED
  BY <1>2, TypingInit, TypingNext, AgesInit, AgesNext, StopInit, StopNext, PTL DEF Spec

\* The ages, the wedge and the stop request, in one inductive invariant, for
\* all times.
THEOREM LoopInvHolds == Spec => []LoopInv
<1>1. PollInv /\ WedgeInv /\ StopInv => LoopInv
  BY DEF LoopInv
<1>2. QED
  BY <1>1, TypingInit, TypingNext, AgesInit, AgesNext, WedgeInit, WedgeNext,
     StopInit, StopNext, PTL DEF Spec
=============================================================================
