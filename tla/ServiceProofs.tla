----------------------------- MODULE ServiceProofs -----------------------------
(***************************************************************************)
(* Theorems about Service, for all times, any burst and any interval.  The *)
(* argument: what the process does between its start and its end is a step *)
(* of module Poll, so that the bounds proved there hold of it; the rest is *)
(* bookkeeping of how long each kind of start takes.                       *)
(***************************************************************************)
EXTENDS Service, PollProofs, Integers

LEMMA LimitTypes ==
    /\ ConnectTimeout \in Nat /\ ConnectTime \in Nat
    /\ RestartSec \in Nat /\ RestartSec > 0
    /\ StartLimitInterval \in Nat
    /\ StartLimitBurst \in Nat /\ StartLimitBurst > 0
    /\ TimeoutStopSec \in Nat /\ Quiesce \in Nat /\ Prompt \in Nat
BY ServiceAssumption

\* What a step of the loop leaves alone.
LEMMA PollStepFacts ==
    ASSUME PollStep
    PROVE  /\ pc \in Phases \cup {"top", "select"}
           /\ pc' \in Phases \cup {"top", "select", "returned"}
           /\ stop' = stop /\ stopAge' = stopAge
           /\ sincePing' = 0 \/ sincePing' = sincePing
           /\ wedged => wedged'
           /\ pc' = "returned" => pc = "select" /\ stop /\ inPhase' = inPhase
           /\ pc' \in {"top", "select"}
              => inPhase' = 0 \/ (pc = "select" /\ inPhase' = inPhase)
           /\ pc' = "publish" => inPhase' = 0
BY DEF PollStep, PassPublishes, PassSkips, Ping, HealthAnswers, HealthFails, ModelsEnds,
       MetricsEnds, SmiEnds, GoTo, SmiHangs, PublishEnds, TakesTick, TakesDone, FirstPhase,
       Phases, EnginePhases

\* A process that is gone leaves its loop as Init has it.
LEMMA GoneFacts ==
    ASSUME NEW next, Gone(next)
    PROVE  unit' = next /\ unitAge' = 0 /\ Init'
BY DEF Gone, Init

\* What time does to the loop, before it has returned and after.
LoopTime ==
    \/ Up /\ pc # "returned" /\ TimePasses
    \/ /\ Up /\ pc = "returned"
       /\ inPhase' = inPhase + 1
       /\ UNCHANGED <<pc, untilTick, pending, late, sincePing, sincePub, wedged, stop, stopAge>>
    \/ ~Up /\ UNCHANGED vars

LEMMA PassesFacts ==
    ASSUME Passes
    PROVE  /\ LoopTime /\ UNCHANGED <<unit, brokerVars>> /\ ~Over /\ WindowAges
           /\ unitAge' = IF unit = "running" THEN 0 ELSE unitAge + 1
           /\ trying' = IF Up \/ trying = TryingCap THEN trying ELSE trying + 1
           /\ slow' = (slow \/ (unit = "stopping" /\ Late))
           /\ unit = "starting" => unitAge < ConnectTimeout
           /\ unit = "waiting" => unitAge < RestartSec
           /\ unit = "running" => ~WatchdogExpired
           /\ unit = "stopping" => unitAge < TimeoutStopSec
BY DEF Passes, LoopTime

LEMMA TimePassesFacts ==
    ASSUME TypeOK, TimePasses
    PROVE  /\ pc \in Phases \cup {"select"} /\ pc' = pc /\ stop' = stop /\ wedged' = wedged
           /\ sincePing' \in Nat /\ sincePing' <= sincePing + 1
           /\ inPhase' = IF pc \in Phases THEN Older(inPhase) ELSE 0
           /\ stopAge' = IF stop THEN Older(stopAge) ELSE 0
BY OlderFacts DEF TimePasses, PingAges, TypeOK
-----------------------------------------------------------------------------
(***************************************************************************)
(* The process: its steps are those of Poll, or its end, or time in Close. *)
(***************************************************************************)
InClose ==
    /\ pc = "returned"
    /\ inPhase' = inPhase + 1
    /\ UNCHANGED <<pc, untilTick, pending, late, sincePing, sincePub, wedged, stop, stopAge>>

LEMMA ProcessSteps ==
    ASSUME [ServiceNext]_serviceVars
    PROVE  [LoopStep]_vars \/ Init' \/ InClose
<1>1. CASE Connects \/ BrokerChanges \/ Restarts \/ UNCHANGED serviceVars
  BY <1>1 DEF Connects, BrokerChanges, Restarts, serviceVars
<1>2. CASE Works
  BY <1>2 DEF Works, LoopStep
<1>3. CASE StartFails \/ ConnectTimesOut \/ CloseReturns \/ Aborts \/ StopTimesOut
  BY <1>3, GoneFacts DEF StartFails, ConnectTimesOut, CloseReturns, Aborts, StopTimesOut
<1>4. CASE Stops
  BY <1>4, GoneFacts DEF Stops, LoopStep
<1>5. CASE Passes
  BY <1>5, PassesFacts DEF LoopTime, InClose, LoopStep
<1>6. QED
  BY <1>1, <1>2, <1>3, <1>4, <1>5 DEF ServiceNext

LEMMA LoopTypingNext == TypeOK /\ [ServiceNext]_serviceVars => TypeOK'
<1>1. Init' => TypeOK'
  BY TypingInit, PTL
<1>2. TypeOK /\ InClose => TypeOK'
  BY DEF TypeOK, InClose
<1>3. QED
  BY <1>1, <1>2, TypingStep, ProcessSteps

\* How old the last ping and the last publish are holds from start to start.
LEMMA LoopAgesNext == TypeOK /\ PollInv /\ [ServiceNext]_serviceVars => PollInv'
<1>1. Init' => PollInv'
  BY AgesInit, PTL
<1>2. InClose => PollInv'
  BY DEF PollInv, InClose, Phases, EnginePhases
<1>3. QED
  BY <1>1, <1>2, AgesStep, ProcessSteps

LEMMA ProcessInit == ServiceInit => ProcessInv
BY DEF ServiceInit, ProcessInv, Up, Init

LEMMA ProcessNext == TypeOK /\ ProcessInv /\ [ServiceNext]_serviceVars => ProcessInv'
<1> SUFFICES ASSUME TypeOK, ProcessInv, [ServiceNext]_serviceVars
             PROVE  ProcessInv'
  OBVIOUS
<1>1. ASSUME Init', ~Up' PROVE ProcessInv'
  BY <1>1 DEF ProcessInv, Up, Init
<1>2. CASE Connects
  BY <1>2 DEF Connects, ProcessInv, Up, Init, vars
<1>3. CASE StartFails \/ ConnectTimesOut \/ CloseReturns \/ Aborts \/ StopTimesOut
  BY <1>1, <1>3, GoneFacts
  DEF StartFails, ConnectTimesOut, CloseReturns, Aborts, StopTimesOut, Up
<1>4. CASE BrokerChanges \/ Restarts
  <2>1. UNCHANGED vars
    BY <1>4 DEF BrokerChanges, Restarts
  <2>2. Init => Init'
    BY <2>1 DEF vars, Init
  <2>3. unit' = unit \/ (unit = "waiting" /\ unit' \in {"starting", "failed"})
    BY <1>4 DEF BrokerChanges, Restarts, unitVars
  <2>4. QED
    BY <2>1, <2>2, <2>3 DEF ProcessInv, Up, vars
<1>5. CASE Works
  <2>1. Up /\ PollStep /\ unit' = unit
    BY <1>5 DEF Works
  <2>2. QED
    BY <2>1, PollStepFacts DEF ProcessInv, Up, Phases, EnginePhases
<1>6. CASE Stops
  <2>1. CASE Signal /\ unit = "running" /\ unit' = "stopping"
    BY <2>1 DEF Signal, ProcessInv, Up
  <2>2. CASE Gone("stopped")
    BY <1>1, <2>2, GoneFacts DEF Up
  <2>3. QED
    BY <1>6, <2>1, <2>2 DEF Stops
<1>7. CASE Passes
  <2>1. LoopTime /\ unit' = unit
    BY <1>7, PassesFacts
  <2>2. CASE Up /\ TimePasses
    BY <2>1, <2>2, TimePassesFacts DEF ProcessInv, Up, Phases, EnginePhases
  <2>3. CASE Up /\ InClose
    BY <2>1, <2>3 DEF ProcessInv, Up, InClose
  <2>4. CASE ~Up /\ UNCHANGED vars
    BY <2>1, <2>4 DEF ProcessInv, Up, vars, Init
  <2>5. QED
    BY <2>1, <2>2, <2>3, <2>4 DEF LoopTime, InClose
<1>8. CASE UNCHANGED serviceVars
  BY <1>8 DEF serviceVars, vars, unitVars, ProcessInv, Up, Init
<1>9. QED
  BY <1>2, <1>3, <1>4, <1>5, <1>6, <1>7, <1>8 DEF ServiceNext
-----------------------------------------------------------------------------
(***************************************************************************)
(* What the unit counts: a start that found no broker, or had a fault, is  *)
(* one of those counted, and none is counted beyond the burst but in a     *)
(* unit that failed.                                                       *)
(***************************************************************************)
LEMMA CountInit == ServiceInit => ServiceTypeOK /\ CountInv
<1> SUFFICES ASSUME ServiceInit
             PROVE  ServiceTypeOK /\ CountInv
  OBVIOUS
<1>1. TypeOK
  BY TypingInit DEF ServiceInit
<1>2. /\ unit = "starting" /\ unitAge = 0 /\ starts = 1 /\ window = 0 /\ refused = 0
      /\ faulty = 0 /\ trying = 0 /\ broker \in BOOLEAN /\ missed \in BOOLEAN /\ slow \in BOOLEAN
  BY DEF ServiceInit
<1>3. QED
  BY <1>1, <1>2, LimitTypes DEF ServiceTypeOK, CountInv, Up

LEMMA UnitTypingNext ==
    ServiceTypeOK /\ CountInv /\ [ServiceNext]_serviceVars => ServiceTypeOK'
<1> SUFFICES ASSUME ServiceTypeOK, CountInv, [ServiceNext]_serviceVars
             PROVE  ServiceTypeOK'
  OBVIOUS
<1> DEFINE Units == {"starting", "running", "stopping", "waiting", "failed", "stopped", "cut"}
           Times == unitAge \in Nat /\ window \in Nat /\ trying \in Nat
           Counts == /\ starts \in 0..StartLimitBurst + 1
                     /\ refused \in 0..StartLimitBurst
                     /\ faulty \in 0..StartLimitBurst
           Flags == broker \in BOOLEAN /\ missed \in BOOLEAN /\ slow \in BOOLEAN
<1>0. unit \in Units /\ Times /\ Counts /\ Flags
  BY DEF ServiceTypeOK
<1>1. TypeOK'
  BY LoopTypingNext DEF ServiceTypeOK
<1>2. SUFFICES unit' \in Units /\ Times' /\ Counts' /\ Flags'
  BY <1>1 DEF ServiceTypeOK
<1> HIDE DEF Units
<1>u. {"starting", "running", "stopping", "waiting", "failed", "stopped", "cut"} \subseteq Units
  BY DEF Units
<1>3. CASE Connects
  BY <1>0, <1>3, <1>u DEF Connects
<1>4. CASE StartFails \/ ConnectTimesOut
  <2>1. /\ unit' = "waiting" /\ unitAge' = 0 /\ unit = "starting"
        /\ \/ refused' = refused + 1 /\ faulty' = faulty
           \/ refused' = refused /\ faulty' = faulty + 1
        /\ UNCHANGED <<starts, window, trying, slow, broker, missed>>
    BY <1>4, GoneFacts DEF StartFails, ConnectTimesOut, brokerVars
  <2>2. refused + faulty + 1 <= StartLimitBurst
    BY <1>0, <2>1, LimitTypes DEF CountInv
  <2>3. QED
    BY <1>0, <1>u, <2>1, <2>2, LimitTypes
<1>5. CASE BrokerChanges
  <2>1. broker' \in BOOLEAN /\ missed' \in BOOLEAN /\ UNCHANGED unitVars
    BY <1>5 DEF BrokerChanges
  <2>2. QED
    BY <1>0, <2>1 DEF unitVars
<1>6. CASE Works
  <2>1. /\ unit' = unit /\ unitAge' \in {0, unitAge}
        /\ UNCHANGED <<starts, window, refused, faulty, trying, slow, broker, missed>>
    BY <1>6 DEF Works, brokerVars
  <2>2. QED
    BY <1>0, <2>1
<1>7. CASE CloseReturns \/ Aborts \/ Stops \/ StopTimesOut
  <2>1. /\ unit' \in {"waiting", "stopping", "stopped", "cut"} /\ unitAge' = 0
        /\ UNCHANGED <<starts, window, refused, faulty, trying, slow, broker, missed>>
    BY <1>7, GoneFacts DEF CloseReturns, Aborts, Stops, StopTimesOut, brokerVars
  <2>2. QED
    BY <1>0, <1>u, <2>1
<1>8. CASE Restarts
  <2>1. /\ unit = "waiting" /\ unit' \in {"starting", "failed"} /\ unitAge' = 0 /\ Counted
        /\ UNCHANGED <<trying, slow, broker>>
    BY <1>8 DEF Restarts
  <2>2. missed' \in BOOLEAN
    BY <1>8 DEF Restarts
  <2>3. Counts' /\ window' \in Nat
    BY <1>0, <2>1, LimitTypes DEF Counted, CountInv
  <2>4. QED
    BY <1>0, <1>u, <2>1, <2>2, <2>3
<1>9. CASE Passes
  <2>1. /\ unit' = unit /\ WindowAges /\ UNCHANGED <<broker, missed>>
        /\ unitAge' = IF unit = "running" THEN 0 ELSE unitAge + 1
        /\ trying' = IF Up \/ trying = TryingCap THEN trying ELSE trying + 1
    BY <1>9, PassesFacts DEF brokerVars
  <2>2. slow' \in BOOLEAN
    <3>1. slow' = (slow \/ (unit = "stopping" /\ Late))
      BY <1>9, PassesFacts
    <3>2. QED
      BY <3>1
  <2>3. Counts' /\ window' \in Nat
    BY <1>0, <2>1, LimitTypes DEF WindowAges
  <2>4. QED
    BY <1>0, <2>1, <2>2, <2>3
<1>10. CASE UNCHANGED serviceVars
  BY <1>0, <1>10 DEF serviceVars, unitVars, brokerVars
<1>11. QED
  BY <1>3, <1>4, <1>5, <1>6, <1>7, <1>8, <1>9, <1>10 DEF ServiceNext

LEMMA CountNext ==
    ServiceTypeOK /\ CountInv /\ [ServiceNext]_serviceVars => CountInv'
<1> SUFFICES ASSUME ServiceTypeOK, CountInv, [ServiceNext]_serviceVars
             PROVE  CountInv'
  OBVIOUS
<1>0. /\ unitAge \in Nat /\ window \in Nat /\ trying \in Nat
      /\ starts \in Nat /\ refused \in Nat /\ faulty \in Nat
  BY DEF ServiceTypeOK
<1>1. CASE Connects
  BY <1>0, <1>1 DEF Connects, CountInv, Up
<1>2. CASE StartFails \/ ConnectTimesOut
  <2>1. /\ unit' = "waiting" /\ unitAge' = 0 /\ unit = "starting"
        /\ \/ refused' = refused + 1 /\ faulty' = faulty
           \/ refused' = refused /\ faulty' = faulty + 1
        /\ UNCHANGED <<starts, window, trying>>
    BY <1>2, GoneFacts DEF StartFails, ConnectTimesOut
  <2>2. QED
    BY <1>0, <2>1, LimitTypes DEF CountInv, Up
<1>3. CASE BrokerChanges
  BY <1>3 DEF BrokerChanges, unitVars, CountInv, Up
<1>4. CASE Works
  <2>1. unit' = unit /\ Up /\ UNCHANGED <<starts, window, refused, faulty, trying>>
    BY <1>4 DEF Works
  <2>2. QED
    BY <2>1 DEF CountInv, Up
<1>5. CASE CloseReturns \/ Aborts \/ Stops \/ StopTimesOut
  <2>1. /\ unit' \in {"waiting", "stopping", "stopped", "cut"} /\ unitAge' = 0
        /\ unit \in {"starting", "running", "stopping", "waiting"}
        /\ unit' = "stopping" => unit = "running"
        /\ UNCHANGED <<starts, window, refused, faulty, trying>>
    BY <1>5, GoneFacts DEF CloseReturns, Aborts, Stops, StopTimesOut, Up
  <2>2. QED
    BY <1>0, <2>1, LimitTypes DEF CountInv, Up
<1>6. CASE Restarts
  <2>1. /\ unit = "waiting" /\ unitAge' = 0 /\ Counted
        /\ unit' = IF starts' <= StartLimitBurst THEN "starting" ELSE "failed"
    BY <1>6 DEF Restarts
  <2>2. QED
    BY <1>0, <2>1, LimitTypes DEF Counted, CountInv, Up
<1>7. CASE Passes
  <2>1. /\ unit' = unit /\ ~Over /\ WindowAges
        /\ unitAge' = IF unit = "running" THEN 0 ELSE unitAge + 1
        /\ trying' = IF Up \/ trying = TryingCap THEN trying ELSE trying + 1
        /\ unit = "starting" => unitAge < ConnectTimeout
        /\ unit = "waiting" => unitAge < RestartSec
    BY <1>7, PassesFacts
  <2>2. CASE starts > 0 /\ window = StartLimitInterval
    BY <1>0, <2>1, <2>2, LimitTypes DEF WindowAges, CountInv, Up, Over
  <2>3. CASE ~(starts > 0 /\ window = StartLimitInterval)
    BY <1>0, <2>1, <2>3, LimitTypes DEF WindowAges, CountInv, Up, Over
  <2>4. QED
    BY <2>2, <2>3
<1>8. CASE UNCHANGED serviceVars
  BY <1>8 DEF serviceVars, unitVars, CountInv, Up
<1>9. QED
  BY <1>1, <1>2, <1>3, <1>4, <1>5, <1>6, <1>7, <1>8 DEF ServiceNext

-----------------------------------------------------------------------------
(***************************************************************************)
(* How long the starts took at least.  A product of two numbers is met in  *)
(* these lemmas only: one more outage, one more hang, and the order.       *)
(***************************************************************************)
LEMMA ElapsedFacts ==
    ASSUME NEW r \in Nat, NEW f \in Nat, NEW n \in Nat
    PROVE  /\ Elapsed(r, f, n) \in Int
           /\ Elapsed(r + 1, f, n + 1) = Elapsed(r, f, n) + AttemptTime
           /\ Elapsed(r, f + 1, n + 1) = Elapsed(r, f, n) + RestartSec
           /\ Elapsed(r, f, n + 1) = Elapsed(r, f, n) + HangTime
<1>1. /\ AttemptTime \in Nat /\ HangTime \in Nat /\ RestartSec \in Nat
  BY LimitTypes, TimesAssumption DEF AttemptTime, HangTime
<1> HIDE DEF AttemptTime, HangTime
<1>3. \A a \in Nat, k \in Int : (k + 1) * a = k * a + a /\ k * a \in Int
  OBVIOUS
<1>4. (r + 1) * AttemptTime = r * AttemptTime + AttemptTime
  BY <1>1, <1>3
<1>5. (f + 1) * RestartSec = f * RestartSec + RestartSec
  BY <1>1, <1>3
<1>6. n - r - f \in Int
  OBVIOUS
<1>7. ((n - r - f) + 1) * HangTime = (n - r - f) * HangTime + HangTime
  BY <1>1, <1>3, <1>6
<1>8. /\ (n + 1) - (r + 1) - f = n - r - f
      /\ (n + 1) - r - (f + 1) = n - r - f
      /\ (n + 1) - r - f = (n - r - f) + 1
  OBVIOUS
<1>9. /\ r * AttemptTime \in Int /\ f * RestartSec \in Int
      /\ (n - r - f) * HangTime \in Int
  BY <1>1, <1>3, <1>6
<1>10. QED
  BY <1>1, <1>4, <1>5, <1>7, <1>8, <1>9 DEF Elapsed

LEMMA ElapsedNone ==
    /\ AttemptTime \in Nat /\ HangTime \in Nat
    /\ Elapsed(0, 0, 0) = 0
<1>1. /\ AttemptTime \in Nat /\ HangTime \in Nat /\ RestartSec \in Nat
  BY LimitTypes, TimesAssumption DEF AttemptTime, HangTime
<1> HIDE DEF AttemptTime, HangTime
<1>2. QED
  BY <1>1 DEF Elapsed

LEMMA AtLeastInit == ServiceInit => AtLeastInv
BY ElapsedNone DEF ServiceInit, AtLeastInv, Init

LEMMA AtLeastNext ==
    ServiceTypeOK /\ CountInv /\ ProcessInv /\ AtLeastInv /\ [ServiceNext]_serviceVars
    => AtLeastInv'
<1> SUFFICES ASSUME ServiceTypeOK, CountInv, ProcessInv, AtLeastInv,
                    [ServiceNext]_serviceVars, starts' > 0
             PROVE  /\ unit' = "starting" =>
                          window' >= Elapsed(refused', faulty', starts' - 1) + unitAge'
                    /\ unit' = "running" =>
                          window' >= Elapsed(refused', faulty', starts' - 1) + sincePing'
                    /\ unit' = "waiting" =>
                          window' + RestartSec >= Elapsed(refused', faulty', starts') + unitAge'
                    /\ unit' = "failed" => window' >= Elapsed(refused', faulty', StartLimitBurst)
  BY DEF AtLeastInv
<1>0. /\ unitAge \in Nat /\ window \in Nat /\ starts \in Nat /\ refused \in Nat
      /\ faulty \in Nat
      /\ sincePing \in Nat
  BY DEF ServiceTypeOK, TypeOK
<1>t. /\ RestartSec \in Nat /\ ConnectTimeout \in Nat /\ WatchdogSec \in Nat
      /\ AttemptTime = ConnectTimeout + RestartSec /\ HangTime = WatchdogSec + RestartSec
  BY LimitTypes, TimesAssumption DEF AttemptTime, HangTime
<1>i. ASSUME starts > 0
      PROVE  /\ unit = "starting" => window >= Elapsed(refused, faulty, starts - 1) + unitAge
             /\ unit = "running" => window >= Elapsed(refused, faulty, starts - 1) + sincePing
             /\ unit = "waiting" =>
                   window + RestartSec >= Elapsed(refused, faulty, starts) + unitAge
             /\ unit = "failed" => window >= Elapsed(refused, faulty, StartLimitBurst)
  BY <1>i DEF AtLeastInv
<1>e. starts > 0 => /\ starts - 1 \in Nat /\ (starts - 1) + 1 = starts
                    /\ Elapsed(refused, faulty, starts - 1) \in Int
                    /\ Elapsed(refused, faulty, starts)
                           = Elapsed(refused, faulty, starts - 1) + HangTime
                    /\ Elapsed(refused + 1, faulty, starts)
                           = Elapsed(refused, faulty, starts - 1) + AttemptTime
                    /\ Elapsed(refused, faulty + 1, starts)
                           = Elapsed(refused, faulty, starts - 1) + RestartSec
  <2>1. starts > 0 => starts - 1 \in Nat /\ (starts - 1) + 1 = starts
    BY <1>0
  <2>2. ASSUME NEW n \in Nat
        PROVE  /\ Elapsed(refused, faulty, n) \in Int
               /\ Elapsed(refused + 1, faulty, n + 1) = Elapsed(refused, faulty, n) + AttemptTime
               /\ Elapsed(refused, faulty + 1, n + 1) = Elapsed(refused, faulty, n) + RestartSec
               /\ Elapsed(refused, faulty, n + 1) = Elapsed(refused, faulty, n) + HangTime
    BY <1>0, ElapsedFacts
  <2>3. ASSUME starts > 0
        PROVE  /\ Elapsed(refused, faulty, starts - 1) \in Int
               /\ Elapsed(refused, faulty, starts)
                      = Elapsed(refused, faulty, starts - 1) + HangTime
               /\ Elapsed(refused + 1, faulty, starts)
                      = Elapsed(refused, faulty, starts - 1) + AttemptTime
               /\ Elapsed(refused, faulty + 1, starts)
                      = Elapsed(refused, faulty, starts - 1) + RestartSec
    <3>1. PICK n \in Nat : n = starts - 1 /\ n + 1 = starts
      BY <2>1, <2>3
    <3>2. QED
      BY <2>2, <3>1
  <2>4. QED
    BY <2>1, <2>3
<1>1. CASE Connects
  <2>1. /\ unit' = "running" /\ unit = "starting" /\ sincePing' = 0
        /\ UNCHANGED <<starts, window, refused, faulty>>
    BY <1>1 DEF Connects, ProcessInv, Up, Init, vars
  <2>2. QED
    BY <1>0, <1>e, <1>i, <2>1
<1>2. CASE ConnectTimesOut
  <2>1. /\ unit' = "waiting" /\ unitAge' = 0 /\ unit = "starting" /\ unitAge = ConnectTimeout
        /\ refused' = refused + 1 /\ UNCHANGED <<starts, window, faulty>>
    BY <1>2, GoneFacts DEF ConnectTimesOut
  <2>2. QED
    BY <1>0, <1>t, <1>e, <1>i, <2>1
<1>3. CASE BrokerChanges
  BY <1>i, <1>3 DEF BrokerChanges, unitVars, vars
<1>4. CASE Works
  <2>1. /\ unit' = unit /\ Up /\ UNCHANGED <<starts, window, refused, faulty>>
        /\ sincePing' = 0 \/ sincePing' = sincePing
    BY <1>4, PollStepFacts DEF Works
  <2>2. QED
    BY <1>0, <1>e, <1>i, <2>1 DEF Up
<1>5. CASE CloseReturns \/ Stops \/ StopTimesOut
  BY <1>5, GoneFacts DEF CloseReturns, Stops, StopTimesOut
<1>6. CASE Aborts
  <2>1. /\ unit' = "waiting" /\ unitAge' = 0 /\ unit = "running" /\ sincePing >= WatchdogSec
        /\ UNCHANGED <<starts, window, refused, faulty>>
    BY <1>6, GoneFacts DEF Aborts, WatchdogExpired
  <2>2. QED
    BY <1>0, <1>t, <1>e, <1>i, <2>1
<1>7. CASE Restarts
  <2>1. /\ unit = "waiting" /\ unitAge = RestartSec /\ unitAge' = 0 /\ Counted
        /\ unit' = IF starts' <= StartLimitBurst THEN "starting" ELSE "failed"
    BY <1>7 DEF Restarts
  <2>2. CASE starts = 0
    <3>1. starts' = 1 /\ window' = 0 /\ refused' = 0 /\ faulty' = 0 /\ unit' = "starting"
      BY <2>1, <2>2, LimitTypes DEF Counted
    <3>2. QED
      BY <2>1, <3>1, ElapsedNone
  <2>3. CASE starts > 0
    <3>1. starts' = starts + 1 /\ window' = window /\ refused' = refused /\ faulty' = faulty
      BY <1>0, <2>1, <2>3 DEF Counted
    <3>2. window >= Elapsed(refused, faulty, starts)
      BY <1>0, <1>t, <1>e, <1>i, <2>1, <2>3, ElapsedFacts
    <3>3. unit' = "starting" \/ (unit' = "failed" /\ starts = StartLimitBurst)
      BY <1>0, <2>1, <3>1, LimitTypes DEF CountInv
    <3>4. starts' - 1 = starts
      BY <1>0, <3>1
    <3>5. Elapsed(refused, faulty, starts) \in Int
      BY <1>0, ElapsedFacts
    <3>6. QED
      BY <1>0, <2>1, <3>1, <3>2, <3>3, <3>4, <3>5
  <2>4. QED
    BY <1>0, <2>2, <2>3
<1>8. CASE Passes
  <2>1. /\ unit' = unit /\ ~Over /\ LoopTime
        /\ unitAge' = IF unit = "running" THEN 0 ELSE unitAge + 1
    BY <1>8, PassesFacts
  <2>2. /\ starts > 0 /\ starts' = starts /\ window' = window + 1 /\ refused' = refused
        /\ faulty' = faulty
    BY <1>0, <1>8, PassesFacts DEF WindowAges
  <2>3. unit = "running" => sincePing' \in Nat /\ sincePing' <= sincePing + 1
    BY <1>0, <2>1, TimePassesFacts DEF LoopTime, Up, ServiceTypeOK, ProcessInv
  <2>4. QED
    BY <1>0, <1>t, <1>e, <1>i, <2>1, <2>2, <2>3 DEF Over
<1>9. CASE UNCHANGED serviceVars
  BY <1>i, <1>9 DEF serviceVars, unitVars, vars
<1>10. CASE StartFails
  <2>1. /\ unit' = "waiting" /\ unitAge' = 0 /\ unit = "starting" /\ unitAge = 0
        /\ faulty' = faulty + 1 /\ UNCHANGED <<starts, window, refused>>
    BY <1>10, GoneFacts DEF StartFails
  <2>2. QED
    BY <1>0, <1>t, <1>e, <1>i, <2>1
<1>11. QED
  BY <1>1, <1>2, <1>3, <1>4, <1>5, <1>6, <1>7, <1>8, <1>9, <1>10 DEF ServiceNext

-----------------------------------------------------------------------------
(***************************************************************************)
(* How long the attempts took at most.  When a whole burst of outages fits *)
(* into the interval, an interval that began with an attempt does not end  *)
(* before the burst is used up.                                            *)
(***************************************************************************)
LEMMA AttemptsFacts ==
    /\ AttemptTime \in Nat /\ AttemptTime = ConnectTimeout + RestartSec
    /\ \A n \in Nat : Attempts(n) \in Nat
    /\ Attempts(0) = 0
    /\ \A n \in Nat : Attempts(n + 1) = Attempts(n) + AttemptTime
    /\ \A m \in Nat, n \in Nat : m <= n => Attempts(m) <= Attempts(n)
<1>1. AttemptTime \in Nat /\ AttemptTime = ConnectTimeout + RestartSec
  BY LimitTypes DEF AttemptTime
<1> HIDE DEF AttemptTime
<1>2. \A a \in Nat, n \in Nat : n * a \in Nat /\ (n + 1) * a = n * a + a /\ 0 * a = 0
  OBVIOUS
<1>3. ASSUME NEW m \in Nat, NEW n \in Nat, m <= n
      PROVE  Attempts(m) <= Attempts(n)
  <2>1. n - m \in Nat /\ n = m + (n - m)
    BY <1>3
  <2>2. \A a \in Nat, k \in Nat : (m + k) * a = m * a + k * a /\ k * a \in Nat
    OBVIOUS
  <2>3. n * AttemptTime = m * AttemptTime + (n - m) * AttemptTime
    BY <1>1, <2>1, <2>2
  <2>4. m * AttemptTime \in Nat /\ (n - m) * AttemptTime \in Nat
    BY <1>1, <2>1, <1>2
  <2>5. QED
    BY <2>3, <2>4 DEF Attempts
<1>4. QED
  BY <1>1, <1>2, <1>3 DEF Attempts

LEMMA AtMostInit == ServiceInit => AtMostInv
<1> SUFFICES ASSUME ServiceInit
             PROVE  AtMostInv
  OBVIOUS
<1>1. unit = "starting" /\ starts = 1 /\ trying = 0 /\ window = 0 /\ unitAge = 0
  BY DEF ServiceInit
<1>2. Attempts(StartLimitBurst - 1) \in Nat /\ Attempts(starts - 1) = 0
  <2>1. StartLimitBurst - 1 \in Nat /\ starts - 1 = 0
    BY <1>1, LimitTypes
  <2>2. QED
    BY <2>1, AttemptsFacts
<1>3. /\ trying <= RestartSec + Attempts(StartLimitBurst - 1) + window
      /\ window <= Attempts(starts - 1) + unitAge
  BY <1>1, <1>2, LimitTypes
<1>4. QED
  BY <1>1, <1>3 DEF AtMostInv

\* What the steps of the proof below need of the products: one attempt more or
\* less, below the burst.
LEMMA AttemptsBelow ==
    ASSUME NEW n \in Nat, n <= StartLimitBurst
    PROVE  /\ n >= 1 => /\ n - 1 \in Nat
                        /\ Attempts(n) = Attempts(n - 1) + AttemptTime
                        /\ Attempts(n - 1) <= Attempts(StartLimitBurst - 1)
           /\ n >= 2 => /\ n - 2 \in Nat
                        /\ Attempts(n - 1) = Attempts(n - 2) + AttemptTime
                        /\ Attempts(n - 2) <= Attempts(StartLimitBurst - 2)
<1>1. StartLimitBurst - 1 \in Nat /\ (n >= 2 => StartLimitBurst - 2 \in Nat)
  BY LimitTypes
<1>2. ASSUME n >= 1
      PROVE  /\ n - 1 \in Nat
             /\ Attempts(n) = Attempts(n - 1) + AttemptTime
             /\ Attempts(n - 1) <= Attempts(StartLimitBurst - 1)
  <2>1. n - 1 \in Nat /\ (n - 1) + 1 = n /\ n - 1 <= StartLimitBurst - 1
    BY <1>2, LimitTypes
  <2>2. QED
    BY <1>1, <2>1, AttemptsFacts
<1>3. ASSUME n >= 2
      PROVE  /\ n - 2 \in Nat
             /\ Attempts(n - 1) = Attempts(n - 2) + AttemptTime
             /\ Attempts(n - 2) <= Attempts(StartLimitBurst - 2)
  <2>1. n - 2 \in Nat /\ (n - 2) + 1 = n - 1 /\ n - 2 <= StartLimitBurst - 2
    BY <1>3, LimitTypes
  <2>2. QED
    BY <1>1, <1>3, <2>1, AttemptsFacts
<1>4. QED
  BY <1>2, <1>3

LEMMA AtMostNext ==
    ASSUME Contained, ServiceTypeOK, CountInv, AtMostInv, [ServiceNext]_serviceVars
    PROVE  AtMostInv'
<1> DEFINE Burst == StartLimitBurst
           Whole == RestartSec + Attempts(Burst - 1)
           AtStart == IF starts = 0
                      THEN Burst >= 2 /\ trying <= RestartSec + Attempts(Burst - 2) + unitAge
                      ELSE \/ starts >= 2 /\ trying <= RestartSec + Attempts(starts - 2) + unitAge
                           \/ /\ trying <= Whole + window
                              /\ window <= Attempts(starts - 1) + unitAge
           AtWait == IF starts = 0
                     THEN trying <= Attempts(Burst - 1) + unitAge
                     ELSE \/ trying <= Attempts(starts - 1) + unitAge
                          \/ /\ trying <= Whole + window
                             /\ window <= Attempts(starts - 1) + ConnectTimeout + unitAge
<1>0. /\ unitAge \in Nat /\ window \in Nat /\ starts \in Nat /\ trying \in Nat
      /\ RestartSec \in Nat /\ RestartSec > 0 /\ ConnectTimeout \in Nat
      /\ StartLimitInterval \in Nat /\ Burst \in Nat /\ Burst > 0
      /\ AttemptTime \in Nat /\ AttemptTime = ConnectTimeout + RestartSec
  BY LimitTypes, AttemptsFacts DEF ServiceTypeOK
<1>1. (unit = "starting" => AtStart) /\ (unit = "waiting" => AtWait)
  BY DEF AtMostInv
<1>2. SUFFICES (unit' = "starting" => AtStart') /\ (unit' = "waiting" => AtWait')
  BY DEF AtMostInv
<1>3. /\ starts <= Burst \/ unit = "failed"
      /\ unit = "starting" => unitAge <= ConnectTimeout
      /\ unit = "waiting" => unitAge <= RestartSec
  BY DEF CountInv
<1>4. /\ Burst - 1 \in Nat /\ Attempts(Burst - 1) \in Nat
      /\ Attempts(Burst) = Attempts(Burst - 1) + AttemptTime
      /\ Attempts(Burst) <= StartLimitInterval
      /\ Burst >= 2 => /\ Attempts(Burst - 2) \in Nat
                       /\ Attempts(Burst - 1) = Attempts(Burst - 2) + AttemptTime
  BY <1>0, AttemptsBelow, AttemptsFacts DEF Contained, Attempts
<1>5. ASSUME starts <= Burst
      PROVE  /\ starts >= 1 => /\ Attempts(starts - 1) \in Nat
                               /\ Attempts(starts) = Attempts(starts - 1) + AttemptTime
                               /\ Attempts(starts - 1) <= Attempts(Burst - 1)
             /\ starts >= 2 => /\ Attempts(starts - 2) \in Nat
                               /\ Attempts(starts - 1) = Attempts(starts - 2) + AttemptTime
                               /\ Attempts(starts - 2) <= Attempts(Burst - 2)
  BY <1>0, <1>5, AttemptsBelow, AttemptsFacts
<1> HIDE DEF Burst
<1>6. CASE Connects \/ CloseReturns \/ StopTimesOut \/ Stops
  BY <1>6, GoneFacts DEF Connects, CloseReturns, StopTimesOut, Stops
<1>7. CASE StartFails \/ ConnectTimesOut
  <2>1. /\ unit = "starting" /\ unitAge <= ConnectTimeout /\ unit' = "waiting" /\ unitAge' = 0
        /\ UNCHANGED <<starts, window, trying>>
    BY <1>3, <1>7, GoneFacts DEF StartFails, ConnectTimesOut
  <2>2. starts <= Burst /\ AtStart
    BY <1>1, <1>3, <2>1
  <2>3. QED
    BY <1>0, <1>4, <1>5, <2>1, <2>2
<1>8. CASE BrokerChanges
  BY <1>1, <1>8 DEF BrokerChanges, unitVars
<1>9. CASE Works
  BY <1>9 DEF Works, Up
<1>10. CASE Aborts
  <2>1. /\ unit = "running" /\ unit' = "waiting" /\ unitAge' = 0 /\ trying = 0
        /\ UNCHANGED <<starts, window, trying>>
    BY <1>10, GoneFacts DEF Aborts, CountInv, Up
  <2>2. QED
    BY <1>0, <1>3, <1>4, <1>5, <2>1
<1>11. CASE Restarts
  <2>1. /\ unit = "waiting" /\ unitAge = RestartSec /\ unitAge' = 0 /\ Counted
        /\ unit' = (IF starts' <= Burst THEN "starting" ELSE "failed") /\ trying' = trying
    BY <1>11 DEF Restarts, Burst
  <2>2. starts <= Burst /\ AtWait
    BY <1>1, <1>3, <2>1
  <2>3. CASE starts = 0
    <3>1. starts' = 1 /\ window' = 0
      BY <2>1, <2>3 DEF Counted
    <3>2. trying <= Whole
      BY <1>0, <1>4, <2>1, <2>2, <2>3
    <3>3. Attempts(starts' - 1) = 0
      BY <3>1, AttemptsFacts
    <3>4. QED
      BY <1>0, <1>4, <2>1, <3>1, <3>2, <3>3
  <2>4. CASE starts > 0
    <3>1. starts' = starts + 1 /\ window' = window
      BY <1>0, <2>1, <2>4 DEF Counted
    <3>2. starts' - 1 = starts /\ starts' - 2 = starts - 1 /\ starts' >= 2
      BY <1>0, <2>4, <3>1
    <3>3. QED
      BY <1>0, <1>4, <1>5, <2>1, <2>2, <2>4, <3>1, <3>2
  <2>5. QED
    BY <1>0, <2>3, <2>4
<1>12. CASE Passes
  <2>1. /\ unit' = unit /\ WindowAges
        /\ unitAge' = IF unit = "running" THEN 0 ELSE unitAge + 1
        /\ trying' = IF Up \/ trying = TryingCap THEN trying ELSE trying + 1
        /\ unit = "starting" => unitAge < ConnectTimeout
        /\ unit = "waiting" => unitAge < RestartSec
    BY <1>12, PassesFacts
  <2> SUFFICES ASSUME unit \in {"starting", "waiting"}
               PROVE  (unit = "starting" => AtStart') /\ (unit = "waiting" => AtWait')
    BY <2>1
  <2>2. /\ unitAge' = unitAge + 1 /\ trying' \in Nat /\ trying' <= trying + 1
        /\ starts <= Burst
    BY <1>0, <1>3, <2>1
  <2>3. CASE starts > 0 /\ window = StartLimitInterval
    <3>1. starts' = 0 /\ window' = 0
      BY <2>1, <2>3 DEF WindowAges
    <3>2. CASE unit = "starting"
      <4>1. /\ starts >= 2
            /\ trying <= RestartSec + Attempts(starts - 2) + unitAge
        BY <1>0, <1>1, <1>4, <1>5, <2>1, <2>2, <2>3, <3>2
      <4>2. QED
        BY <1>0, <1>4, <1>5, <2>2, <3>1, <3>2, <4>1
    <3>3. CASE unit = "waiting"
      <4>1. trying <= Attempts(starts - 1) + unitAge
        BY <1>0, <1>1, <1>4, <1>5, <2>1, <2>2, <2>3, <3>3
      <4>2. QED
        BY <1>0, <1>4, <1>5, <2>2, <2>3, <3>1, <3>3, <4>1
    <3>4. QED
      BY <3>2, <3>3
  <2>4. CASE starts > 0 /\ window # StartLimitInterval
    <3>1. starts' = starts /\ window' = window + 1
      BY <2>1, <2>4 DEF WindowAges
    <3>2. QED
      BY <1>0, <1>1, <1>4, <1>5, <2>2, <2>4, <3>1
  <2>5. CASE starts = 0
    <3>1. starts' = 0
      BY <2>1, <2>5 DEF WindowAges
    <3>2. QED
      BY <1>0, <1>1, <1>4, <2>2, <2>5, <3>1
  <2>6. QED
    BY <1>0, <2>3, <2>4, <2>5
<1>13. CASE UNCHANGED serviceVars
  BY <1>1, <1>13 DEF serviceVars, unitVars
<1>14. QED
  BY <1>6, <1>7, <1>8, <1>9, <1>10, <1>11, <1>12, <1>13 DEF ServiceNext

-----------------------------------------------------------------------------
(***************************************************************************)
(* A stop that is cut short.  The argument is that of StopIsPrompt with    *)
(* Prompt in the place of the publish timeout, and Close after it.         *)
(***************************************************************************)
LEMMA LoopStopNext ==
    TypeOK /\ PollInv /\ ProcessInv /\ StopInv /\ [ServiceNext]_serviceVars => StopInv'
<1>1. Init' => StopInv'
  BY StopInit, PTL
<1>2. StopInv /\ InClose => StopInv'
  BY DEF StopInv, StopWithin, InClose, Phases, EnginePhases
<1>3. QED
  BY <1>1, <1>2, StopStep, ProcessSteps

LEMMA CutNext ==
    ASSUME StopFits, ServiceTypeOK, ProcessInv, PollInv, StopInv, CutInv,
           [ServiceNext]_serviceVars
    PROVE  CutInv'
<1> SUFFICES ASSUME unit' = "stopping", ~slow', ~wedged'
             PROVE  /\ Answered(Prompt)' /\ StopWithin(Prompt)'
                    /\ pc' # "returned" => unitAge' <= stopAge'
                    /\ pc' = "returned" => /\ unitAge' <= 2 * Prompt + 3 * Jitter + inPhase'
                                           /\ inPhase' <= Prompt + Quiesce
  BY DEF CutInv
<1>0. /\ Prompt \in Nat /\ Quiesce \in Nat /\ Jitter \in Nat /\ unitAge \in Nat /\ stopAge \in Nat
      /\ inPhase \in Nat /\ TypeOK /\ CalmFor(Prompt)
      /\ pc \in Phases \cup {"top", "select", "returned"}
  BY LimitTypes, TimesAssumption DEF ServiceTypeOK, TypeOK, StopFits, ProcessInv
<1>1. ASSUME unit = "stopping", ~slow, ~wedged
      PROVE  /\ Answered(Prompt) /\ StopWithin(Prompt) /\ stop
             /\ pc # "returned" => unitAge <= stopAge /\ stopAge <= 2 * Prompt + 3 * Jitter
             /\ pc = "returned" => /\ unitAge <= 2 * Prompt + 3 * Jitter + inPhase
                                   /\ inPhase <= Prompt + Quiesce
             /\ pc = "select" => inPhase = 0
  <2>1. pc # "returned" => Running
    BY <1>0 DEF Running
  <2>2. QED
    BY <1>0, <1>1, <2>1, StopBound DEF CutInv, ProcessInv
<1>2. CASE BrokerChanges \/ UNCHANGED serviceVars
  <2>1. UNCHANGED vars /\ UNCHANGED unitVars
    BY <1>2 DEF BrokerChanges, serviceVars
  <2>2. /\ pc' = pc /\ stopAge' = stopAge /\ inPhase' = inPhase /\ unitAge' = unitAge
        /\ unit = "stopping" /\ ~slow /\ ~wedged /\ wedged' = wedged
    BY <2>1 DEF vars, unitVars
  <2>3. StopWithin(Prompt)'
    BY <1>0, <1>1, <2>1, <2>2, StopWithinStep
  <2>4. QED
    BY <1>1, <2>2, <2>3 DEF Answered
<1>3. CASE Works
  <2>1. /\ PollStep /\ unit = "stopping" /\ ~slow
        /\ unitAge' \in {0, unitAge} /\ (pc' # "returned" => unitAge' = unitAge)
    BY <1>3 DEF Works
  <2>2. ~wedged /\ stopAge' = stopAge /\ pc # "returned"
    BY <2>1, PollStepFacts, <1>0 DEF Phases, EnginePhases
  <2>3. StopWithin(Prompt)'
    BY <1>0, <1>1, <2>1, <2>2, StopWithinStep DEF LoopStep
  <2>4. Answered(Prompt)'
    BY <1>0, <2>1, PollStepFacts DEF Answered
  <2>5. pc' = "returned" => pc = "select" /\ inPhase' = inPhase
    BY <2>1, PollStepFacts
  <2>6. QED
    BY <1>0, <1>1, <2>1, <2>2, <2>3, <2>4, <2>5
<1>4. CASE Stops
  <2>1. Signal /\ unit = "running" /\ unitAge' = 0
    BY <1>4, GoneFacts DEF Stops
  <2>2. ~stop /\ stopAge = 0 /\ stopAge' = 0 /\ pc' = pc /\ pc # "returned"
    BY <2>1 DEF Signal, StopInv, StopWithin, ProcessInv
  <2>3. Answered(Prompt) /\ Answered(Prompt)' /\ StopWithin(Prompt)
    BY <2>2 DEF Answered, StopWithin
  <2>4. StopWithin(Prompt)'
    BY <1>0, <2>1, <2>3, StopWithinStep DEF LoopStep
  <2>5. QED
    BY <2>1, <2>2, <2>3, <2>4
<1>5. CASE Passes
  <2>1. /\ LoopTime /\ unit = "stopping" /\ ~slow /\ unitAge' = unitAge + 1
        /\ pc = "publish" => inPhase < Prompt
        /\ pc = "returned" => inPhase < Prompt + Quiesce
    <3>1. LoopTime /\ unit = "stopping" /\ unitAge' = unitAge + 1
      BY <1>5, PassesFacts
    <3>2. slow' = (slow \/ (unit = "stopping" /\ Late))
      BY <1>5, PassesFacts
    <3>3. ~slow /\ ~Late
      BY <3>1, <3>2
    <3>4. QED
      BY <1>0, <3>1, <3>3 DEF Late
  <2>2. CASE TimePasses
    <3>1. /\ pc \in Phases \cup {"select"} /\ pc' = pc /\ ~wedged /\ pc # "returned"
          /\ inPhase' = IF pc \in Phases THEN Older(inPhase) ELSE 0
          /\ stopAge' = IF stop THEN Older(stopAge) ELSE 0
      BY <1>0, <2>2, TimePassesFacts DEF Phases, EnginePhases
    <3>2. StopWithin(Prompt)'
      BY <1>0, <1>1, <2>1, <2>2, <3>1, StopWithinStep DEF LoopStep
    <3>3. Answered(Prompt)'
      BY <1>0, <2>1, <3>1, OlderFacts DEF Answered, Phases
    <3>4. stopAge' = stopAge + 1
      <4>1. stopAge < AgeCap
        BY <1>0, <1>1, <2>1, <3>1, BoundFacts, TickPeriodType, TimesAssumption
        DEF AgeCap, CalmFor
      <4>2. QED
        BY <1>1, <2>1, <3>1, <4>1 DEF Older
    <3>5. QED
      BY <1>0, <1>1, <2>1, <3>1, <3>2, <3>3, <3>4
  <2>3. CASE InClose
    <3>1. pc = "returned" /\ pc' = pc /\ inPhase' = inPhase + 1 /\ ~wedged /\ stop' = stop
      BY <2>3 DEF InClose
    <3>2. StopWithin(Prompt)'
      BY <1>1, <2>1, <3>1 DEF StopWithin, Phases, EnginePhases
    <3>3. QED
      BY <1>0, <1>1, <2>1, <3>1, <3>2 DEF Answered
  <2>4. QED
    BY <2>1, <2>2, <2>3 DEF LoopTime, InClose, Up
<1>6. CASE \/ Connects \/ StartFails \/ ConnectTimesOut \/ CloseReturns
          \/ Restarts \/ Aborts \/ StopTimesOut
  <2>1. unit' # "stopping"
    BY <1>6, GoneFacts DEF Connects, StartFails, ConnectTimesOut, CloseReturns, Restarts,
                           Aborts, StopTimesOut
  <2>2. QED
    BY <2>1
<1>7. QED
  BY <1>2, <1>3, <1>4, <1>5, <1>6 DEF ServiceNext
-----------------------------------------------------------------------------
(***************************************************************************)
(* All of it together, and what follows.                                   *)
(***************************************************************************)
LEMMA SupervisionInit == ServiceInit => SupervisionInv
<1>1. ServiceInit => PollInv /\ StopInv
  BY AgesInit, StopInit DEF ServiceInit
<1>2. ServiceInit => CutInv
  BY DEF ServiceInit, CutInv
<1>3. QED
  BY <1>1, <1>2, CountInit, ProcessInit, AtLeastInit, AtMostInit DEF SupervisionInv

LEMMA SupervisionNext ==
    SupervisionInv /\ [ServiceNext]_serviceVars => SupervisionInv'
<1> SUFFICES ASSUME SupervisionInv, [ServiceNext]_serviceVars
             PROVE  SupervisionInv'
  OBVIOUS
<1>0. /\ ServiceTypeOK /\ TypeOK /\ PollInv /\ StopInv /\ ProcessInv /\ CountInv
      /\ AtLeastInv /\ (Contained => AtMostInv) /\ (StopFits => CutInv)
  BY DEF SupervisionInv, ServiceTypeOK
<1>1. ServiceTypeOK' /\ PollInv' /\ StopInv' /\ ProcessInv' /\ CountInv' /\ AtLeastInv'
  BY <1>0, UnitTypingNext, LoopAgesNext, LoopStopNext, ProcessNext, CountNext, AtLeastNext
<1>2. Contained => AtMostInv'
  BY <1>0, AtMostNext
<1>3. StopFits => CutInv'
  BY <1>0, CutNext
<1>4. QED
  BY <1>1, <1>2, <1>3 DEF SupervisionInv

\* The loop, the unit's timers and its counter, in one inductive invariant, for
\* all times, any burst and any interval.
THEOREM Supervision == ServiceSpec => []SupervisionInv
BY SupervisionInit, SupervisionNext, PTL DEF ServiceSpec

\* Type correctness: no more starts than the burst and one are ever counted,
\* and no more of them without a broker or with a fault than the burst, for every
\* burst.
THEOREM ServiceTyping == ServiceSpec => []ServiceTypeOK
<1>1. SupervisionInv => ServiceTypeOK
  BY DEF SupervisionInv
<1>2. QED
  BY <1>1, Supervision, PTL

\* A unit whose starts had no fault of their own gave up because two of them
\* found no broker: hangs of nvidia-smi, with an outage in one start or in none,
\* never make systemd give up, whatever the burst and the interval, when so many
\* hangs take longer than the interval.
THEOREM GivesUpForAReasonHolds == Spaced => (ServiceSpec => []GivesUpForAReason)
<1> SUFFICES ASSUME Spaced
             PROVE  ServiceSpec => []GivesUpForAReason
  OBVIOUS
<1>1. ServiceTypeOK /\ CountInv /\ AtLeastInv => GivesUpForAReason
  <2> SUFFICES ASSUME ServiceTypeOK, CountInv, AtLeastInv,
                      unit = "failed", refused < 2, faulty < 1
               PROVE  FALSE
    BY DEF GivesUpForAReason, ServiceTypeOK
  <2>1. /\ window \in Nat /\ window <= StartLimitInterval
        /\ window >= Elapsed(refused, 0, StartLimitBurst)
        /\ refused = 0 \/ refused = 1
    <3>1. faulty = 0
      BY LimitTypes DEF ServiceTypeOK
    <3>2. QED
      BY <3>1, LimitTypes DEF ServiceTypeOK, CountInv, AtLeastInv
  <2>2. /\ Elapsed(0, 0, StartLimitBurst) = StartLimitBurst * HangTime
        /\ Elapsed(1, 0, StartLimitBurst) = AttemptTime + (StartLimitBurst - 1) * HangTime
        /\ StartLimitBurst * HangTime \in Int
        /\ AttemptTime + (StartLimitBurst - 1) * HangTime \in Int
    <3>1. \A a, b, c, n \in Int : /\ 0 * a + 0 * c + (n - 0 - 0) * b = n * b
                                  /\ 1 * a + 0 * c + (n - 1 - 0) * b = a + (n - 1) * b
                                  /\ n * b \in Int /\ a + (n - 1) * b \in Int
      OBVIOUS
    <3>2. QED
      BY <3>1, ElapsedNone, LimitTypes DEF Elapsed
  <2>3. QED
    BY <2>1, <2>2, LimitTypes DEF Spaced
<1>2. SupervisionInv => GivesUpForAReason
  BY <1>1 DEF SupervisionInv
<1>3. QED
  BY <1>2, Supervision, PTL

\* However the broker comes and goes and whatever hangs, the restarts end within
\* two bursts of attempts, for every burst that fits into the interval.
THEOREM AttemptsEndHolds == Contained => (ServiceSpec => []AttemptsEnd)
<1> SUFFICES ASSUME Contained
             PROVE  ServiceSpec => []AttemptsEnd
  OBVIOUS
<1>1. ServiceTypeOK /\ CountInv /\ AtMostInv => AttemptsEnd
  <2> SUFFICES ASSUME ServiceTypeOK, CountInv, AtMostInv, unit \in {"starting", "waiting"}
               PROVE  trying <= RestartSec + (2 * StartLimitBurst - 1) * AttemptTime
    BY DEF AttemptsEnd
  <2>1. /\ unitAge \in Nat /\ window \in Nat /\ starts \in Nat /\ trying \in Nat
        /\ starts <= StartLimitBurst
        /\ unit = "starting" => unitAge <= ConnectTimeout
        /\ unit = "waiting" => unitAge <= RestartSec
    BY DEF ServiceTypeOK, CountInv
  <2>2. /\ StartLimitBurst - 1 \in Nat /\ Attempts(StartLimitBurst - 1) \in Nat
        /\ StartLimitBurst >= 2 =>
              /\ Attempts(StartLimitBurst - 2) \in Nat
              /\ Attempts(StartLimitBurst - 1) = Attempts(StartLimitBurst - 2) + AttemptTime
        /\ starts >= 1 => /\ Attempts(starts - 1) \in Nat
                          /\ Attempts(starts - 1) <= Attempts(StartLimitBurst - 1)
        /\ starts >= 2 => /\ Attempts(starts - 2) \in Nat
                          /\ Attempts(starts - 2) <= Attempts(StartLimitBurst - 2)
    <3>1. StartLimitBurst - 1 \in Nat /\ (StartLimitBurst >= 2 => StartLimitBurst - 2 \in Nat)
      BY LimitTypes
    <3>2. /\ starts >= 1 => starts - 1 \in Nat
          /\ starts >= 2 => starts - 2 \in Nat
      BY <2>1
    <3>3. /\ StartLimitBurst \in Nat
          /\ StartLimitBurst >= 2 => Attempts(StartLimitBurst - 1) = Attempts(StartLimitBurst - 2) + AttemptTime
      BY LimitTypes, AttemptsBelow
    <3>4. /\ starts >= 1 => Attempts(starts - 1) <= Attempts(StartLimitBurst - 1)
          /\ starts >= 2 => Attempts(starts - 2) <= Attempts(StartLimitBurst - 2)
      BY <2>1, AttemptsBelow
    <3>5. QED
      BY <3>1, <3>2, <3>3, <3>4, AttemptsFacts
  <2>3. (2 * StartLimitBurst - 1) * AttemptTime
            = Attempts(StartLimitBurst - 1) + Attempts(StartLimitBurst - 1) + AttemptTime
    <3>1. \A b, a \in Int : (2 * b - 1) * a = (b - 1) * a + (b - 1) * a + a
      OBVIOUS
    <3>2. QED
      BY <3>1, AttemptsFacts, LimitTypes DEF Attempts
  <2>4. trying <= RestartSec + Attempts(StartLimitBurst - 1) + Attempts(StartLimitBurst - 1)
                     + AttemptTime
    <3>1. /\ AttemptTime \in Nat /\ AttemptTime = ConnectTimeout + RestartSec
          /\ ConnectTimeout \in Nat /\ RestartSec \in Nat
      BY AttemptsFacts, LimitTypes
    <3>2. CASE unit = "starting"
      <4>1. CASE starts = 0
        BY <2>1, <2>2, <3>1, <3>2, <4>1 DEF AtMostInv
      <4>2. CASE starts # 0
        <5>1. starts >= 1
          BY <2>1, <4>2
        <5>2. \/ starts >= 2 /\ trying <= RestartSec + Attempts(starts - 2) + unitAge
              \/ /\ trying <= RestartSec + Attempts(StartLimitBurst - 1) + window
                 /\ window <= Attempts(starts - 1) + unitAge
          BY <3>2, <4>2 DEF AtMostInv
        <5>3. starts >= 2 => StartLimitBurst >= 2
          BY <2>1, LimitTypes
        <5>4. QED
          BY <2>1, <2>2, <3>1, <3>2, <5>1, <5>2, <5>3
      <4>3. QED
        BY <4>1, <4>2
    <3>3. CASE unit = "waiting"
      BY <2>1, <2>2, <3>1, <3>3 DEF AtMostInv
    <3>4. QED
      BY <3>2, <3>3
  <2>5. QED
    BY <2>1, <2>2, <2>3, <2>4, AttemptsFacts, LimitTypes
<1>2. SupervisionInv => AttemptsEnd
  BY <1>1 DEF SupervisionInv
<1>3. QED
  BY <1>2, Supervision, PTL

\* A stop is cut short only by a publish that is not prompt or by a hang, for all
\* times with room in TimeoutStopSec for three prompt publishes, three late
\* wake-ups and what Disconnect waits.
THEOREM CutShortOnlyWhenSlowHolds == StopFits => (ServiceSpec => CutShortOnlyWhenSlow)
<1> SUFFICES ASSUME StopFits
             PROVE  ServiceSpec => CutShortOnlyWhenSlow
  OBVIOUS
<1>1. SupervisionInv /\ [ServiceNext]_serviceVars
      => [unit' = "cut" /\ unit # "cut" => slow \/ wedged]_serviceVars
  <2> SUFFICES ASSUME SupervisionInv, ServiceNext,
                      unit' = "cut", unit # "cut", ~slow, ~wedged
               PROVE  FALSE
    OBVIOUS
  <2>0. ServiceTypeOK /\ ProcessInv /\ PollInv /\ CutInv
    BY DEF SupervisionInv
  <2>1. StopTimesOut
    BY GoneFacts
    DEF ServiceNext, Connects, StartFails, ConnectTimesOut, BrokerChanges, unitVars,
        Works, CloseReturns, Restarts, Aborts, Stops, Passes
  <2>2. unit = "stopping" /\ unitAge = TimeoutStopSec
    BY <2>1 DEF StopTimesOut
  <2>3. /\ Prompt \in Nat /\ Jitter \in Nat /\ inPhase \in Nat /\ stopAge \in Nat
        /\ TimeoutStopSec \in Nat /\ unitAge \in Nat /\ Quiesce \in Nat
        /\ 3 * Prompt + 3 * Jitter + Quiesce < TimeoutStopSec
    BY <2>0, LimitTypes, TimesAssumption DEF ServiceTypeOK, TypeOK, StopFits
  <2>4. CASE pc = "returned"
    BY <2>0, <2>2, <2>3, <2>4 DEF CutInv
  <2>5. CASE pc # "returned"
    <3>1. Running /\ TypeOK
      BY <2>0, <2>5 DEF ProcessInv, ServiceTypeOK, TypeOK, Running
    <3>2. stopAge <= 2 * Prompt + 3 * Jitter /\ unitAge <= stopAge
      BY <2>0, <2>2, <2>3, <2>5, <3>1, StopBound DEF CutInv, StopFits
    <3>3. QED
      BY <2>2, <2>3, <3>2
  <2>6. QED
    BY <2>4, <2>5
<1>2. QED
  BY <1>1, Supervision, PTL DEF ServiceSpec, CutShortOnlyWhenSlow

\* The watchdog aborts no process but one whose nvidia-smi hangs, from start to
\* start, when WatchdogSec leaves room for a whole pass after a late wake-up.
THEOREM OnlyTheHungAreAborted == Roomy => (ServiceSpec => [][Aborts => wedged]_serviceVars)
<1> SUFFICES ASSUME Roomy
             PROVE  ServiceSpec => [][Aborts => wedged]_serviceVars
  OBVIOUS
<1>1. ServiceTypeOK /\ ProcessInv /\ PollInv => (Aborts => wedged)
  <2> SUFFICES ASSUME ServiceTypeOK, ProcessInv, PollInv, Aborts, ~wedged
               PROVE  FALSE
    OBVIOUS
  <2>1. Running /\ TypeOK
    BY DEF Aborts, ProcessInv, ServiceTypeOK, TypeOK, Running
  <2>2. sincePing <= PingBound /\ WatchdogSec > 0 /\ sincePing >= WatchdogSec
    BY <2>1, PingBounded DEF Aborts, WatchdogExpired
  <2>3. PingBound \in Nat /\ WatchdogSec \in Nat /\ sincePing \in Nat
    BY <2>1, BoundFacts, TickPeriodType, TimesAssumption DEF TypeOK
  <2>4. QED
    BY <2>2, <2>3 DEF Roomy
<1>2. SupervisionInv => (Aborts => wedged)
  BY <1>1 DEF SupervisionInv
<1>3. QED
  BY <1>2, Supervision, PTL DEF ServiceSpec
=============================================================================
