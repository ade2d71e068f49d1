-------------------------------- MODULE Service --------------------------------
(***************************************************************************)
(* The daemon under its unit (deploy/sparkwrangler.service): the start,    *)
(* which fails at once or waits for a broker, the work loop of module      *)
(* Poll, the deferred Close, and systemd, which restarts what ended,       *)
(* counts the starts, kills what hangs and gives up.  Times are in the     *)
(* unit of Poll's constants.                                               *)
(*                                                                         *)
(* The variables of Poll belong to the running process; a process that is  *)
(* gone leaves them as the next one finds them.                            *)
(***************************************************************************)
EXTENDS Poll

CONSTANTS
    ConnectTimeout,      \* NewMQTT's wait for the connect token
    ConnectTime,         \* the longest a broker that is there takes to accept
    RestartSec,
    StartLimitInterval,
    StartLimitBurst,
    TimeoutStopSec,
    Quiesce,             \* what Disconnect may wait before it cuts the connection
    Prompt               \* a publish answered within this time is prompt

ASSUME ServiceAssumption ==
    /\ ConnectTimeout \in Nat /\ ConnectTime \in Nat
    /\ RestartSec \in Nat \ {0}
    /\ StartLimitInterval \in Nat /\ StartLimitBurst \in Nat \ {0}
    /\ TimeoutStopSec \in Nat /\ Quiesce \in Nat /\ Prompt \in Nat

VARIABLES
    unit,      \* the state of the unit
    unitAge,   \* time in it; while stopping, time on the stop timer
    broker,    \* the broker accepts connections
    missed,    \* history: it did not, at some time of this start
    starts,    \* starts counted in the current interval
    window,    \* time since the first of them
    refused,   \* history: those of them that found no broker
    faulty,    \* history: those of them that failed before they looked for one
    trying,    \* history: time since the unit was last up
    slow       \* history: a publish was not prompt after the stop request

unitVars == <<unit, unitAge, starts, window, refused, faulty, trying, slow>>
brokerVars == <<broker, missed>>
serviceVars == <<vars, unitVars, brokerVars>>

Up == unit \in {"running", "stopping"}
Over == unit \in {"failed", "stopped", "cut"}

ServiceTypeOK ==
    /\ TypeOK
    /\ unit \in {"starting", "running", "stopping", "waiting",
                 "failed", "stopped", "cut"}
    /\ unitAge \in Nat /\ window \in Nat /\ trying \in Nat
    /\ starts \in 0..StartLimitBurst + 1
    /\ refused \in 0..StartLimitBurst
    /\ faulty \in 0..StartLimitBurst
    /\ broker \in BOOLEAN /\ missed \in BOOLEAN /\ slow \in BOOLEAN

ServiceInit ==
    /\ Init
    /\ unit = "starting"
    /\ unitAge = 0
    /\ broker \in BOOLEAN
    /\ missed = ~broker
    /\ starts = 1
    /\ window = 0
    /\ refused = 0
    /\ faulty = 0
    /\ trying = 0
    /\ slow = FALSE
-----------------------------------------------------------------------------
\* The process is gone, and with it the state of its loop.
Gone(next) ==
    /\ unit' = next
    /\ unitAge' = 0
    /\ pc' = "top" /\ inPhase' = 0 /\ untilTick' = TickPeriod /\ pending' = FALSE
    /\ late' = 0 /\ sincePing' = 0 /\ sincePub' = Interval /\ wedged' = FALSE
    /\ stop' = FALSE /\ stopAge' = 0

\* NewMQTT's connect token completes, and READY=1 starts the work loop.
Connects ==
    /\ unit = "starting"
    /\ broker
    /\ unit' = "running"
    /\ unitAge' = 0
    /\ trying' = 0
    /\ missed' = FALSE
    /\ UNCHANGED <<vars, starts, window, refused, faulty, slow, broker>>

\* run returns before it waits for the broker: an option, a named interface, the
\* broker's URL or a TLS file is of no use.  (A broker that refuses the
\* credentials is tried again until the time is over: SetConnectRetry.)
StartFails ==
    /\ unit = "starting"
    /\ unitAge = 0
    /\ Gone("waiting")
    /\ faulty' = faulty + 1
    /\ UNCHANGED <<starts, window, refused, trying, slow, brokerVars>>

\* The connect token is not complete in time: run returns the error.
ConnectTimesOut ==
    /\ unit = "starting"
    /\ unitAge = ConnectTimeout
    /\ Gone("waiting")
    /\ refused' = refused + 1
    /\ UNCHANGED <<starts, window, faulty, trying, slow, brokerVars>>

\* A broker that comes or goes leaves a running client reconnecting, which
\* the loop sees only as publishes that take their time.
BrokerChanges ==
    /\ ~Over
    /\ broker' = ~broker
    /\ missed' = (unit = "starting")
    /\ UNCHANGED <<vars, unitVars>>

\* The work loop, and Close behind it.
Works ==
    /\ Up
    /\ PollStep
    /\ \/ /\ pc' = "returned"
          \* STOPPING=1: systemd may measure the stop from here.
          /\ unitAge' \in {0, unitAge}
          /\ UNCHANGED unit
       \/ /\ pc' # "returned"
          /\ UNCHANGED <<unit, unitAge>>
    /\ UNCHANGED <<starts, window, refused, faulty, trying, slow, brokerVars>>

\* Close's publish is acknowledged, or not in time, Disconnect ends the
\* connection and the process exits.
CloseReturns ==
    /\ unit = "stopping"
    /\ pc = "returned"
    /\ Gone("stopped")
    /\ UNCHANGED <<starts, window, refused, faulty, trying, slow, brokerVars>>
-----------------------------------------------------------------------------
(***************************************************************************)
(* systemd.                                                                *)
(***************************************************************************)
\* A start is counted in the interval that the first counted one began.
\* Wrong variant: every start begins an interval.
CountedAnew == starts' = 1 /\ window' = 0 /\ refused' = 0 /\ faulty' = 0
Counted ==
    IF starts = 0
    THEN starts' = 1 /\ window' = 0 /\ refused' = 0 /\ faulty' = 0
    ELSE starts' = starts + 1 /\ UNCHANGED <<window, refused, faulty>>

\* Restart=always, RestartSec after whatever ended the process, up to
\* StartLimitBurst times in StartLimitInterval.
\* Wrong variant: the keys of the limit are not read.
RestartsWithoutLimit ==
    /\ unit = "waiting"
    /\ unitAge = RestartSec
    /\ Counted
    /\ unit' = "starting"
    /\ unitAge' = 0
    /\ missed' = ~broker
    /\ UNCHANGED <<vars, broker, trying, slow>>
Restarts ==
    /\ unit = "waiting"
    /\ unitAge = RestartSec
    /\ Counted
    /\ unit' = IF starts' <= StartLimitBurst THEN "starting" ELSE "failed"
    /\ unitAge' = 0
    /\ missed' = ~broker
    /\ UNCHANGED <<vars, broker, trying, slow>>

\* The watchdog is armed while the unit is running.
Aborts ==
    /\ unit = "running"
    /\ WatchdogExpired
    /\ Gone("waiting")
    /\ UNCHANGED <<starts, window, refused, faulty, trying, slow, brokerVars>>

\* systemctl stop.  Before the signal is handled it ends the process.
Stops ==
    \/ /\ unit = "running"
       /\ unit' = "stopping"
       /\ unitAge' = 0
       /\ Signal
       /\ UNCHANGED <<starts, window, refused, faulty, trying, slow, brokerVars>>
    \/ /\ unit \in {"starting", "waiting"}
       /\ Gone("stopped")
       /\ UNCHANGED <<starts, window, refused, faulty, trying, slow, brokerVars>>

\* SIGKILL after TimeoutStopSec: the offline of Close may not be out.
StopTimesOut ==
    /\ unit = "stopping"
    /\ unitAge = TimeoutStopSec
    /\ Gone("cut")
    /\ UNCHANGED <<starts, window, refused, faulty, trying, slow, brokerVars>>
-----------------------------------------------------------------------------
\* A limit beyond which the age of the attempts is not counted.
TryingCap == 4 * StartLimitInterval

\* Wrong variant: the counted interval never ends.
WindowStays == UNCHANGED <<starts, window, refused, faulty>>
WindowAges ==
    IF starts > 0 /\ window = StartLimitInterval
    THEN starts' = 0 /\ window' = 0 /\ refused' = 0 /\ faulty' = 0
    ELSE /\ window' = IF starts = 0 THEN 0 ELSE window + 1
         /\ UNCHANGED <<starts, refused, faulty>>

\* The publish of a pass, or that of Close with Disconnect behind it, takes longer
\* than a prompt one.
Late == \/ pc = "publish" /\ inPhase >= Prompt
        \/ pc = "returned" /\ inPhase >= Prompt + Quiesce

\* One unit of time passes, for the process and for systemd.
Passes ==
    /\ ~Over
    /\ unit = "starting" => /\ unitAge < ConnectTimeout
                            /\ missed \/ unitAge < ConnectTime
    /\ unit = "waiting" => unitAge < RestartSec
    /\ unit = "running" => ~WatchdogExpired
    /\ unit = "stopping" => unitAge < TimeoutStopSec
    /\ \/ /\ Up /\ pc # "returned"
          /\ TimePasses
       \/ /\ Up /\ pc = "returned"
          /\ inPhase < PublishTimeout + Quiesce
          /\ inPhase' = inPhase + 1
          /\ UNCHANGED <<pc, untilTick, pending, late, sincePing, sincePub, wedged,
                         stop, stopAge>>
       \/ ~Up /\ UNCHANGED vars
    /\ unitAge' = IF unit = "running" THEN 0 ELSE unitAge + 1
    /\ WindowAges
    /\ trying' = IF Up \/ trying = TryingCap THEN trying ELSE trying + 1
    /\ slow' = (slow \/ (unit = "stopping" /\ Late))
    /\ UNCHANGED <<unit, brokerVars>>

ServiceNext ==
    \/ Connects \/ StartFails \/ ConnectTimesOut \/ BrokerChanges \/ Works \/ CloseReturns
    \/ Restarts \/ Aborts \/ Stops \/ StopTimesOut \/ Passes

ServiceSpec == ServiceInit /\ [][ServiceNext]_serviceVars

\* Time passes, a broker that stays accepts, and systemd does what is due.
ServiceFairSpec ==
    /\ ServiceSpec
    /\ WF_serviceVars(Passes)
    /\ WF_serviceVars(Connects)
    /\ WF_serviceVars(Restarts \/ Aborts \/ ConnectTimesOut \/ StopTimesOut)
-----------------------------------------------------------------------------
\* What a start takes that finds no broker, and at least takes that hangs.
AttemptTime == ConnectTimeout + RestartSec
HangTime == WatchdogSec + RestartSec

\* Neither hangs alone nor hangs and one outage fit into the interval as often
\* as starts are allowed in it.
Spaced == /\ StartLimitInterval < StartLimitBurst * HangTime
          /\ StartLimitInterval < AttemptTime + (StartLimitBurst - 1) * HangTime

\* Outages alone do.
Contained == StartLimitBurst * AttemptTime <= StartLimitInterval

\* The pass under way, one more and Close, with prompt publishes and late
\* wake-ups, fit into TimeoutStopSec.
StopFits == CalmFor(Prompt) /\ 3 * Prompt + 3 * Jitter + Quiesce < TimeoutStopSec

\* A hung nvidia-smi alone never uses up the starts: a cycle of the watchdog
\* and RestartSec is too long for that.  Of the starts in the interval two found
\* no broker, or one had a fault of its own, which costs RestartSec alone.
\* (WatchdogSec, RestartSec and the start limit.)
GivesUpForAReason == unit = "failed" => refused >= 2 \/ faulty >= 1

\* Whatever the broker does, the restarts end, in a daemon that is up or in a
\* unit that failed: at worst after the starts left in an old interval and a
\* whole new one.  ("A broker down for an hour should not be met with an hour
\* of restarts".)
AttemptsEnd ==
    unit \in {"starting", "waiting"}
    => trying <= RestartSec + (2 * StartLimitBurst - 1) * AttemptTime

\* SIGKILL cuts a stop short only when a publish goes unanswered for longer
\* than Prompt, or nvidia-smi does not die: the pass under way, one more pass
\* the select may pick and Close fit into TimeoutStopSec otherwise.
\* (The ctx passed to observe, the select, Close, TimeoutStopSec.)
CutShortOnlyWhenSlow == [][unit' = "cut" /\ unit # "cut" => slow \/ wedged]_serviceVars

\* A loop that hangs is repaired by a restart, unless the operator stops the
\* unit, or the broker is gone for so long that systemd gives up.
\* (The ping from the work loop, WatchdogSec, Restart=always.)
WedgeRepaired == wedged ~> ~wedged /\ (unit = "running" \/ Over)

-----------------------------------------------------------------------------
(***************************************************************************)
(* The inductive invariants behind these (see ServiceProofs).              *)
(***************************************************************************)
\* The process and the unit go together.
ProcessInv ==
    /\ ~Up => Init
    /\ unit = "running" => ~stop /\ pc # "returned"
    /\ unit = "stopping" => stop
    /\ pc # "killed"
    /\ pc \in {"top", "select"} => inPhase = 0

\* The timers of the unit, and what it has counted.
CountInv ==
    /\ unit = "starting" => unitAge <= ConnectTimeout
    /\ unit = "waiting" => unitAge <= RestartSec
    /\ Up => trying = 0
    /\ window <= StartLimitInterval
    /\ unit = "failed" => starts = StartLimitBurst + 1 /\ refused + faulty <= StartLimitBurst
    /\ unit # "failed" => starts <= StartLimitBurst
    /\ starts = 0 => window = 0 /\ refused + faulty <= 1
    /\ starts > 0 => refused + faulty <= starts
    /\ unit \in {"starting", "running"} =>
          refused + faulty = 0 \/ refused + faulty < starts

\* The interval is at least as old as its starts took: those that found no
\* broker, those that had a fault, and the others, which hung.
Elapsed(outages, faults, ends) ==
    outages * AttemptTime + faults * RestartSec + (ends - outages - faults) * HangTime
AtLeastInv ==
    starts > 0 =>
        /\ unit = "starting" =>
              window >= Elapsed(refused, faulty, starts - 1) + unitAge
        /\ unit = "running" =>
              window >= Elapsed(refused, faulty, starts - 1) + sincePing
        /\ unit = "waiting" =>
              window + RestartSec >= Elapsed(refused, faulty, starts) + unitAge
        /\ unit = "failed" => window >= Elapsed(refused, faulty, StartLimitBurst)

\* The attempts are at most as old as the starts since the last one that found a
\* broker took: either all of them are counted in this interval, or the interval
\* began with one of them, after a whole earlier one at most.
Attempts(n) == n * AttemptTime
AtMostInv ==
    /\ unit = "starting" =>
          IF starts = 0
          THEN StartLimitBurst >= 2 /\ trying <= RestartSec + Attempts(StartLimitBurst - 2) + unitAge
          ELSE \/ starts >= 2 /\ trying <= RestartSec + Attempts(starts - 2) + unitAge
               \/ /\ trying <= RestartSec + Attempts(StartLimitBurst - 1) + window
                  /\ window <= Attempts(starts - 1) + unitAge
    /\ unit = "waiting" =>
          IF starts = 0
          THEN trying <= Attempts(StartLimitBurst - 1) + unitAge
          ELSE \/ trying <= Attempts(starts - 1) + unitAge
               \/ /\ trying <= RestartSec + Attempts(StartLimitBurst - 1) + window
                  /\ window <= Attempts(starts - 1) + ConnectTimeout + unitAge

\* The stop timer is no older than the stop request, or than Close and what came
\* before it.
CutInv ==
    unit = "stopping" /\ ~slow /\ ~wedged =>
        /\ Answered(Prompt)
        /\ StopWithin(Prompt)
        /\ pc # "returned" => unitAge <= stopAge
        /\ pc = "returned" => /\ unitAge <= 2 * Prompt + 3 * Jitter + inPhase
                              /\ inPhase <= Prompt + Quiesce

SupervisionInv ==
    /\ ServiceTypeOK /\ PollInv /\ StopInv
    /\ ProcessInv
    /\ CountInv
    /\ AtLeastInv
    /\ Contained => AtMostInv
    /\ StopFits => CutInv
=============================================================================
