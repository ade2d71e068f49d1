----------------------------- MODULE StartupProofs -----------------------------
(***************************************************************************)
(* Proofs about module Startup: what was asked for decides which starts are *)
(* refused, how the connection is protected and what is warned of, for any  *)
(* settings, files and bounds.  StartupInv follows the phases: each one     *)
(* keeps what the earlier ones have established, because the settings no    *)
(* longer change once the flags are parsed.                                 *)
(***************************************************************************)
EXTENDS Startup, TLAPS

LEMMA DefaultsInDomain == ASSUME NEW s \in Settings PROVE Default[s] \in Domain[s]
  BY StartupAssumption
     DEF Settings, TLSTexts, Typed, Default, Domain, URLs, Bools, Paths

\* A mark is no value of any setting.
LEMMA MarksAreNoValues ==
    ASSUME NEW s \in Settings PROVE Unset \notin Domain[s] /\ Garbage \notin Domain[s]
  BY StartupAssumption DEF Settings, TLSTexts, Typed, Domain

LEMMA WrittenValue ==
    ASSUME NEW s \in Settings, NEW v \in Written(s) \cup {Unset}, v # Unset, v # Garbage
    PROVE  v \in Domain[s]
  BY DEF Written

LEMMA Byte == \A n \in Int : n % 256 \in 0..255
  OBVIOUS

LEMMA SmallByte == \A n \in 0..2 : n % 256 = n
  OBVIOUS

LEMMA NoConnIsOne == NoConn \in Conns
<1>1. "" \in Paths
  BY DEF Paths
<1>2. "" \in Texts
  BY StartupAssumption
<1>3. 0 \in 0..255
  OBVIOUS
<1> QED BY <1>1, <1>2, <1>3 DEF NoConn, Conns

\* Every setting keeps a value of its kind, and what Connect is called with
\* fits its fields: QoS is one byte.  (Load; the client options of NewMQTT.)
THEOREM Typing == Spec => []TypeOK
<1>1. Init => TypeOK
  <2> SUFFICES ASSUME Init PROVE TypeOK
    OBVIOUS
  <2>1. \A s \in Settings : cfg[s] \in Domain[s]
    BY DefaultsInDomain DEF Init
  <2>2. DOMAIN cfg = Settings
    BY DEF Init, Default
  <2>3. conn \in Conns
    BY NoConnIsOne DEF Init
  <2> QED BY <2>1, <2>2, <2>3 DEF Init, TypeOK
<1>2. TypeOK /\ [Next]_vars => TypeOK'
  <2> SUFFICES ASSUME TypeOK, [Next]_vars PROVE TypeOK'
    OBVIOUS
  <2> USE DEF TypeOK
  <2>1. ASSUME NEW s \in Settings, NEW v \in Written(s), Exports(s, v) PROVE TypeOK'
    BY <2>1 DEF Exports
  <2>2. ASSUME NEW s \in Settings, NEW v \in Written(s), ParsesFlag(s, v) PROVE TypeOK'
    <3>1. CASE v = Garbage
      BY <2>2, <3>1 DEF ParsesFlag, Refuse
    <3>2. CASE v # Garbage
      <4>1. v \in Domain[s]
        BY <3>2 DEF Written
      <4> QED BY <2>2, <3>2, <4>1 DEF ParsesFlag
    <3> QED BY <3>1, <3>2
  <2>3. CASE Registers
    <3>1. \A s \in Settings : Lookup(s) \in Domain[s]
      BY DefaultsInDomain, WrittenValue DEF Lookup
    <3> QED BY <2>3, <3>1 DEF Registers, inputs
  <2>4. CASE EndsFlags
    BY <2>4 DEF EndsFlags, inputs
  <2>5. CASE Validates
    BY <2>5 DEF Validates, Refuse, inputs
  <2>6. CASE Probes
    BY <2>6 DEF Probes, Refuse, inputs
  <2>7. CASE ChecksURL
    BY <2>7 DEF ChecksURL, Refuse, inputs
  <2>8. CASE BuildsTLS
    <3>1. /\ "tls-insecure" \in Settings /\ cfg["tls-insecure"] \in BOOLEAN
          /\ cfg["tls-servername"] \in Texts
          /\ cfg["ca-file"] \in Paths /\ cfg["tls-cert"] \in Paths /\ cfg["tls-key"] \in Paths
      BY DEF Settings, TLSTexts, Typed, Domain, Bools
    <3>2. ASSUME NEW tls \in BOOLEAN, NEW verify \in BOOLEAN
          PROVE  [NoConn EXCEPT !.tls = tls, !.verify = verify,
                                !.server = cfg["tls-servername"], !.ca = cfg["ca-file"],
                                !.cert = cfg["tls-cert"], !.key = cfg["tls-key"]] \in Conns
      BY <3>1, NoConnIsOne DEF Conns
    <3>3. conn' \in Conns
      BY <2>8, <3>1, <3>2, NoConnIsOne DEF BuildsTLS
    <3> QED BY <2>8, <3>3 DEF BuildsTLS, Refuse, inputs
  <2>9. CASE Warns
    BY <2>9 DEF Warns, Exposed, inputs
  <2>10. CASE Dials
    <3>1. cfg["password"] \in Texts /\ cfg["qos"] \in Int
      BY StartupAssumption DEF Settings, TLSTexts, Typed, Domain
    <3>2. cfg["qos"] % 256 \in 0..255
      BY ONLY <3>1, Byte
    <3>3. ASSUME NEW q \in 0..255, NEW w \in Texts
          PROVE  [conn EXCEPT !.qos = q, !.password = w] \in Conns
      BY DEF Conns
    <3>4. conn' = [conn EXCEPT !.qos = cfg["qos"] % 256, !.password = cfg["password"]]
      BY <2>10 DEF Dials
    <3>5. conn' \in Conns
      BY <3>1, <3>2, <3>3, <3>4
    <3> QED BY <2>10, <3>5 DEF Dials, inputs
  <2>11. CASE UNCHANGED vars
    BY <2>11 DEF vars, inputs
  <2> QED BY <2>1, <2>2, <2>3, <2>4, <2>5, <2>6, <2>7, <2>8, <2>9, <2>10, <2>11 DEF Next
<1> QED BY <1>1, <1>2, PTL DEF Spec
-----------------------------------------------------------------------------
\* The settings a phase from "flags" on works with are the ones asked for.
LEMMA ResolvedByEnvironment ==
    ASSUME TypeOK, StartupInv, Registers PROVE Resolved'
<1>1. \A s \in Settings : flags'[s] = Unset /\ cfg'[s] = Lookup(s) /\ env' = env
  BY DEF StartupInv, Registers, inputs
<1>2. \A s \in Settings : Asked(s)' = Lookup(s)
  BY <1>1 DEF Asked, Lookup
<1> QED BY <1>1, <1>2, StartupAssumption DEF Resolved

LEMMA ResolvedByFlag ==
    ASSUME TypeOK, Resolved, NEW s \in Settings, NEW v \in Written(s),
           ParsesFlag(s, v), v # Garbage
    PROVE  Resolved'
<1>1. v # Unset
  BY MarksAreNoValues, StartupAssumption DEF Written
<1>2. /\ flags' = [flags EXCEPT ![s] = v] /\ cfg' = [cfg EXCEPT ![s] = v] /\ env' = env
      /\ DOMAIN flags = Settings /\ DOMAIN cfg = Settings
  BY DEF ParsesFlag, TypeOK
<1>3. ASSUME NEW t \in Settings PROVE flags'[t] # Garbage /\ cfg'[t] = Asked(t)'
  <2>1. CASE t = s
    BY <1>1, <1>2, <2>1 DEF Asked
  <2>2. CASE t # s
    BY <1>2, <2>2 DEF Resolved, Asked
  <2> QED BY <2>1, <2>2
<1> QED BY <1>3 DEF Resolved

\* A setting resolved as it was asked for, by name.
LEMMA ResolvedSettings ==
    ASSUME Resolved
    PROVE  /\ cfg["node-id"] = Asked("node-id") /\ cfg["broker"] = Asked("broker")
           /\ cfg["qos"] = Asked("qos") /\ cfg["interval"] = Asked("interval")
           /\ cfg["tls-insecure"] = Asked("tls-insecure")
           /\ cfg["net-interface"] = Asked("net-interface")
           /\ cfg["log-level"] = Asked("log-level")
           /\ cfg["tls-cert"] = Asked("tls-cert") /\ cfg["tls-key"] = Asked("tls-key")
           /\ cfg["ca-file"] = Asked("ca-file")
           /\ cfg["tls-servername"] = Asked("tls-servername")
           /\ \A s \in Settings : flags[s] # Garbage
           /\ \A s \in TLSTexts : cfg[s] = Asked(s)
  BY DEF Resolved, Settings, TLSTexts, Typed

LEMMA SettingTypes ==
    ASSUME TypeOK
    PROVE  /\ cfg["tls-insecure"] \in BOOLEAN /\ cfg["qos"] \in Int
           /\ cfg["interval"] \in Int /\ cfg["broker"] \in URLs
           /\ cfg["ca-file"] \in Paths /\ cfg["tls-cert"] \in Paths
           /\ cfg["tls-key"] \in Paths
  BY StartupAssumption DEF TypeOK, Settings, TLSTexts, Typed, Domain, Bools
\* What validate refuses is wrong with what was asked for.
LEMMA ValidUnlessFaulty == ASSUME TypeOK, Resolved, ~Valid(cfg) PROVE Faulty
<1>1. CASE cfg["node-id"] = ""
  BY <1>1, ResolvedSettings DEF Faulty
<1>2. CASE ~(cfg["interval"] >= 1)
  <2>1. cfg["interval"] < 1
    BY <1>2, SettingTypes
  <2> QED BY <2>1, ResolvedSettings DEF Faulty
<1>3. CASE cfg["qos"] \notin 0..2
  <2>1. cfg["qos"] \notin {0, 1, 2}
    BY <1>3
  <2> QED BY <2>1, ResolvedSettings DEF Faulty
<1> QED BY <1>1, <1>2, <1>3 DEF Valid

\* What buildTLSConfig refuses is wrong with what was asked for.
LEMMA BuildableUnlessFaulty == ASSUME Resolved, ~Buildable(cfg) PROVE Faulty
<1>1. CASE SchemeIsTLS(cfg["broker"])
  <2>1. AskedForTLS
    BY <1>1, ResolvedSettings DEF AskedForTLS, SchemeIsTLS
  <2>2. \/ Asked("ca-file") # "" /\ Asked("ca-file") \notin Certificates
        \/ ~Pair(cfg)
    BY <1>1, ResolvedSettings DEF Buildable
  <2> QED BY <2>1, <2>2, ResolvedSettings DEF Pair, Faulty
<1>2. CASE ~SchemeIsTLS(cfg["broker"])
  <2>1. ~AskedForTLS
    BY <1>2, ResolvedSettings DEF AskedForTLS, SchemeIsTLS
  <2>2. Asked("tls-insecure") \/ \E s \in TLSTexts : Asked(s) # ""
    BY <1>2, ResolvedSettings DEF Buildable, SomeOptions
  <2> QED BY <2>1, <2>2 DEF Faulty
<1> QED BY <1>1, <1>2

-----------------------------------------------------------------------------
LEMMA StartupInvInit == Init => StartupInv
  BY DEF Init, StartupInv, Validated, Probed, Checked, Built, Dialling

LEMMA StartupInvNext == TypeOK /\ StartupInv /\ [Next]_vars => StartupInv'
<1> SUFFICES ASSUME TypeOK, StartupInv, [Next]_vars PROVE StartupInv'
  OBVIOUS
<1> USE DEF StartupInv, Validated, Probed, Checked, Built, Dialling
<1>1. ASSUME NEW s \in Settings, NEW v \in Written(s), Exports(s, v) PROVE StartupInv'
  BY <1>1 DEF Exports
<1>2. ASSUME NEW s \in Settings, NEW v \in Written(s), ParsesFlag(s, v)
      PROVE  StartupInv'
  <2>1. CASE v = Garbage
    <3>1. phase' = "refused" /\ flags'[s] = Garbage
      BY <1>2, <2>1 DEF ParsesFlag, Refuse, TypeOK
    <3> QED BY <3>1 DEF Faulty
  <2>2. CASE v # Garbage
    <3>1. phase = "flags" /\ phase' = "flags"
      BY <1>2, <2>2 DEF ParsesFlag
    <3>2. Resolved'
      BY <1>2, <2>2, <3>1, ResolvedByFlag
    <3> QED BY <3>1, <3>2
  <2> QED BY <2>1, <2>2
<1>3. CASE Registers
  <2>1. Resolved'
    BY <1>3, ResolvedByEnvironment
  <2> QED BY <1>3, <2>1 DEF Registers
\* From here on the settings stay, and with them what they were resolved from.
<1>a. ASSUME UNCHANGED <<inputs, cfg>> PROVE (\A s : Asked(s)' = Asked(s)) /\ (Resolved' <=> Resolved)
  BY <1>a DEF inputs, Asked, Resolved
<1>b. ASSUME UNCHANGED <<inputs, mac>> PROVE (Faulty' <=> Faulty)
  BY <1>b DEF inputs, Faulty, Asked, AskedForTLS
<1>c. ASSUME UNCHANGED cfg
      PROVE  /\ (Valid(cfg)' <=> Valid(cfg)) /\ (Quiet(cfg)' <=> Quiet(cfg))
             /\ Usable(cfg["broker"])' <=> Usable(cfg["broker"])
             /\ Buildable(cfg)' <=> Buildable(cfg)
  BY <1>c DEF Valid, Usable, Buildable, Pair, SomeOptions, SchemeIsTLS, Quiet
<1>4. CASE EndsFlags
  <2>1. Resolved'
    BY <1>4, <1>a DEF EndsFlags
  <2> QED BY <1>4, <2>1 DEF EndsFlags
<1>5. CASE Validates
  <2>1. Resolved /\ Resolved' /\ cfg' = cfg
    BY <1>5, <1>a DEF Validates
  <2>2. CASE Valid(cfg)
    BY <1>5, <2>1, <2>2 DEF Validates, Valid
  <2>3. CASE ~Valid(cfg)
    <3>1. phase' = "refused"
      BY <1>5, <2>3 DEF Validates, Refuse
    <3>2. Faulty /\ (Faulty' <=> Faulty)
      BY <1>5, <2>1, <2>3, <1>b, ValidUnlessFaulty DEF Validates
    <3> QED BY <3>1, <3>2
  <2> QED BY <2>2, <2>3
<1>6. CASE Probes
  <2>1. Resolved /\ Resolved' /\ cfg' = cfg
    BY <1>6, <1>a DEF Probes
  <2>2. CASE mac' = "error" /\ cfg["net-interface"] # ""
    <3>1. phase' = "refused" /\ Asked("net-interface")' # ""
      BY <1>6, <1>a, <2>1, <2>2, ResolvedSettings DEF Probes, Refuse
    <3> QED BY <2>2, <3>1 DEF Faulty
  <2>3. CASE ~(mac' = "error" /\ cfg["net-interface"] # "")
    BY <1>6, <2>1, <2>3 DEF Probes, Valid
  <2> QED BY <2>2, <2>3
<1>7. CASE ChecksURL
  <2>1. Resolved /\ Resolved' /\ cfg' = cfg /\ mac' = mac /\ Valid(cfg)
    BY <1>7, <1>a DEF ChecksURL
  <2>2. CASE Usable(cfg["broker"])
    BY <1>7, <2>1, <2>2 DEF ChecksURL, Valid, Usable
  <2>3. CASE ~Usable(cfg["broker"])
    <3>1. phase' = "refused"
      BY <1>7, <2>3 DEF ChecksURL, Refuse
    <3>2. Asked("broker")' = cfg["broker"]
      BY <1>7, <1>a, <2>1, ResolvedSettings DEF ChecksURL
    <3> QED BY <2>3, <3>1, <3>2 DEF Usable, Faulty
  <2> QED BY <2>2, <2>3
<1>8. CASE BuildsTLS
  <2>1. /\ Resolved /\ Resolved' /\ cfg' = cfg /\ mac' = mac
        /\ Valid(cfg) /\ Usable(cfg["broker"]) /\ ~(mac = "error" /\ cfg["net-interface"] # "")
    BY <1>8, <1>a DEF BuildsTLS
  <2>2. CASE Buildable(cfg)
    <3>1. phase' = "warn"
      BY <1>8, <2>2 DEF BuildsTLS
    <3>2. Secured'
      <4>1. CASE SchemeIsTLS(cfg["broker"])
        BY <1>8, <2>1, <3>1, <4>1, SettingTypes DEF BuildsTLS, Secured, SchemeIsTLS, NoConn
      <4>2. CASE ~SchemeIsTLS(cfg["broker"])
        <5>1. ~cfg["tls-insecure"] /\ cfg["ca-file"] = "" /\ cfg["tls-servername"] = ""
              /\ cfg["tls-cert"] = "" /\ cfg["tls-key"] = ""
          BY <2>2, <4>2 DEF Buildable, SomeOptions, TLSTexts
        <5>2. conn' = NoConn
          BY <1>8, <4>2 DEF BuildsTLS
        <5>3. /\ ~conn'.tls /\ conn'.verify /\ conn'.ca = "" /\ conn'.cert = ""
              /\ conn'.key = "" /\ conn'.server = ""
          BY <5>2 DEF NoConn
        <5>4. ~SchemeIsTLS(cfg["broker"]) /\ ~SchemeIsTLS(cfg["broker"])'
          BY <2>1, <4>2 DEF SchemeIsTLS
        <5> QED BY <2>1, <5>1, <5>3, <5>4, SettingTypes DEF Secured
      <4> QED BY <4>1, <4>2
    <3> QED BY <1>c, <2>1, <2>2, <3>1, <3>2
  <2>3. CASE ~Buildable(cfg)
    <3>1. phase' = "refused"
      BY <1>8, <2>3 DEF BuildsTLS, Refuse
    <3>2. Faulty /\ (Faulty' <=> Faulty)
      BY <1>8, <2>1, <2>3, <1>b, BuildableUnlessFaulty DEF BuildsTLS
    <3> QED BY <3>1, <3>2
  <2> QED BY <2>2, <2>3
<1>9. CASE Warns
  <2>1. /\ Resolved' /\ cfg' = cfg /\ mac' = mac /\ conn' = conn
        /\ Valid(cfg) /\ Usable(cfg["broker"]) /\ Buildable(cfg) /\ Secured
        /\ ~(mac = "error" /\ cfg["net-interface"] # "")
    BY <1>9, <1>a DEF Warns
  <2>2. phase' = "dial" /\ warned' = IF Quiet(cfg) THEN {} ELSE Exposed(cfg)
    BY <1>9 DEF Warns
  <2>3. Exposed(cfg)' = Exposed(cfg)
    BY <2>1 DEF Exposed, SchemeIsTLS
  <2>4. Secured'
    BY <2>1 DEF Secured, SchemeIsTLS
  <2> QED BY <1>c, <2>1, <2>2, <2>3, <2>4
<1>10. CASE Dials
  <2>1. /\ Resolved' /\ cfg' = cfg /\ mac' = mac /\ warned' = warned
        /\ Valid(cfg) /\ Usable(cfg["broker"]) /\ Buildable(cfg) /\ Secured
        /\ ~(mac = "error" /\ cfg["net-interface"] # "")
        /\ warned = IF Quiet(cfg) THEN {} ELSE Exposed(cfg)
    BY <1>10, <1>a DEF Dials
  <2>2. /\ phase' = "connecting"
        /\ conn' = [conn EXCEPT !.qos = cfg["qos"] % 256, !.password = cfg["password"]]
    BY <1>10 DEF Dials
  <2>3. conn \in Conns
    BY DEF TypeOK
  <2>4. conn'.qos = cfg["qos"] % 256 /\ conn'.password = cfg["password"]
    BY <2>2, <2>3 DEF Conns
  <2>5. cfg["qos"] % 256 = cfg["qos"]
    BY <2>1, SmallByte DEF Valid
  <2>6. /\ conn'.tls = conn.tls /\ conn'.verify = conn.verify /\ conn'.ca = conn.ca
        /\ conn'.server = conn.server /\ conn'.cert = conn.cert /\ conn'.key = conn.key
    BY <2>2, <2>3 DEF Conns
  <2>7. Secured' /\ Exposed(cfg)' = Exposed(cfg)
    BY <2>1, <2>6 DEF Secured, Exposed, SchemeIsTLS
  <2> QED BY <1>c, <2>1, <2>2, <2>4, <2>5, <2>7
<1>11. CASE UNCHANGED vars
  <2>1. UNCHANGED <<phase, inputs, flags, cfg, mac, warned, conn>>
    BY <1>11 DEF vars, inputs
  <2>2. (Secured' <=> Secured) /\ Exposed(cfg)' = Exposed(cfg)
    BY <2>1 DEF Secured, Exposed, SchemeIsTLS
  <2> QED BY <1>a, <1>b, <1>c, <2>1, <2>2
<1> QED BY <1>1, <1>2, <1>3, <1>4, <1>5, <1>6, <1>7, <1>8, <1>9, <1>10, <1>11 DEF Next

LEMMA StartupInvHolds == Spec => [](TypeOK /\ StartupInv)
<1>1. Spec => []TypeOK
  BY Typing
<1> QED BY <1>1, StartupInvInit, StartupInvNext, PTL DEF Spec
-----------------------------------------------------------------------------
\* A start is refused only over something that is wrong with what was asked for,
\* and none that has anything wrong reaches the broker, whatever the settings
\* and the files.  (Load, validate, ValidateBrokerURL, buildTLSConfig.)
THEOREM RefusesTheFaultyHolds == Spec => []RefusesTheFaulty
<1>1. TypeOK /\ StartupInv => RefusesTheFaulty
  <2> SUFFICES ASSUME TypeOK, StartupInv, phase = "connecting" PROVE ~Faulty
    BY DEF RefusesTheFaulty, StartupInv
  <2>1. /\ Resolved /\ Valid(cfg) /\ Usable(cfg["broker"]) /\ Buildable(cfg)
        /\ ~(mac = "error" /\ cfg["net-interface"] # "")
    BY DEF StartupInv, Validated, Probed, Checked, Built, Dialling
  <2>2. ~(cfg["interval"] < 1) /\ cfg["qos"] \in {0, 1, 2} /\ cfg["node-id"] # ""
    <3>1. cfg["interval"] >= 1 /\ cfg["interval"] \in Int
      BY <2>1, SettingTypes DEF Valid
    <3>2. cfg["qos"] \in 0..2
      BY <2>1 DEF Valid
    <3>3. cfg["qos"] \in {0, 1, 2}
      BY <3>2
    <3>4. ~(cfg["interval"] < 1)
      BY <3>1
    <3> QED BY <2>1, <3>3, <3>4 DEF Valid
  <2>3. /\ Asked("broker").scheme \in Secure \cup Plain
        /\ Asked("broker").host \/ Asked("broker").scheme = "unix"
    BY <2>1, ResolvedSettings, SettingTypes DEF Usable, URLs, Bools
  <2>4. CASE AskedForTLS
    <3>1. SchemeIsTLS(cfg["broker"])
      BY <2>1, <2>4, ResolvedSettings DEF AskedForTLS, SchemeIsTLS
    <3>2. (cfg["ca-file"] = "" \/ cfg["ca-file"] \in Certificates) /\ Pair(cfg)
      BY <2>1, <3>1 DEF Buildable
    <3>3. /\ Asked("ca-file") \in Certificates \cup {""}
          /\ Asked("tls-cert") \in Certificates \cup {""}
          /\ Asked("tls-key") \in Keys \cup {""}
          /\ (Asked("tls-cert") = "") <=> (Asked("tls-key") = "")
      BY <2>1, <3>2, ResolvedSettings, StartupAssumption DEF Pair
    <3> QED BY <2>1, <2>2, <2>3, <2>4, <3>3, ResolvedSettings DEF Faulty
  <2>5. CASE ~AskedForTLS
    BY <2>1, <2>2, <2>3, <2>5, ResolvedSettings
       DEF Faulty, AskedForTLS, Buildable, SomeOptions, SchemeIsTLS
  <2> QED BY <2>4, <2>5
<1> QED BY <1>1, StartupInvHolds, PTL

\* The connection is protected as the operator asked.  (From the settings
\* through TLSOptions to the client options.)
THEOREM ConnectsAsAskedHolds == Spec => []ConnectsAsAsked
<1>1. TypeOK /\ StartupInv => ConnectsAsAsked
  BY ResolvedSettings
     DEF ConnectsAsAsked, StartupInv, Validated, Probed, Checked, Built, Dialling,
         Secured, SchemeIsTLS, AskedForTLS
<1> QED BY <1>1, StartupInvHolds, PTL

\* Nothing exposed goes over a connection the log did not warn of.
\* (warnIfCredentialsAreExposed.)
THEOREM ExposureIsWarnedHolds == Spec => []ExposureIsWarned
<1>1. TypeOK /\ StartupInv => ExposureIsWarned
  <2> SUFFICES ASSUME TypeOK, StartupInv, phase = "connecting", Asked("log-level") # "error"
               PROVE  /\ conn.password # "" /\ ~conn.tls => "password in the clear" \in warned
                      /\ ~conn.verify => "not verified" \in warned
    BY DEF ExposureIsWarned
  <2>1. /\ Resolved /\ Buildable(cfg) /\ Secured /\ conn.password = cfg["password"]
        /\ warned = IF Quiet(cfg) THEN {} ELSE Exposed(cfg)
    BY DEF StartupInv, Validated, Probed, Checked, Built, Dialling
  <2>2. warned = Exposed(cfg)
    BY <2>1, ResolvedSettings DEF Quiet
  <2>3. ASSUME ~conn.verify PROVE conn.tls
    BY <2>1, <2>3, SettingTypes DEF Secured, Buildable, SomeOptions, SchemeIsTLS
  <2> QED BY <2>1, <2>2, <2>3 DEF Exposed, Secured, SchemeIsTLS
<1> QED BY <1>1, StartupInvHolds, PTL
=============================================================================
