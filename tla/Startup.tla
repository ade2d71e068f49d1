-------------------------------- MODULE Startup --------------------------------
(***************************************************************************)
(* What happens before the daemon speaks to a broker: run of               *)
(* cmd/sparkwrangler resolves the settings (internal/config) and looks for  *)
(* the node's address; NewMQTT of internal/publisher checks the broker URL  *)
(* and the TLS options, warns, and connects.                                *)
(*                                                                         *)
(* A setting is what an operator wrote for it in the environment and on the *)
(* command line.  Settings that are only copied (names, prefixes, paths)    *)
(* are left out, and vllm-timeout, which is resolved as interval is.        *)
(***************************************************************************)
EXTENDS Integers, FiniteSets

CONSTANTS
    Unset, Garbage,  \* nothing written; something that does not parse
    Schemes,         \* of broker URLs; "none" is a text without "://"
    Numbers,         \* for qos, and for interval in seconds
    Texts,           \* for settings that are any text
    Levels,          \* for log-level
    Certificates,    \* paths of files with PEM certificates
    Keys,            \* paths of the files with their keys
    MaxExports,      \* bound: settings written in the environment
    MaxFlags         \* bound: settings written as flags

Bools == {TRUE, FALSE}
Paths == Certificates \cup Keys \cup {""}
URLs == [scheme : Schemes, host : Bools]

ASSUME StartupAssumption ==
    /\ Unset # Garbage
    /\ \A mark \in {Unset, Garbage} :
          /\ mark \notin Numbers /\ mark \notin Bools /\ mark \notin URLs
          /\ mark \notin Texts \cup Levels \cup Paths
    /\ Numbers \subseteq Int /\ {1, 15} \subseteq Numbers
    /\ {"", "node"} \subseteq Texts /\ "info" \in Levels
    /\ "tcp" \in Schemes
    /\ "" \notin Certificates \cup Keys

VARIABLES
    phase,   \* where run is
    env,     \* what the environment says of each setting
    flags,   \* history: the last flag for each setting
    cfg,     \* the Config
    mac,     \* what PrimaryMAC found
    warned,  \* the warnings that reached the log
    conn     \* what Connect is called with

inputs == <<env, flags>>
vars == <<phase, inputs, cfg, mac, warned, conn>>
-----------------------------------------------------------------------------
Secure == {"mqtts", "ssl", "tls", "wss"}
Plain == {"mqtt", "tcp", "ws", "unix"}

TLSTexts == {"ca-file", "tls-cert", "tls-key", "tls-servername"}
Typed == {"qos", "interval", "tls-insecure"}
Settings == TLSTexts \cup Typed \cup {"node-id", "password", "net-interface",
                                      "log-level", "broker"}

\* The values of a setting, and its default; a node id defaults to the hostname.
Domain == [s \in Settings |-> IF s = "broker" THEN URLs
                              ELSE IF s = "tls-insecure" THEN Bools
                              ELSE IF s \in {"qos", "interval"} THEN Numbers
                              ELSE IF s \in {"ca-file", "tls-cert", "tls-key"} THEN Paths
                              ELSE IF s = "log-level" THEN Levels ELSE Texts]
Default == [s \in Settings |-> IF s = "broker" THEN [scheme |-> "tcp", host |-> TRUE]
                               ELSE IF s = "tls-insecure" THEN FALSE
                               ELSE IF s = "qos" THEN 1
                               ELSE IF s = "interval" THEN 15
                               ELSE IF s = "node-id" THEN "node"
                               ELSE IF s = "log-level" THEN "info" ELSE ""]

\* What may be written for it: any text is a value of a setting that is a text.
Written(s) == Domain[s] \cup IF s \in Typed THEN {Garbage} ELSE {}

Conns == [tls : BOOLEAN, verify : BOOLEAN, ca : Paths, cert : Paths, key : Paths,
          server : Texts, qos : 0..255, password : Texts]
NoConn == [tls |-> FALSE, verify |-> TRUE, ca |-> "", cert |-> "", key |-> "",
           server |-> "", qos |-> 0, password |-> ""]

TypeOK ==
    /\ phase \in {"shell", "flags", "parsed", "probe", "url", "tls", "warn", "dial",
                  "connecting", "refused"}
    /\ DOMAIN env = Settings /\ DOMAIN flags = Settings /\ DOMAIN cfg = Settings
    /\ \A s \in Settings : /\ {env[s], flags[s]} \subseteq Written(s) \cup {Unset}
                           /\ cfg[s] \in Domain[s]
    /\ mac \in {"found", "none", "error"}
    /\ warned \subseteq {"password in the clear", "not verified"}
    /\ conn \in Conns

Init ==
    /\ phase = "shell"
    /\ env = [s \in Settings |-> Unset]
    /\ flags = [s \in Settings |-> Unset]
    /\ cfg = Default
    /\ mac = "none"
    /\ warned = {}
    /\ conn = NoConn

Given(f) == Cardinality({s \in Settings : f[s] # Unset})
-----------------------------------------------------------------------------
(***************************************************************************)
(* config.Load.                                                            *)
(***************************************************************************)
Refuse == phase' = "refused"

Exports(s, v) ==
    /\ phase = "shell"
    /\ env[s] = Unset /\ Given(env) < MaxExports
    /\ v # Default[s]   \* written there, it is as good as unset
    /\ env' = [env EXCEPT ![s] = v]
    /\ UNCHANGED <<phase, flags, cfg, mac, warned, conn>>

\* env, envBool, envInt and envDuration.  Wrong variant: what does not parse is
\* not noticed.
LookupRaw(s) == IF env[s] = Unset THEN Default[s] ELSE env[s]
Lookup(s) == IF env[s] \in {Unset, Garbage} THEN Default[s] ELSE env[s]

\* The environment supplies the defaults of the flags.
Registers ==
    /\ phase = "shell"
    /\ cfg' = [s \in Settings |-> Lookup(s)]
    /\ phase' = "flags"
    /\ UNCHANGED <<inputs, mac, warned, conn>>

\* A flag that does not parse ends the start.
ParsesFlag(s, v) ==
    /\ phase = "flags"
    /\ flags[s] = Unset => Given(flags) < MaxFlags
    /\ flags' = [flags EXCEPT ![s] = v]
    /\ IF v = Garbage THEN Refuse /\ UNCHANGED cfg
                      ELSE cfg' = [cfg EXCEPT ![s] = v] /\ UNCHANGED phase
    /\ UNCHANGED <<env, mac, warned, conn>>

\* The arguments are used up, or one is met that is no flag: Load looks at none of
\* those behind it, and run does not ask for them.
EndsFlags ==
    /\ phase = "flags"
    /\ phase' = "parsed"
    /\ UNCHANGED <<inputs, cfg, mac, warned, conn>>

\* Config.validate.  Wrong variant: qos is not looked at.
ValidAnyQoS(c) == c["node-id"] # "" /\ c["interval"] >= 1
Valid(c) == c["node-id"] # "" /\ c["interval"] >= 1 /\ c["qos"] \in 0..2

Validates ==
    /\ phase = "parsed"
    /\ IF Valid(cfg) THEN phase' = "probe" ELSE Refuse
    /\ UNCHANGED <<inputs, cfg, mac, warned, conn>>

\* PrimaryMAC (module Network): a named interface that cannot be read is an
\* error of the start, a search that fails is not.
Probes ==
    /\ phase = "probe"
    /\ mac' \in {"found", "none", "error"}
    /\ IF mac' = "error" /\ cfg["net-interface"] # "" THEN Refuse ELSE phase' = "url"
    /\ UNCHANGED <<inputs, cfg, warned, conn>>
-----------------------------------------------------------------------------
(***************************************************************************)
(* NewMQTT.                                                                *)
(***************************************************************************)
\* ValidateBrokerURL.
Usable(url) == url.scheme \in Secure \cup Plain /\ (url.scheme = "unix" \/ url.host)

ChecksURL ==
    /\ phase = "url"
    /\ IF cfg["node-id"] # "" /\ Usable(cfg["broker"]) THEN phase' = "tls" ELSE Refuse
    /\ UNCHANGED <<inputs, cfg, mac, warned, conn>>

SchemeIsTLS(url) == url.scheme \in Secure

\* TLSOptions other than its zero value.  Wrong variant: the fields the guard
\* once enumerated.
SomeOptionsListed(c) == c["ca-file"] # "" \/ c["tls-cert"] # "" \/ c["tls-insecure"]
SomeOptions(c) == c["tls-insecure"] \/ \E s \in TLSTexts : c[s] # ""

\* The client's key pair: none, or both halves; the key of another certificate is
\* no member of Keys.
Pair(c) == \/ c["tls-cert"] = "" /\ c["tls-key"] = ""
           \/ c["tls-cert"] \in Certificates /\ c["tls-key"] \in Keys

\* buildTLSConfig returns no error.
Buildable(c) ==
    IF SchemeIsTLS(c["broker"])
    THEN (c["ca-file"] = "" \/ c["ca-file"] \in Certificates) /\ Pair(c)
    ELSE ~SomeOptions(c)

BuildsTLS ==
    /\ phase = "tls"
    /\ IF Buildable(cfg) THEN phase' = "warn" ELSE Refuse
    /\ conn' = IF phase' = "warn" /\ SchemeIsTLS(cfg["broker"])
               THEN [NoConn EXCEPT !.tls = TRUE, !.verify = ~cfg["tls-insecure"],
                                   !.server = cfg["tls-servername"],
                                   !.ca = cfg["ca-file"], !.cert = cfg["tls-cert"],
                                   !.key = cfg["tls-key"]]
               ELSE NoConn
    /\ UNCHANGED <<inputs, cfg, mac, warned>>

\* newLogger shows no warning at level error, and takes a level it does not
\* know for info.
Quiet(c) == c["log-level"] = "error"

\* warnIfCredentialsAreExposed.  Wrong variant: no word of a password when the
\* connection has no TLS configuration.
ExposedWithinTLS(c) ==
    IF conn.tls /\ ~conn.verify THEN {"not verified"} ELSE {}
Exposed(c) ==
    (IF c["password"] # "" /\ ~SchemeIsTLS(c["broker"])
     THEN {"password in the clear"} ELSE {}) \cup
    (IF conn.tls /\ ~conn.verify THEN {"not verified"} ELSE {})

Warns ==
    /\ phase = "warn"
    /\ warned' = IF Quiet(cfg) THEN {} ELSE Exposed(cfg)
    /\ phase' = "dial"
    /\ UNCHANGED <<inputs, cfg, mac, conn>>

\* The client options, with QoS a byte, and Connect (module Transport).
Dials ==
    /\ phase = "dial"
    /\ conn' = [conn EXCEPT !.qos = cfg["qos"] % 256, !.password = cfg["password"]]
    /\ phase' = "connecting"
    /\ UNCHANGED <<inputs, cfg, mac, warned>>

Next ==
    \/ \E s \in Settings : \E v \in Written(s) : Exports(s, v) \/ ParsesFlag(s, v)
    \/ Registers \/ EndsFlags \/ Validates \/ Probes
    \/ ChecksURL \/ BuildsTLS \/ Warns \/ Dials

Spec == Init /\ [][Next]_vars
-----------------------------------------------------------------------------
\* What the operator asked for: a flag, else the environment, else the default.
\* A typo in the environment is as good as nothing (config_test.go:64-68).
Asked(s) == IF flags[s] # Unset THEN flags[s]
            ELSE IF env[s] \notin {Unset, Garbage} THEN env[s]
            ELSE Default[s]

AskedForTLS == Asked("broker").scheme \in Secure

\* Everything that is wrong with what was asked for, whichever step finds it.
Faulty ==
    \/ \E s \in Settings : flags[s] = Garbage
    \/ Asked("node-id") = ""
    \/ Asked("interval") < 1
    \/ Asked("qos") \notin {0, 1, 2}
    \/ Asked("net-interface") # "" /\ mac = "error"
    \/ Asked("broker").scheme \notin Secure \cup Plain
    \/ ~Asked("broker").host /\ Asked("broker").scheme # "unix"
    \/ ~AskedForTLS /\ (Asked("tls-insecure") \/ \E s \in TLSTexts : Asked(s) # "")
    \/ AskedForTLS /\ Asked("ca-file") \notin Certificates \cup {""}
    \/ AskedForTLS /\ Asked("tls-cert") \notin Certificates \cup {""}
    \/ AskedForTLS /\ Asked("tls-key") \notin Keys \cup {""}
    \/ AskedForTLS /\ ~(Asked("tls-cert") = "" <=> Asked("tls-key") = "")

\* A start that is refused had something wrong with it, and a start with
\* anything wrong never reaches the broker: neither half a key pair nor TLS
\* options against a plaintext URL are dropped in silence, and a typo in the
\* environment refuses nothing.  (Load, validate, ValidateBrokerURL and
\* buildTLSConfig together.)
RefusesTheFaulty ==
    /\ phase = "refused" => Faulty
    /\ phase = "connecting" => ~Faulty

\* The connection is protected as the operator asked: TLS exactly for a TLS
\* scheme, verified unless told otherwise in so many words, against the bundle,
\* with the name and the pair that were given, and at the QoS that was given.
\* (From the settings through TLSOptions to the client options.)
ConnectsAsAsked ==
    phase = "connecting" =>
        /\ conn.tls <=> AskedForTLS
        /\ conn.verify <=> ~Asked("tls-insecure")
        /\ conn.ca = Asked("ca-file") /\ conn.server = Asked("tls-servername")
        /\ conn.cert = Asked("tls-cert") /\ conn.key = Asked("tls-key")
        /\ conn.qos = Asked("qos")

\* Nothing goes over an exposed connection that the log did not say first: not
\* a password in the clear, not a broker that is not verified; at log level
\* error the warnings are not shown.  (warnIfCredentialsAreExposed.)
ExposureIsWarned ==
    phase = "connecting" /\ Asked("log-level") # "error" =>
        /\ conn.password # "" /\ ~conn.tls => "password in the clear" \in warned
        /\ ~conn.verify => "not verified" \in warned
-----------------------------------------------------------------------------
(***************************************************************************)
(* The strengthening for the proofs: what each phase has established.      *)
(***************************************************************************)
Dialling == {"dial", "connecting"}
Built == {"warn"} \cup Dialling
Checked == {"tls"} \cup Built
Probed == {"url"} \cup Checked
Validated == {"probe"} \cup Probed

\* conn, but for what Dials adds.
Secured ==
    /\ conn.tls <=> SchemeIsTLS(cfg["broker"])
    /\ conn.verify <=> ~cfg["tls-insecure"]
    /\ conn.ca = cfg["ca-file"] /\ conn.server = cfg["tls-servername"]
    /\ conn.cert = cfg["tls-cert"] /\ conn.key = cfg["tls-key"]

Resolved == \A s \in Settings : flags[s] # Garbage /\ cfg[s] = Asked(s)

StartupInv ==
    /\ phase = "shell" => flags = [s \in Settings |-> Unset]
    /\ phase \in {"flags", "parsed"} \cup Validated => Resolved
    /\ phase \in Validated => Valid(cfg)
    /\ phase \in Probed => ~(mac = "error" /\ cfg["net-interface"] # "")
    /\ phase \in Checked => Usable(cfg["broker"])
    /\ phase \in Built => Buildable(cfg) /\ Secured
    /\ phase \in Dialling => warned = IF Quiet(cfg) THEN {} ELSE Exposed(cfg)
    /\ phase = "connecting" => conn.qos = cfg["qos"] /\ conn.password = cfg["password"]
    /\ phase = "refused" => Faulty
=============================================================================
