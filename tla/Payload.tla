-------------------------------- MODULE Payload --------------------------------
(***************************************************************************)
(* What one pass puts into the state payload and what Home Assistant makes  *)
(* of it: Client.Read and applyMetrics of internal/vllm, NvidiaSMI.Read of  *)
(* internal/gpu, ReadMemory of internal/host, FromVLLM and PublishState of  *)
(* internal/publisher, and the catalog of internal/hadiscovery.  Module     *)
(* Observe has the other half, how passes and the engine interleave, with   *)
(* the token rate, which is left out here: nothing else passes from one      *)
(* pass to the next, and one pass is all there is.                          *)
(*                                                                         *)
(* A JSON object, and a Go struct of optional fields, is a set of pairs of  *)
(* a name and a text: what is absent has no pair.                           *)
(***************************************************************************)
EXTENDS Exposition

CONSTANTS
    MaxChars,   \* bound: characters of that name
    MaxLines,   \* bound: lines of a scrape
    MaxOdd      \* bound: fields of nvidia-smi's row other than a plain number

ASSUME PayloadAssumption == {MaxChars, MaxLines, MaxOdd} \subseteq Nat

VARIABLES
    pc,         \* where observe is
    withVLLM,   \* not worker mode
    mac,        \* the address run found, or none
    metrics,    \* the samples of the scrape so far
    reading,    \* the Reading under construction
    state,      \* the State under construction
    published,  \* the payload on the state topic
    lost,       \* no payload was published
    scrape,     \* history: what the engine wrote of it so far
    told,       \* history: what the sources said in this pass
    garbled,    \* history: a line of the scrape was not readable
    endless     \* history: who gave for a number what is none

history == <<scrape, told, garbled, endless>>
vars == <<pc, withVLLM, mac, metrics, reading, state, published, lost, history>>
-----------------------------------------------------------------------------
Get(object, name) == {pair[2] : pair \in {p \in object : p[1] = name}}
Object(fields) == UNION {{name} \X fields[name] : name \in DOMAIN fields}
Names(object) == {pair[1] : pair \in object}

Pct(v) == v \o <<"*", "100">>
Minus(a, b) == a \o <<"-">> \o b
Over(a, b) == a \o <<"/">> \o b
Positive(v) == v \notin {<<"0">>, <<"NaN">>}
True == <<"true">>
False == <<"false">>

\* json.Marshal fails on it.
NoNumber(v) == \E i \in DOMAIN v :
    v[i] \in {"NaN", "+Inf"} \/ (v[i] = "0" /\ i > 1 /\ v[i - 1] = "/")

\* WorkerState: the time of the pass.
WorkerState == {<<"last_seen", <<"now">>>>}
-----------------------------------------------------------------------------
(***************************************************************************)
(* The catalog (sensors.go): the key each entity's template reads.          *)
(***************************************************************************)
vllmSensors == [
    vllm_running |-> "vllm_up", served_model |-> "model",
    kv_cache_usage |-> "kv_cache_usage_pct", requests_running |-> "requests_running",
    requests_waiting |-> "requests_waiting",
    waiting_for_capacity |-> "waiting_for_capacity", preemptions |-> "preemptions",
    prefix_cache_hit_rate |-> "prefix_cache_hit_rate_pct",
    generation_rate |-> "generation_tokens_per_second",
    max_model_len |-> "max_model_len", kv_cache_tokens |-> "kv_cache_tokens",
    max_concurrency |-> "max_concurrency", prefix_caching |-> "prefix_caching_enabled"]
hostSensors == [
    gpu_utilization |-> "gpu_utilization_pct", gpu_clock |-> "gpu_clock_mhz",
    gpu_temperature |-> "gpu_temperature_c", gpu_power |-> "gpu_power_w",
    memory_available |-> "memory_available_bytes", memory_used |-> "memory_used_pct",
    mac_address |-> "mac_address", last_seen |-> "last_seen"]

Sensors(serves) ==
    [id \in (IF serves THEN DOMAIN vllmSensors ELSE {}) \cup DOMAIN hostSensors |->
        IF id \in DOMAIN hostSensors THEN hostSensors[id] ELSE vllmSensors[id]]

Binary == {"vllm_running", "prefix_caching"}

\* What an entity shows of a payload: nothing (unknown), a value, or, for a
\* binary one, ON or OFF.  Wrong variant: the template without "is not defined".
optionalBinaryFalsey(payload, key) ==
    IF Get(payload, key) = {True} THEN {<<"ON">>} ELSE {<<"OFF">>}
optionalBinary(payload, key) == {IF v = True THEN <<"ON">> ELSE <<"OFF">> : v \in Get(payload, key)}
optional(payload, key) == Get(payload, key)
Shown(payload, serves, id) ==
    IF id \in Binary THEN optionalBinary(payload, Sensors(serves)[id])
                     ELSE optional(payload, Sensors(serves)[id])
-----------------------------------------------------------------------------
(***************************************************************************)
(* The sources: what they may say.                                         *)
(***************************************************************************)
CacheConfig == "vllm:cache_config_info"
ByReason == "vllm:num_requests_waiting_by_reason"
KVCache == "vllm:kv_cache_usage_perc"
Queries == "vllm:prefix_cache_queries_total"
Hits == "vllm:prefix_cache_hits_total"
Running == "vllm:num_requests_running"
Waiting == "vllm:num_requests_waiting"
Preemptions == "vllm:num_preemptions_total"
Numbers == {KVCache, Queries, Hits, Running, Waiting, Preemptions}

\* What follows the model's name in the labels of a metric.
MoreLabels(name) ==
    IF name = ByReason THEN {<<"reason", <<r>>>> : r \in {"capacity", "deferred"}}
    ELSE IF name = CacheConfig
    THEN {<<"enable_prefix_caching", <<"True">>>>, <<"kv_cache_size_tokens", <<"None">>>>,
          <<"kv_cache_size_tokens", <<"1">>>>, <<"kv_cache_max_concurrency", <<"0">>>>,
          <<"kv_cache_max_concurrency", <<"+Inf">>>>}
    ELSE {<<"engine", <<"0">>>>}

\* The model's name is what the operator called it, the same on every line.
Chars == {"x", Comma, Equals, Close, Quote, Backslash}
ModelNames == IF scrape = <<>> THEN BoundedSeq(Chars, MaxChars)
              ELSE {scrape[1].labels[1][2]}
Samples ==
    {[name |-> t[1], labels |-> <<<<"model_name", t[2]>>, t[3]>>, value |-> t[4]] :
        t \in UNION {{n} \X ModelNames \X MoreLabels(n)
                         \X (IF n = CacheConfig THEN {"1"} ELSE Floats) :
                     n \in Numbers \cup {ByReason, CacheConfig}}}

\* nvidia-smi's row: some of its four fields are not supported or are no number;
\* a driver may answer fewer, or nothing.
SmiFields == {"1", "[N/A]", "NaN"}
Rows == {row \in [1..4 -> SmiFields] :
            Cardinality({i \in 1..4 : row[i] # "1"}) <= MaxOdd} \cup {<<>>, <<"1">>}

\* /proc/meminfo: an old kernel has no MemAvailable, a container may have less.
MemInfos == {total \o <<<<"MemFree", "8">>>> \o available :
                total \in {<<>>, <<<<"MemTotal", "0">>>>, <<<<"MemTotal", "1">>>>},
                available \in {<<>>, <<<<"MemAvailable", "1">>>>}}
-----------------------------------------------------------------------------
TypeOK ==
    /\ pc \in {"idle", "health", "models", "metrics", "smi", "memory", "publish",
                "done"}
    /\ {withVLLM, lost, garbled} \subseteq BOOLEAN
    /\ mac \in {{}, {<<"mac">>}}
    /\ \A object \in {reading, state, published} :
          \A p, q \in object : p[1] = q[1] => p = q
    /\ \A s \in ToSet(metrics) : s.name # <<>> /\ s.value[1] \in Finite
    /\ Len(metrics) <= Len(scrape) /\ Len(scrape) <= MaxLines
    /\ endless \subseteq {"nvidia-smi", "label"}

Init ==
    /\ pc = "idle"
    /\ withVLLM \in BOOLEAN
    /\ mac \in {{}, {<<"mac">>}}
    /\ metrics = <<>> /\ reading = {} /\ state = WorkerState /\ published = {}
    /\ lost = FALSE /\ garbled = FALSE
    /\ scrape = <<>> /\ told = {} /\ endless = {}

Config == <<withVLLM, mac>>
Published == <<published, lost>>

\* In worker mode nobody is asked.
Begins ==
    /\ pc = "idle"
    /\ pc' = IF withVLLM THEN "health" ELSE "smi"
    /\ UNCHANGED <<Config, metrics, reading, state, Published, history>>
-----------------------------------------------------------------------------
(***************************************************************************)
(* Client.Read and FromVLLM.                                               *)
(***************************************************************************)
\* The first member of a sequence that is in a set, if there is one.
FirstIn(seq, set) ==
    LET places == {i \in DOMAIN seq : seq[i] \in set}
    IN {seq[i] : i \in {j \in places : \A k \in places : j <= k}}

Named(m, name) == {s \in ToSet(m) : s.name = <<name>>}
Value(m, name) == {s.value : s \in FirstIn(m, Named(m, name))}
ValueWhere(m, name, label) ==
    {s.value : s \in FirstIn(m, {t \in Named(m, name) : label \in t.labels})}
Label(m, name, label) ==
    UNION {Get(s.labels, <<label>>) : s \in FirstIn(m, Named(m, name))}

applyMetrics(m) == Object([
    KVCacheUsage |-> Value(m, KVCache),
    RequestsRunning |-> Value(m, Running),
    RequestsWaiting |-> Value(m, Waiting),
    Preemptions |-> Value(m, Preemptions),
    WaitingForCapacity |-> ValueWhere(m, ByReason, <<<<"reason">>, <<"capacity">>>>),
    PrefixCacheHitRate |-> {Over(h, q) : h \in Value(m, Hits), q \in {v \in Value(m, Queries) : Positive(v)}},
    PrefixCachingOn |-> {IF v = <<"True">> THEN True ELSE False :
                            v \in Label(m, CacheConfig, "enable_prefix_caching")},
    KVCacheTokens |-> {v \in Label(m, CacheConfig, "kv_cache_size_tokens") : Len(v) = 1 /\ v[1] \in Finite},
    MaxConcurrency |-> {v \in Label(m, CacheConfig, "kv_cache_max_concurrency") :
                            Len(v) = 1 /\ v[1] \in Floats}])

\* An engine that is down says nothing else.
FromVLLM(r) == Object([
    last_seen |-> {<<"now">>},
    vllm_up |-> {IF Get(r, "Up") = {True} THEN True ELSE False},
    model |-> Get(r, "Model"),
    max_model_len |-> {v \in Get(r, "MaxModelLen") : Positive(v)},
    kv_cache_usage_pct |-> {Pct(v) : v \in Get(r, "KVCacheUsage")},
    requests_running |-> Get(r, "RequestsRunning"),
    requests_waiting |-> Get(r, "RequestsWaiting"),
    preemptions |-> Get(r, "Preemptions"),
    waiting_for_capacity |-> Get(r, "WaitingForCapacity"),
    prefix_cache_hit_rate_pct |-> {Pct(v) : v \in Get(r, "PrefixCacheHitRate")},
    prefix_caching_enabled |-> Get(r, "PrefixCachingOn"),
    kv_cache_tokens |-> {v \in Get(r, "KVCacheTokens") : Positive(v)},
    max_concurrency |-> {v \in Get(r, "MaxConcurrency") : Positive(v)}])

\* The end of Read: what becomes of the reading r.
Reads(r) == reading' = r /\ state' = FromVLLM(r) /\ pc' = "smi"

\* What the scrape says of a name, with one of these labels: the first finite sample.
Written(name, labels) ==
    FirstIn(scrape, {s \in ToSet(scrape) :
                       s.name = name /\ s.labels[2] \in labels /\ s.value \in Finite})
SaidOf(name) ==
    {<<s.value>> : s \in Written(name, IF name = ByReason THEN {<<"reason", <<"capacity">>>>}
                                                          ELSE MoreLabels(name))}
Said == Object([n \in Numbers \cup {ByReason} |-> SaidOf(n)])
            \cup {s.labels[2] : s \in Written(CacheConfig, MoreLabels(CacheConfig))}

\* healthy.
HealthAnswers ==
    /\ pc = "health"
    /\ reading' = {<<"Up", True>>}
    /\ told' = told \cup {<<"up", True>>}
    /\ pc' = "models"
    /\ UNCHANGED <<Config, metrics, state, Published, scrape, garbled, endless>>

HealthFails ==
    /\ pc = "health"
    /\ Reads({})
    /\ told' = told \cup {<<"up", False>>}
    /\ UNCHANGED <<Config, metrics, Published, scrape, garbled, endless>>

\* servedModel: it fails or serves no model, or names one, whose length it may
\* leave out.
Served == {{}} \cup {{<<"Model", <<"m">>>>, <<"MaxModelLen", <<l>>>>} : l \in Finite}

ModelsEnd ==
    /\ pc = "models"
    /\ \E served \in Served :
          /\ reading' = reading \cup served
          /\ told' = told \cup served
    /\ pc' = "metrics"
    /\ UNCHANGED <<Config, metrics, state, Published, scrape, garbled, endless>>

\* ParseMetrics, a line at a time.
ReadsLine ==
    /\ pc = "metrics"
    /\ Len(scrape) < MaxLines
    /\ \E s \in Samples :
          /\ scrape' = Append(scrape, s)
          /\ metrics' = metrics \o SetToSeq(parseLine(Render(s)))
    /\ UNCHANGED <<pc, Config, reading, state, Published, told, garbled, endless>>

ForgetsScrape == metrics' = <<>> /\ scrape' = <<>>

ScrapeEnds ==
    /\ pc = "metrics"
    /\ Reads(reading \cup applyMetrics(metrics))
    /\ told' = told \cup Said
    /\ garbled' = \E s \in ToSet(scrape) : ~Readable(s)
    /\ endless' = IF <<"kv_cache_max_concurrency", <<"+Inf">>>> \in told' THEN {"label"} ELSE {}
    /\ ForgetsScrape
    /\ UNCHANGED <<Config, Published>>

\* A status, a connection that breaks, a line over 1 MiB: up, and unscrapable.
ScrapeFails ==
    /\ pc = "metrics"
    /\ Reads(reading)
    /\ ForgetsScrape
    /\ UNCHANGED <<Config, Published, told, garbled, endless>>
-----------------------------------------------------------------------------
(***************************************************************************)
(* The other sources, and the end of the pass.                             *)
(***************************************************************************)
\* smiFloat, of the field in the i-th place.
smiFloat(row, i) == IF row[i] \in Floats THEN {<<row[i]>>} ELSE {}

\* parseSMI.
parseSMI(row) ==
    IF Len(row) < 4 THEN {}
    ELSE Object([gpu_utilization_pct |-> smiFloat(row, 1), gpu_clock_mhz |-> smiFloat(row, 2),
                 gpu_temperature_c |-> smiFloat(row, 3), gpu_power_w |-> smiFloat(row, 4)])

\* The keys of the four fields.
GPUKeys == <<"gpu_utilization_pct", "gpu_clock_mhz", "gpu_temperature_c", "gpu_power_w">>

\* NvidiaSMI.Read; no row is no driver or an error.
ReadsAccelerator ==
    /\ pc = "smi"
    /\ \E row \in Rows :
          /\ state' = state \cup parseSMI(row)
          /\ told' = told \cup IF Len(row) < 4 THEN {}
                               ELSE {<<GPUKeys[i], <<row[i]>>>> : i \in {j \in 1..4 : row[j] \in Finite}}
          /\ endless' = endless \cup IF "NaN" \in ToSet(row) THEN {"nvidia-smi"} ELSE {}
    /\ pc' = "memory"
    /\ UNCHANGED <<Config, metrics, reading, Published, scrape, garbled>>

kibToBytes(v) == <<v, "*", "1024">>

\* parseMemInfo, a line at a time, until both are known.
Known == {"MemTotal", "MemAvailable"}
Notes(m, line) ==
    IF line[1] \in Known /\ ~(Known \subseteq Names(m))
    THEN {f \in m : f[1] # line[1]} \cup {<<line[1], kibToBytes(line[2])>>}
    ELSE m
parseMemInfo(lines) ==
    LET m[i \in 0..Len(lines)] == IF i = 0 THEN {} ELSE Notes(m[i - 1], lines[i])
    IN m[Len(lines)]

\* Wrong variant: a total of zero is divided by.
UsedPctAnyTotal(m) == {Pct(Over(Minus(t, a), t)) : a \in Get(m, "MemAvailable"), t \in Get(m, "MemTotal")}
UsedPct(m) == {Pct(Over(Minus(t, a), t)) : a \in Get(m, "MemAvailable"),
                                           t \in {v \in Get(m, "MemTotal") : v # kibToBytes("0")}}

\* ReadMemory; no lines is no file or an error.  observe adds the address.
ReadsMemory ==
    /\ pc = "memory"
    /\ \E lines \in MemInfos :
          /\ state' = state \cup Object([
                 memory_available_bytes |-> Get(parseMemInfo(lines), "MemAvailable"),
                 memory_used_pct |-> UsedPct(parseMemInfo(lines)),
                 mac_address |-> mac])
          /\ told' = told \cup {<<l[1], <<l[2]>>>> : l \in ToSet(lines)}
    /\ pc' = "publish"
    /\ UNCHANGED <<Config, metrics, reading, Published, scrape, garbled, endless>>

\* PublishState; json.Marshal refuses a payload with what is no number.
Publishes ==
    /\ pc = "publish"
    /\ lost' = \E pair \in state : NoNumber(pair[2])
    /\ published' = IF lost' THEN published ELSE state
    /\ pc' = "done"
    /\ UNCHANGED <<Config, metrics, reading, state, history>>

Next ==
    \/ Begins \/ HealthAnswers \/ HealthFails \/ ModelsEnd
    \/ ReadsLine \/ ScrapeEnds \/ ScrapeFails
    \/ ReadsAccelerator \/ ReadsMemory \/ Publishes

Spec == Init /\ [][Next]_vars
-----------------------------------------------------------------------------
Fresh == pc = "done" /\ ~lost

OnOff(values) == {IF v = True THEN <<"ON">> ELSE <<"OFF">> : v \in values}
NonZero(values) == values \ {<<"0">>}

\* What each entity ought to show, given what the sources said and
\* the address that was found.
Truth(said, address) == [
    vllm_running |-> OnOff(Get(said, "up")),
    served_model |-> Get(said, "Model"),
    max_model_len |-> NonZero(Get(said, "MaxModelLen")),
    kv_cache_usage |-> {Pct(v) : v \in Get(said, KVCache)},
    waiting_for_capacity |-> Get(said, ByReason),
    prefix_cache_hit_rate |-> {Pct(Over(h, q)) : h \in Get(said, Hits), q \in NonZero(Get(said, Queries))},
    prefix_caching |-> {<<"ON">> : v \in Get(said, "enable_prefix_caching")},
    kv_cache_tokens |-> Get(said, "kv_cache_size_tokens") \ {<<"None">>},
    max_concurrency |-> NonZero(Get(said, "kv_cache_max_concurrency")),
    requests_running |-> Get(said, Running), requests_waiting |-> Get(said, Waiting),
    preemptions |-> Get(said, Preemptions), generation_rate |-> {},
    gpu_utilization |-> Get(said, "gpu_utilization_pct"), gpu_clock |-> Get(said, "gpu_clock_mhz"),
    gpu_temperature |-> Get(said, "gpu_temperature_c"), gpu_power |-> Get(said, "gpu_power_w"),
    memory_available |-> {kibToBytes(v[1]) : v \in Get(said, "MemAvailable")},
    memory_used |-> {Pct(Over(Minus(kibToBytes(t[1]), kibToBytes(a[1])), kibToBytes(t[1]))) :
                        a \in Get(said, "MemAvailable"), t \in NonZero(Get(said, "MemTotal"))},
    mac_address |-> address,
    last_seen |-> {<<"now">>}]

(***************************************************************************)
(* The inductive invariant, by what is known where observe is.              *)
(***************************************************************************)
\* The lines of a scrape, and what the reader makes of them.
Lines == {s \in [name : Numbers \cup {ByReason, CacheConfig},
                 labels : ({"model_name"} \X Seq(Chars))
                             \X UNION {MoreLabels(n) : n \in Numbers \cup {ByReason, CacheConfig}},
                 value : Floats] :
             s.labels[2] \in MoreLabels(s.name) /\ (s.name = CacheConfig => s.value = "1")}
Parsed(lines) ==
    LET m[i \in 0..Len(lines)] ==
            IF i = 0 THEN <<>> ELSE m[i - 1] \o SetToSeq(parseLine(Render(lines[i])))
    IN m[Len(lines)]

ScrapeInv ==
    /\ scrape \in Seq(Lines) /\ metrics = Parsed(scrape)
    /\ pc # "metrics" => scrape = <<>>

\* Before the engine has answered, and while it does.
EngineInv ==
    /\ pc \in {"idle", "health"} => reading = {} /\ told = {}
    /\ pc = "models" => reading = {<<"Up", True>>} /\ told = {<<"up", True>>}
    /\ pc = "metrics" => \E served \in Served : /\ reading = {<<"Up", True>>} \cup served
                                               /\ told = {<<"up", True>>} \cup served
    /\ pc \in {"health", "models", "metrics"} => withVLLM
    /\ pc \in {"idle", "health", "models", "metrics"} => state = WorkerState /\ endless = {}
    /\ garbled => withVLLM /\ pc \notin {"idle", "health", "models", "metrics"}

\* The entities whose sources have been asked.
OfEngine == DOMAIN vllmSensors
OfGPU == {"gpu_utilization", "gpu_clock", "gpu_temperature", "gpu_power"}
OfHost == {"memory_available", "memory_used", "mac_address"}
Ready == {"last_seen"}
    \cup (IF withVLLM /\ pc \in {"smi", "memory", "publish", "done"} THEN OfEngine ELSE {})
    \cup (IF pc \in {"memory", "publish", "done"} THEN OfGPU ELSE {})
    \cup (IF pc \in {"publish", "done"} THEN OfHost ELSE {})

StateInv ==
    /\ ~garbled => \/ \A id \in Ready : Shown(state, withVLLM, id) = Truth(told, mac)[id]
                  \/ \E pair \in state : NoNumber(pair[2])
    /\ Names(state) \subseteq {Sensors(withVLLM)[id] : id \in Ready}
    /\ Names(told) \cap ToSet(GPUKeys) # {} => pc \in {"memory", "publish", "done"}
    /\ Names(told) \cap {"MemTotal", "MemAvailable"} # {} => pc \in {"publish", "done"}
    /\ \A pair \in state : NoNumber(pair[2]) => endless # {}

PublishedInv ==
    /\ lost <=> pc = "done" /\ \E pair \in state : NoNumber(pair[2])
    /\ published = IF pc = "done" /\ ~lost THEN state ELSE {}

PayloadInv == TypeOK /\ ScrapeInv /\ EngineInv /\ StateInv /\ PublishedInv

\* Once a pass is published every entity shows what its source said in that pass,
\* and is unknown if the source said nothing: no zero, no OFF and no old value
\* stands in for what is absent, no source that fails takes another's value
\* along, every value has an entity and a worker has none of the serving ones.
\* (From the sources' readers through State to the templates of sensors.go.)
ShowsWhatWasSaid ==
    Fresh /\ ~garbled =>
        /\ \A id \in DOMAIN Sensors(withVLLM) : Shown(published, withVLLM, id) = Truth(told, mac)[id]
        /\ Names(published) \subseteq {Sensors(withVLLM)[id] : id \in DOMAIN Sensors(withVLLM)}
        /\ ~withVLLM => DOMAIN Sensors(withVLLM) \cap DOMAIN vllmSensors = {}

\* A payload is lost only when nvidia-smi, or the one label that is read as a
\* float, spelled a number that is none; no metric without observations, no
\* zero to divide by and no source that fails costs a pass its payload.
\* (parseLine's filter, UsedPct, applyMetrics; json.Marshal in PublishState.)
LostOnlyToNoNumber == lost => endless # {}

\* Every line of a scrape gives its name and its number, or nothing when it has
\* none, whatever its labels hold; its labels too, unless one of them ends in a
\* backslash.  (parseLine, splitLabelsAndValue and parseLabels.)
LinesRecovered == \A s \in ToSet(scrape) : Recovered(s)
=============================================================================
