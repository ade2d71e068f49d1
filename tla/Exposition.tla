------------------------------ MODULE Exposition ------------------------------
(***************************************************************************)
(* The reader of the Prometheus text format, internal/vllm/metrics.go, and *)
(* the writer it reads from.  A text is a sequence of tokens: a token is a  *)
(* character that has a meaning somewhere (space, quote, backslash, comma,  *)
(* equals sign, braces) or a run of characters that have none.              *)
(***************************************************************************)
EXTENDS Integers, SequencesExt

Quote == "\""
Backslash == "\\"
Space == " "
Comma == ","
Equals == "="
Open == "{"
Close == "}"

\* Numbers by their spelling: ParseFloat takes these, NaN and +Inf among them.
Finite == {"0", "1"}
Floats == Finite \cup {"NaN", "+Inf"}
-----------------------------------------------------------------------------
(***************************************************************************)
(* The writer (an engine's exposition): a sample is a name, a sequence of   *)
(* pairs of a label and its value, and a value.                             *)
(***************************************************************************)
Escape(c) == IF c \in {Quote, Backslash} THEN <<Backslash, c>> ELSE <<c>>
Escaped(v) ==
    LET text[i \in 0..Len(v)] == IF i = 0 THEN <<>> ELSE text[i - 1] \o Escape(v[i])
    IN text[Len(v)]

RenderLabel(pair) == <<pair[1], Equals, Quote>> \o Escaped(pair[2]) \o <<Quote>>
RenderLabels(labels) ==
    LET text[i \in 0..Len(labels)] ==
            IF i = 0 THEN <<>>
            ELSE (IF i = 1 THEN <<>> ELSE text[i - 1] \o <<Comma>>) \o RenderLabel(labels[i])
    IN text[Len(labels)]
Render(s) ==
    <<s.name>> \o (IF s.labels = <<>> THEN <<>> ELSE <<Open>> \o RenderLabels(s.labels) \o <<Close>>)
        \o <<Space, s.value>>
-----------------------------------------------------------------------------
(***************************************************************************)
(* The reader.                                                             *)
(***************************************************************************)
TrimSpace(text) ==
    LET kept == {i \in DOMAIN text : text[i] # Space}
    IN IF kept = {} THEN <<>> ELSE SubSeq(text, Min(kept), Max(kept))

\* strings.Fields(text)[0].
FirstField(text) ==
    LET trimmed == TrimSpace(text)
        space == SelectInSeq(trimmed, LAMBDA c : c = Space)
    IN IF space = 0 THEN trimmed ELSE SubSeq(trimmed, 1, space - 1)

\* parseLabels, a character at a time; a label that comes again replaces itself.
LabelStart == [out |-> {}, key |-> <<>>, val |-> <<>>, inVal |-> FALSE,
               inQuotes |-> FALSE, before |-> ""]

Flush(p) ==
    LET k == TrimSpace(p.key)
    IN [p EXCEPT !.out = IF k = <<>> THEN @
                         ELSE {l \in @ : l[1] # k} \cup {<<k, p.val>>},
                 !.key = <<>>, !.val = <<>>, !.inVal = FALSE]

\* Wrong variant: a comma ends a value wherever it stands.
LabelStepUnquoted(p, c) ==
    LET next == CASE c = Quote /\ p.before # Backslash -> [p EXCEPT !.inQuotes = ~@]
                  [] c = Equals /\ ~p.inQuotes /\ ~p.inVal -> [p EXCEPT !.inVal = TRUE]
                  [] c = Comma -> Flush(p)
                  [] OTHER -> IF p.inVal THEN [p EXCEPT !.val = Append(@, c)]
                                         ELSE [p EXCEPT !.key = Append(@, c)]
    IN [next EXCEPT !.before = c]
LabelStep(p, c) ==
    LET next == CASE c = Quote /\ p.before # Backslash -> [p EXCEPT !.inQuotes = ~@]
                  [] c = Equals /\ ~p.inQuotes /\ ~p.inVal -> [p EXCEPT !.inVal = TRUE]
                  [] c = Comma /\ ~p.inQuotes -> Flush(p)
                  [] OTHER -> IF p.inVal THEN [p EXCEPT !.val = Append(@, c)]
                                         ELSE [p EXCEPT !.key = Append(@, c)]
    IN [next EXCEPT !.before = c]

Labels(text) ==
    LET p[i \in 0..Len(text)] == IF i = 0 THEN LabelStart ELSE LabelStep(p[i - 1], text[i])
    IN p[Len(text)]
parseLabels(text) == Flush(Labels(text)).out

\* splitLabelsAndValue, of what follows the name: no result or one.
splitLabelsAndValue(rest) ==
    LET end == SelectLastInSeq(rest, LAMBDA c : c = Close)
    IN IF rest = <<>> \/ rest[1] # Open THEN {<<{}, FirstField(rest)>>}
       ELSE IF end = 0 THEN {}
       ELSE {<<parseLabels(SubSeq(rest, 2, end - 1)),
               FirstField(SubSeq(rest, end + 1, Len(rest)))>>}

\* parseLine: no sample or one.  Wrong variant: what has no number stays.
parseLineAnyFloat(line) ==
    LET text == TrimSpace(line)
        i == SelectInSeq(text, LAMBDA c : c \in {Open, Space})
    IN {[name |-> SubSeq(text, 1, i - 1), labels |-> lv[1], value |-> lv[2]] :
            lv \in {x \in IF i > 1 THEN splitLabelsAndValue(TrimSpace(SubSeq(text, i, Len(text))))
                                   ELSE {} :
                      Len(x[2]) = 1 /\ x[2][1] \in Floats}}
parseLine(line) ==
    LET text == TrimSpace(line)
        i == SelectInSeq(text, LAMBDA c : c \in {Open, Space})
    IN {[name |-> SubSeq(text, 1, i - 1), labels |-> lv[1], value |-> lv[2]] :
            lv \in {x \in IF i > 1 THEN splitLabelsAndValue(TrimSpace(SubSeq(text, i, Len(text))))
                                   ELSE {} :
                      Len(x[2]) = 1 /\ x[2][1] \in Finite}}
-----------------------------------------------------------------------------
\* parseLabels looks one character back for the backslash of an escaped quote, so
\* it misses the end of a value whose last character is a backslash.
EndsInBackslash(pair) == pair[2] # <<>> /\ Last(pair[2]) = Backslash
Readable(s) == \A i \in DOMAIN s.labels : ~EndsInBackslash(s.labels[i])

\* The labels of a sample as the reader leaves them: values stay escaped.
AsRead(labels) == {<<<<pair[1]>>, Escaped(pair[2])>> : pair \in ToSet(labels)}

\* Whatever its labels hold, a line gives its name and its number, or nothing if
\* it has no finite number; and its labels, if they are readable.
Recovered(s) ==
    LET samples == parseLine(Render(s))
    IN IF s.value \notin Finite THEN samples = {}
       ELSE \E p \in samples : /\ samples = {p}
                               /\ p.name = <<s.name>> /\ p.value = <<s.value>>
                               /\ Readable(s) => p.labels = AsRead(s.labels)
=============================================================================
