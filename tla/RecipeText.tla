----------------------------- MODULE RecipeText -----------------------------
(***************************************************************************)
(* How the text of a recipe is decoded and what is said of the fields that *)
(* are ignored (decode_recipe_document, step_field_warnings and            *)
(* validate_with_yaml of src/parser.rs).                                   *)
(*                                                                         *)
(* Of a text only one string matters here: a sequence of a backslash, the  *)
(* letters u and n, a plain character, and four hexadecimal digits at a    *)
(* time, of a high surrogate, a low one, or another character; and how     *)
(* deep its brackets go. A raw document is the sequence of its steps, each *)
(* with the sequence of its field names.                                   *)
(***************************************************************************)
EXTENDS Integers, Sequences, FiniteSets, SequencesExt

CONSTANTS MaxDepth,     \* the recursion limit of serde_json
          MaxWarnings   \* MAX_STEP_FIELD_WARNINGS

\* The fields the parser knows of a recipe and of a step, and those that earlier
\* executors honoured.
KnownTop ==
  {"name", "description", "version", "author", "tags", "context", "steps", "recursion", "output", "hooks", "extends"}
KnownStep ==
  {"id", "type", "agent", "prompt", "command", "output", "condition", "parse_json", "parse_json_required", "mode",
   "working_dir", "timeout", "auto_stage", "recipe", "context", "continue_on_error", "fatal", "nonfatal",
   "parallel_group", "when_tags", "recovery_on_failure", "model"}
Retired == {"max_env_value_bytes"}

\* The symbol at i, "" past the end; and the escapes that start there.
Symbol(t, i) == IF i \in 1..Len(t) THEN t[i] ELSE ""
Escape(t, i, digits) == Symbol(t, i) = "\\" /\ Symbol(t, i + 1) = "u" /\ Symbol(t, i + 2) = digits
Plain(t, i) == Escape(t, i, "PLAIN")
Pair(t, i) == Escape(t, i, "HIGH") /\ Escape(t, i + 3, "LOW")

Failed == [ok |-> FALSE]
Chars(s) == [ok |-> TRUE, s |-> s]
Then(s, d) == IF d.ok THEN Chars(s \o d.s) ELSE Failed

\* -------------------------------------------------------------- the decoders

\* What the YAML decoder makes of a quoted string: it takes no escape of a surrogate.
YamlString(t) ==
  LET Y[n \in 1..(Len(t) + 6)] ==
        LET e == Symbol(t, n + 1)
        IN  IF n > Len(t) THEN Chars(<<>>)
            ELSE IF t[n] # "\\" THEN Then(<<t[n]>>, Y[n + 1])
            ELSE IF e \in {"\\", "n"} THEN Then(<<"escaped", e>>, Y[n + 2])
            ELSE IF Plain(t, n) THEN Then(<<"plain">>, Y[n + 3]) ELSE Failed
  IN  Y[1]

\* What JSON makes of it: a high surrogate with a low one is one character.
JsonString(t) ==
  LET J[n \in 1..(Len(t) + 6)] ==
        LET e == Symbol(t, n + 1)
        IN  IF n > Len(t) THEN Chars(<<>>)
            ELSE IF t[n] # "\\" THEN Then(<<t[n]>>, J[n + 1])
            ELSE IF e \in {"\\", "n"} THEN Then(<<"escaped", e>>, J[n + 2])
            ELSE IF Plain(t, n) THEN Then(<<"plain">>, J[n + 3])
            ELSE IF Pair(t, n) THEN Then(<<"pair">>, J[n + 6]) ELSE Failed
  IN  J[1]
\* valid_json_document; a key that stands twice is no error there.
ValidJsonDocument(text) == JsonString(text.string).ok /\ text.depth < MaxDepth

\* ------------------------------------------------------------------ decoding

\* The text with each pair found at whatever backslash.
Utf8AtEveryBackslash(t) ==
  LET P[n \in 1..(Len(t) + 6)] ==
        IF n > Len(t) THEN <<>>
        ELSE IF Escape(t, n, "HIGH") THEN <<"pair">> \o P[n + 6]
        ELSE <<t[n]>> \o P[n + 1]
  IN  P[1]

\* The text with each pair of surrogate escapes written as its character. Any other
\* escape is passed over as a unit.
Utf8(t) ==
  LET P[n \in 1..(Len(t) + 6)] ==
        IF n > Len(t) THEN <<>>
        ELSE IF t[n] # "\\" THEN <<t[n]>> \o P[n + 1]
        ELSE IF Escape(t, n, "HIGH") THEN <<"pair">> \o P[n + 6]
        ELSE <<t[n], Symbol(t, n + 1)>> \o P[n + 2]
  IN  P[1]

\* A text that YAML decodes is what YAML says; a JSON document that it does not is
\* decoded as YAML with its pairs written out. A key that stands twice always fails.
Yaml(text) == IF text.twice THEN Failed ELSE YamlString(text.string)
DecodeRecipeDocument(text) ==
  IF Yaml(text).ok \/ ~ValidJsonDocument(text) THEN Yaml(text)
  ELSE Yaml([text EXCEPT !.string = Utf8(text.string)])

\* ------------------------------------------------------------------ warnings

\* One for each field of a step that is not known, up to the limit; then their number.
UnknownFields(doc) ==
  FlattenSeq([i \in 1..Len(doc.steps) |->
    LET ignored == SelectSeq(doc.steps[i].fields, LAMBDA k : k \notin KnownStep)
    IN  [j \in 1..Len(ignored) |->
           [recipe |-> doc.name, step |-> doc.steps[i].id, field |-> ignored[j], retired |-> ignored[j] \in Retired]]])
StepFieldWarnings(doc) ==
  LET all == UnknownFields(doc)
      more == Len(all) - MaxWarnings
  IN  IF more > 0 THEN SubSeq(all, 1, MaxWarnings) \o <<[more |-> more]>> ELSE all

\* RecipeParser::parse reports what has not been reported in the process yet.
Report(reported, doc) ==
  FoldLeft(LAMBDA said, w : IF w \in Range(said) THEN said ELSE Append(said, w), reported, StepFieldWarnings(doc))
ReportOnParse(reported, doc) == Report(reported, doc)

\* validate_with_yaml: what a step lacks for its type, and every field that is ignored.
NeededBy == [agent |-> "prompt", bash |-> "command", recipe |-> "recipe"]
EffectiveType(step) ==
  LET has(f) == \E j \in 1..Len(step.fields) : step.fields[j] = f
  IN  IF step.type # "" THEN step.type
      ELSE IF has("recipe") THEN "recipe"
      ELSE IF has("agent") \/ (has("prompt") /\ ~has("command")) THEN "agent" ELSE "bash"
ValidateWithYaml(doc) ==
  LET lacking == SelectSeq(doc.steps, LAMBDA s : NeededBy[EffectiveType(s)] \notin Range(s.fields))
      top == SelectSeq(doc.fields, LAMBDA k : k \notin KnownTop)
  IN  [i \in 1..Len(lacking) |-> [step |-> lacking[i].id, lacks |-> NeededBy[EffectiveType(lacking[i])]]]
      \o [i \in 1..Len(top) |-> [top |-> top[i]]] \o StepFieldWarnings(doc)

\* ---------------------------------------------------------------- properties

\* A recipe file means the same read as YAML and as JSON: what decodes is what JSON
\* makes of it wherever JSON accepts it, an escaped pair is one character, and text that
\* only looks like an escape stays as it is. Lone surrogates, and the limit of depth
\* where only JSON can read it, fail.
ReadsAlikeAsJson(text) ==
  LET d == DecodeRecipeDocument(text)
      json == JsonString(text.string)
  IN  /\ d.ok /\ json.ok => d.s = json.s
      /\ d.ok <=> ~text.twice /\ (YamlString(text.string).ok \/ (json.ok /\ text.depth < MaxDepth))

\* No ignored field goes unsaid and none is said twice: over a row of parses of one
\* process each is reported once, under its recipe and step, or counted in the line that
\* ends a list that is too long. That line names no recipe, so of two lists with the
\* same count over the limit the second goes without it. A recipe that validates with no
\* warning has no ignored field, and each of its steps has what its type runs.
IgnoredFieldsAreSaid(docs) ==
  LET said == FoldLeft(LAMBDA r, d : ReportOnParse(r, d), <<>>, docs)
      counted(d) == {w.more : w \in {v \in Range(said) : "more" \in DOMAIN v}}
                      \cap {Len(UnknownFields(d)) - MaxWarnings}
  IN  /\ IsInjective(said)
      /\ \A i \in 1..Len(docs) :
           LET all == UnknownFields(docs[i])
           IN  /\ \A j \in 1..Len(all) : j <= MaxWarnings => all[j] \in Range(said)
               /\ Len(all) > MaxWarnings => counted(docs[i]) # {}
               /\ ValidateWithYaml(docs[i]) = <<>> =>
                    /\ all = <<>> /\ Range(docs[i].fields) \subseteq KnownTop
                    /\ \A j \in 1..Len(docs[i].steps) :
                         NeededBy[EffectiveType(docs[i].steps[j])] \in Range(docs[i].steps[j].fields)
=============================================================================
