------------------------------ MODULE Answers ------------------------------
(***************************************************************************)
(* What the runner takes from the text of an agent: the JSON value in an   *)
(* answer (parse_json_output of src/runner/json_parser.rs), the final      *)
(* message of Codex (final_output.rs), and the pieces of bounded length    *)
(* that reports keep (safe_truncate and safe_tail of src/lib.rs).          *)
(*                                                                         *)
(* An answer is a sequence of symbols: brackets, a quote, a backslash, a   *)
(* fence of three backquotes, a key with its colon, a comma, a number, the *)
(* language mark "json", and a word that is no JSON.                       *)
(***************************************************************************)
EXTENDS Integers, SequencesExt

CONSTANT MaxOutput \* MAX_STEP_OUTPUT_BYTES

\* ------------------------------------------------------------------- JSON

\* The position after the string that goes on at n, 0 if it has no end: a backslash
\* stands before a quote or a backslash.
StringEnd(t) ==
  LET S[n \in 1..(Len(t) + 1)] ==
        IF n > Len(t) \/ t[n] = "key:" THEN 0
        ELSE IF t[n] = "quote" THEN n + 1
        ELSE IF t[n] # "\\" THEN S[n + 1]
        ELSE IF n < Len(t) /\ t[n + 1] \in {"quote", "\\"} THEN S[n + 2] ELSE 0
  IN  S

\* The position after the value at n, or after the items of an array or of an object at n
\* and the bracket that closes them; 0 if there is none.
EndOf(t) ==
  LET E[what \in {"value", "]", "}"}, n \in 1..(Len(t) + 1)] ==
        LET At(x) == n <= Len(t) /\ t[n] = x
            Bracketed(close) == IF n < Len(t) /\ t[n + 1] = close THEN n + 2 ELSE E[close, n + 1]
            item == IF what = "]" THEN E["value", n] ELSE IF At("key:") THEN E["value", n + 1] ELSE 0
        IN  IF what # "value"
              THEN IF item = 0 \/ item > Len(t) THEN 0
                   ELSE IF t[item] = what THEN item + 1
                   ELSE IF t[item] = "," THEN E[what, item + 1] ELSE 0
            ELSE IF At("1") THEN n + 1
            ELSE IF At("quote") THEN StringEnd(t)[n + 1]
            ELSE IF At("[") THEN Bracketed("]")
            ELSE IF At("{") THEN Bracketed("}") ELSE 0
  IN  E
IsJson(t) == t # <<>> /\ EndOf(t)["value", 1] = Len(t) + 1

\* -------------------------------------------------------------- extraction

NoAnswer == <<>>
PositionsOf(t, x) == {i \in 1..Len(t) : t[i] = x}
Earliest(I) == CHOOSE i \in I : \A j \in I : i <= j

\* The text between the first two fences, without the mark of its language.
Fenced(t) ==
  LET F == PositionsOf(t, "fence")
      i == Earliest(F)
      j == Earliest(F \ {i})
      inside == SubSeq(t, i + 1, j - 1)
  IN  IF F = {} \/ F = {i} THEN NoAnswer
      ELSE IF inside # <<>> /\ inside[1] = "json" THEN Tail(inside) ELSE inside

\* From the first opening bracket to the one that closes it: brackets in quotes do not
\* count, and what follows a backslash stands for itself.
StepOfScan(s, x, open, close) ==
  LET quoted == IF (x = "quote" /\ ~s.escape) \/ (x = "key:" /\ s.escape) THEN ~s.quoted ELSE s.quoted
      counts == ~s.quoted /\ ~s.escape
      depth == s.depth + IF ~counts THEN 0 ELSE IF x = open THEN 1 ELSE IF x = close THEN -1 ELSE 0
  IN  IF s.done THEN s
      ELSE [n |-> s.n + 1, depth |-> depth, quoted |-> quoted, escape |-> x = "\\" /\ ~s.escape,
            done |-> counts /\ x = close /\ depth = 0]
Unread == [n |-> 0, depth |-> 0, quoted |-> FALSE, escape |-> FALSE, done |-> FALSE]
Scan(t, open, close) ==
  LET S[n \in 0..Len(t)] == IF n = 0 THEN Unread ELSE StepOfScan(S[n - 1], t[n], open, close) IN S[Len(t)]

Block(t, open, close) ==
  LET I == PositionsOf(t, open)
      rest == SubSeq(t, Earliest(I), Len(t))
      end == Scan(rest, open, close)
  IN  IF I # {} /\ end.done THEN SubSeq(rest, 1, end.n) ELSE NoAnswer

\* The strategies of parse_json_output in their order: the first piece that is JSON.
ParseJsonOutput(t) ==
  LET pieces == <<t, Fenced(t), Block(t, "{", "}"), Block(t, "[", "]")>>
      I == {i \in 1..4 : IsJson(pieces[i])}
  IN  IF I = {} THEN NoAnswer ELSE pieces[Earliest(I)]

\* ----------------------------------------------------------- bounded texts

\* A text is the sequence of the widths of its characters.
Width(text) ==
  LET Sum[n \in 0..Len(text)] == IF n = 0 THEN 0 ELSE Sum[n - 1] + text[n] IN Sum[Len(text)]

\* The longest piece from the front, and from the back, of at most max bytes.
SafeTruncate(text, max) ==
  LET k == CHOOSE k \in 0..Len(text) : /\ Width(SubSeq(text, 1, k)) <= max
                                       /\ k < Len(text) => Width(SubSeq(text, 1, k + 1)) > max
  IN  SubSeq(text, 1, k)
SafeTail(text, max) == Reverse(SafeTruncate(Reverse(text), max))

\* read_final_output: the file as it is looked at, and as long as it is when read.
Refused == [ok |-> FALSE]
Taken(size) == IF size > MaxOutput + 1 THEN MaxOutput + 1 ELSE size
ReadFinalOutput(file) ==
  IF ~file.regular \/ ~file.private \/ file.size > MaxOutput THEN Refused
  ELSE IF Taken(file.sizeRead) > MaxOutput \/ ~file.utf8 THEN Refused
  ELSE [ok |-> TRUE, bytes |-> Taken(file.sizeRead)]

\* --------------------------------------------------------------- properties

Within(piece, t) == \E i, j \in 0..Len(t) : piece = SubSeq(t, i + 1, j)

\* Whatever an agent answers, what is taken for its JSON is a piece of the answer and
\* is JSON (parse_json_output).
TakenFromTheAnswer(t) ==
  LET v == ParseJsonOutput(t) IN v = NoAnswer \/ (IsJson(v) /\ Within(v, t))

\* The one object or array of an answer is found amid prose and in a fence, whatever
\* stands in its strings, unless the whole answer is JSON. Of an array in prose this
\* needs that it holds no brace, not even in a string: objects are looked for first.
AnswerIsFound(before, v, after) ==
  LET t == before \o v \o after
      fenced == before \o <<"fence", "json">> \o v \o <<"fence">> \o after
      opens == PositionsOf(before, "{") \cup PositionsOf(before, "[")
  IN  /\ IsJson(t) => ParseJsonOutput(t) = t
      /\ ~IsJson(fenced) => ParseJsonOutput(fenced) = v
      /\ ~IsJson(t) /\ opens = {} /\ (v[1] = "{" \/ PositionsOf(v \o after, "{") = {})
           => ParseJsonOutput(t) = v

\* A final message is taken whole or refused, also when the file grows between the look
\* at its size and the reading; and what a report keeps of a text is whole characters,
\* as many as fit.
TextsStayWhole(file, text, max) ==
  /\ LET r == ReadFinalOutput(file)
     IN  r.ok <=> /\ file.regular /\ file.private /\ file.utf8
                  /\ file.size <= MaxOutput /\ file.sizeRead <= MaxOutput
  /\ LET r == ReadFinalOutput(file) IN r.ok => r.bytes = file.sizeRead
  /\ \A piece \in {SafeTruncate(text, max), SafeTail(text, max)} :
       /\ Width(piece) <= max /\ Within(piece, text)
       /\ piece # text => Width(piece) + 4 > max
=============================================================================
