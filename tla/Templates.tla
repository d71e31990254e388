----------------------------- MODULE Templates -----------------------------
(***************************************************************************)
(* The context of src/context.rs: how a dotted name finds its value, how a *)
(* template is rendered for an agent and for a shell, and the environment  *)
(* the shell version of it refers to.                                      *)
(*                                                                         *)
(* A context is a function from keys to JSON values, a script the sequence *)
(* of its lines, an environment a function from names to texts.            *)
(***************************************************************************)
EXTENDS Values, SequencesExt

\* ------------------------------------------------------------------ lookup

\* The value at a path, [some |-> FALSE] if there is none.
Found(v) == [some |-> TRUE, v |-> v]
Missing == [some |-> FALSE, v |-> Null]
Walk(v, path) ==
  FoldLeft(LAMBDA r, k : IF r.some /\ HasField(r.v, k) THEN Found(r.v.f[k]) ELSE Missing,
           Found(v), path)
Get(data, name) == Walk(Obj(data), Split(name, "."))

Scalar(v) == v.t \notin {"arr", "obj"}
Plain(v) == CASE v.t = "str" -> v.s [] v.t = "null" -> "" [] OTHER -> ToText(v)
Shown(data, name) == LET r == Get(data, name) IN IF r.some THEN Plain(r.v) ELSE ""

\* --------------------------------------------------------------- templates

IsNameChar(c) == IsWord(c) \/ c \in {".", "-"}
NameEnd(s, i) == Past(s, i + 2, IsNameChar)
TemplateAt(s, i) == At(s, i, "{{") /\ NameEnd(s, i) > i + 2 /\ At(s, NameEnd(s, i), "}}")

\* A text cut into what TEMPLATE_RE leaves alone and the names it finds.
RECURSIVE Parts(_)
Parts(s) ==
  LET I == {i \in 1..Len(s) : TemplateAt(s, i)}
      i == CHOOSE i \in I : \A j \in I : i <= j
  IN  IF I = {} THEN <<[name |-> FALSE, s |-> s]>>
      ELSE <<[name |-> FALSE, s |-> UpTo(s, i - 1)],
             [name |-> TRUE, s |-> SubSeq(s, i + 2, NameEnd(s, i) - 1)]>>
             \o Parts(From(s, NameEnd(s, i) + 2))
Filled(s, Form(_)) ==
  LET ps == Parts(s)
  IN  Join([k \in 1..Len(ps) |-> IF ps[k].name THEN Form(ps[k].s) ELSE ps[k].s], "")

Render(data, s) == Filled(s, LAMBDA n : Shown(data, n))

Flat(s) == Replace(Replace(s, ".", "__"), "-", "_")
EnvKey(name) == "RECIPE_VAR_" \o Flat(name)

QuotedRef(s) == Filled(s, LAMBDA n : "\"$" \o EnvKey(n) \o "\"")
BareRef(s) == Filled(s, LAMBDA n : "$" \o EnvKey(n))

\* A line as it is written for a command, a heredoc body, and a quoted one.
InMode(data, mode, s) ==
  CASE mode = "command" -> QuotedRef(s) [] mode = "here" -> BareRef(s)
    [] mode = "raw" -> Render(data, s) [] mode = "end" -> s

\* ---------------------------------------------------------------- heredocs

IsInitial(c) == IsAlpha(c) \/ c = "_"

\* The marker HEREDOC_START_RE finds at i, with the index behind it, or none.
NoMarker == [end |-> 0, d |-> "", q |-> FALSE, dash |-> FALSE]
MarkerAt(s, i) ==
  LET dash == Char(s, i + 2) = "-"
      k == Past(s, IF dash THEN i + 3 ELSE i + 2, IsBlank)
      q == Char(s, k) \in {"'", "\""}
      w == IF q THEN k + 1 ELSE k
      e == Past(s, w, IsWord)
  IN  IF /\ At(s, i, "<<")
         /\ IsInitial(Char(s, w))
         /\ q => Char(s, e) = Char(s, k)
        THEN [end |-> IF q THEN e + 1 ELSE e, d |-> SubSeq(s, w, e - 1), q |-> q, dash |-> dash]
        ELSE NoMarker

RECURSIVE Markers(_, _)
Markers(s, i) ==
  LET m == MarkerAt(s, i)
  IN  IF i >= Len(s) THEN <<>>
      ELSE IF m.end = 0 THEN Markers(s, i + 1) ELSE <<m>> \o Markers(s, m.end)

\* The mode render_shell writes each line in: a stack of heredocs, the last one on top.
Closes(s, m) == Trim(s) = m.d
RECURSIVE RenderModes(_, _)
RenderModes(lines, stack) ==
  LET line == Head(lines)
  IN  IF lines = <<>> THEN <<>>
      ELSE IF stack = <<>> THEN <<"command">> \o RenderModes(Tail(lines), Markers(line, 1))
      ELSE IF Closes(line, Last(stack)) THEN <<"end">> \o RenderModes(Tail(lines), Front(stack))
      ELSE <<IF Last(stack).q THEN "raw" ELSE "here">> \o RenderModes(Tail(lines), stack)

RenderShell(data, lines) ==
  LET m == RenderModes(lines, <<>>)
  IN  [i \in 1..Len(lines) |-> InMode(data, m[i], lines[i])]

\* ------------------------------------------------------------- environment

Identifier(s) == s # "" /\ IsInitial(Char(s, 1)) /\ \A i \in 1..Len(s) : IsWord(Char(s, i))
Reserved == {"PATH", "HOME", "USER", "IFS"}
HasAlias(k) == Identifier(k) /\ Upper(k) \notin Reserved /\ ~StartsWith(Upper(k), "LC_")

Set(env, k, t) == [x \in DOMAIN env \cup {k} |-> IF x = k THEN t ELSE env[x]]
SetIfAbsent(env, k, t) == IF k \in DOMAIN env THEN env ELSE Set(env, k, t)

\* The keys of a JSON map come in the order of their texts.
RECURSIVE Sorted(_)
Sorted(K) ==
  IF K = {} THEN <<>>
  ELSE LET k == CHOOSE k \in K : \A j \in K : Order(k, j) # 1 IN <<k>> \o Sorted(K \ {k})

RECURSIVE FlattenNested(_, _, _)
FlattenNested(prefix, v, env) ==
  FoldLeft(LAMBDA e, k :
             LET key == prefix \o "__" \o Flat(k)
                 e1 == Set(e, key, Plain(v.f[k]))
             IN  IF v.f[k].t = "obj" THEN FlattenNested(key, v.f[k], e1) ELSE e1,
           env, Sorted(DOMAIN v.f))

AliasFirst(env, k, t) == Set(env, Upper(k), t)
Alias(env, k, t) == SetIfAbsent(env, Upper(k), t)
\* The prefix of the nested names keeps the hyphens and dots of the key.
Export(env, k, v) ==
  LET own == Set(env, EnvKey(k), Plain(v))
      aliased == IF Scalar(v) /\ HasAlias(k) THEN Alias(own, k, Plain(v)) ELSE own
  IN  IF v.t = "obj" THEN FlattenNested("RECIPE_VAR_" \o k, v, aliased) ELSE aliased

\* The keys of the context come in any order.
ShellEnvVars(data, keys) ==
  FoldLeft(LAMBDA env, k : Export(env, k, data[k]), [x \in {} |-> ""], keys)
ShellEnvs(data) == {ShellEnvVars(data, keys) : keys \in SetToSeqs(DOMAIN data)}

\* -------------------------------------------------------------- properties

\* What the shell makes of each line: heredocs queue up in the order of their markers,
\* a marker is not part of `<<<` or of an arithmetic shift, and a body ends at a line
\* that is its delimiter, behind tabs if the marker has a dash.
ShellMarkers(s) ==
  SelectSeq(Markers(s, 1),
            LAMBDA m : ~Includes(UpTo(s, m.end - 1), "<<<") /\ ~Includes(UpTo(s, m.end - 1), "(("))
Ends(s, m) == s = m.d \/ (m.dash /\ From(s, Past(s, 1, LAMBDA c : c = "\t")) = m.d)
RECURSIVE ShellModes(_, _)
ShellModes(lines, queue) ==
  LET line == Head(lines)
  IN  IF lines = <<>> THEN <<>>
      ELSE IF queue = <<>> THEN <<"command">> \o ShellModes(Tail(lines), ShellMarkers(line))
      ELSE IF Ends(line, Head(queue)) THEN <<"end">> \o ShellModes(Tail(lines), Tail(queue))
      ELSE <<IF Head(queue).q THEN "raw" ELSE "here">> \o ShellModes(Tail(lines), queue)

\* The exceptions the scanner makes: two markers on a line, a `<<` that opens no
\* heredoc, and an indented line that is a delimiter only when trimmed.
Misread(lines) ==
  \E i \in 1..Len(lines) :
    \/ Len(Markers(lines[i], 1)) > 1
    \/ Markers(lines[i], 1) # ShellMarkers(lines[i])
    \/ Trim(lines[i]) # lines[i] /\ \E j \in 1..(i - 1) :
         \E m \in Range(Markers(lines[j], 1)) : Trim(lines[i]) = m.d /\ ~Ends(lines[i], m)

\* Every line of a script is written for the place in which the shell will read it: a
\* quoted reference in a command, a bare one in a heredoc body, the value itself in a
\* quoted one, the delimiter as it is (the context-aware quoting of render_shell).
WrittenForItsPlace(data, lines) ==
  LET m == ShellModes(lines, <<>>)
  IN  Misread(lines) \/ RenderShell(data, lines) = [i \in 1..Len(lines) |-> InMode(data, m[i], lines[i])]

\* The dotted names of a value's parts.
RECURSIVE NamesIn(_, _)
NamesIn(name, v) ==
  {name} \cup IF v.t = "obj" THEN UNION {NamesIn(name \o "." \o k, v.f[k]) : k \in DOMAIN v.f} ELSE {}
NamesOf(data) == UNION {NamesIn(k, data[k]) : k \in DOMAIN data}

\* What a reference in a script stands for is what the template shows elsewhere, in
\* whatever order the context is exported: an alias never takes the place of the value a
\* name has. The exceptions are names that share a variable, keys that a dotted name
\* cannot reach, the parts of a value whose own key is no identifier, and a name without
\* a value whose variable is the alias of another key, as X is for recipe_var_x.
Alone(data, name) == \A n \in NamesOf(data) : EnvKey(n) = EnvKey(name) => n = name
TopKey(name) == Split(name, ".")[1]
TakenByAlias(data, name) ==
  /\ name \notin NamesOf(data)
  /\ \E k \in DOMAIN data : Scalar(data[k]) /\ HasAlias(k) /\ Upper(k) = EnvKey(name)
ReferenceIsValue(data, name) ==
  \A env \in ShellEnvs(data) :
    \/ ~Alone(data, name)
    \/ name \in NamesOf(data) /\ ~Get(data, name).some
    \/ name # TopKey(name) /\ Flat(TopKey(name)) # TopKey(name)
    \/ TakenByAlias(data, name)
    \/ (IF EnvKey(name) \in DOMAIN env THEN env[EnvKey(name)] ELSE "") = Shown(data, name)
=============================================================================
