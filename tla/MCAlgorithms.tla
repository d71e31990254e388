---------------------------- MODULE MCAlgorithms ----------------------------
(***************************************************************************)
(* The pure functions of the runner on small inputs: a step picks an       *)
(* input for one of them, and the invariant of that function looks at it.  *)
(***************************************************************************)
EXTENDS Lookups, FileReading, AgentExchange, TLC

Kinds ==
  {"condition", "values", "tokens", "context", "script", "library", "disk", "folders", "cache",
   "roots", "agents", "prompt", "launcher", "waits", "answer", "text", "progress", "recipe text", "fields", "override", "command line",
   "demands", "places", "upstream", "failure", "reply", "pipe"}
Init == case \in [of : {"nothing"}, next : Kinds]
Turn(kind) == case.of = "nothing" /\ case.next = kind
Try(c) == case' = c

\* --------------------------------------------------------------- conditions

Number(n, i) == [t |-> "num", n |-> n, i |-> i]
Text(s) == [t |-> "str", s |-> s]
Truth(b) == [t |-> "bool", b |-> b]

Context ==
  [n |-> Number(10, TRUE), h |-> Number(15, FALSE), s |-> Text(" 1"), z |-> [t |-> "null"],
   b |-> Truth(TRUE), w |-> Text("a B"),
   o |-> [t |-> "obj", f |-> [k |-> Number(20, TRUE), k2 |-> Text("true")]],
   l |-> [t |-> "arr", e |-> <<Number(10, TRUE), Text("a"), Truth(FALSE)>>]]
  @@ ("my-var" :> Text("10")) @@ ("inner" :> Text("9"))

Cond == INSTANCE ConditionMeaning WITH Data <- Context, MaxLen <- 200, MaxDepth <- 2

Names == {"n", "h", "s", "z", "b", "w", "l", "my-var", "inner", "gone"}
Vars == {Cond!Var(x) : x \in Names}
V(x) == Cond!Var(x)
StrLit(s) == Cond!Lit("'" \o s \o "'", Text(s))
NumLit(n) == Cond!Lit(Cond!NumText(Number(n, FALSE)), Number(n, FALSE))
Lits == {StrLit(""), StrLit("1"), StrLit("True"), StrLit("false"), StrLit("a"), NumLit(0), NumLit(10), NumLit(-15)}

Prims ==
  Vars \cup Lits
  \cup {Cond!Dot(V("o"), k) : k \in {"k", "k2", "k3"}}
  \cup {Cond!Sub(V("o"), "'k'", Text("k")), Cond!Sub(V("l"), "1", Number(10, FALSE)),
        Cond!Sub(V("n"), "0", Number(0, FALSE)), Cond!Sub(V("l"), "7.0", Number(70, FALSE)),
        Cond!List(<<NumLit(10), StrLit("a")>>), Cond!List(<<>>)}
Calls ==
  {Cond!CallOf(f, <<a>>) : f \in Cond!SafeCalls, a \in Prims}
  \cup {Cond!CallOf(f, <<a, b, c>>) : f \in {"min", "max"}, a, b, c \in {V("n"), V("inner"), V("my-var"), NumLit(95)}}
  \cup {Cond!Method(a, m, <<b>>) : a \in {V("w"), V("s"), V("z"), V("n"), V("l"), StrLit("a,b,a")},
          m \in Cond!SafeMethods, b \in {StrLit("a"), StrLit(","), Cond!List(<<StrLit("x"), StrLit("y")>>)}}
  \cup {Cond!Method(Cond!Method(V("w"), "strip", <<>>), "title", <<>>),
        Cond!Method(Cond!CallOf("str", <<NumLit(10)>>), "replace", <<StrLit("1"), V("w")>>)}
Comparisons ==
  {Cond!Comp(op, a, b) : op \in Cond!Comparisons, a, b \in Vars \cup Lits}
  \cup {Cond!Comp(op, a, b) : op \in {"==", "in"}, a \in Calls, b \in {V("n"), Cond!List(<<NumLit(10), StrLit("a")>>)}}
\* Operands: true, false, and in error, and each of them read as a comparison.
Simple ==
  {Cond!Holds(V("b")), Cond!Holds(V("inner")), Cond!Comp("not in", StrLit("x"), V("w")),
   Cond!Comp("<", V("n"), NumLit(0)), Cond!Holds(Cond!CallOf("int", <<StrLit("a")>>))}
Twice(E) ==
  {Cond!And(a, b) : a, b \in E} \cup {Cond!Or(a, b) : a, b \in E} \cup {Cond!Not(a) : a \in E}
Mixed == Simple \cup Twice(Simple)
Few == {e \in Mixed : e.f \in {"not", "holds"}}
           \cup Twice({Cond!Holds(V("b")), Cond!Holds(V("z"))})
Nested ==
  Twice(Few)
  \cup {Cond!Not(Cond!Not(a)) : a \in Mixed}
  \cup {Cond!Holds(Cond!Group(Cond!Or(a, Cond!Holds(Cond!Group(b))))) : a, b \in Few}
  \cup {Cond!Comp("==", Cond!Group(a), V("b")) : a \in Mixed}

Conditions == {Cond!Holds(a) : a \in Prims \cup Calls} \cup Comparisons \cup Mixed \cup Nested

TryCondition == Turn("condition") /\ \E e \in Conditions : Try([of |-> "condition", e |-> e])

Values ==
  {[t |-> "null"], Truth(TRUE), Truth(FALSE), [t |-> "arr", e |-> <<>>]}
  \cup {Number(n, i) : n \in {0, 10}, i \in BOOLEAN} \cup {Number(95, FALSE)}
  \cup {Text(s) : s \in {"", "1", " 1", "1.0", "10", "9", "a", "true", "True", "false", "False"}}

TryValues == Turn("values") /\ \E a, b \in Values : Try([of |-> "values", a |-> a, b |-> b])

Tokens ==
  {Cond!Op(k) : k \in (Cond!Pairs2 \ {"&&", "||"}) \cup Cond!Singles \cup {"and", "or", "in", "not in"}}
  \cup {Cond!Ident(x) : x \in {"x", "my-var", "_x1", "notin", "order", "inner", "in_x"}}
  \cup {Cond!NumTok(-15), Cond!NumTok(20), Cond!StrTok("a b"), Cond!StrTok("")}
Nots == {Cond!Op("not")}

TryTokens ==
  /\ Turn("tokens")
  /\ \E a, b \in Tokens \cup Nots, c \in Nots \cup {Cond!Ident("inner"), Cond!Op("in"), Cond!Op("=="), Cond!NumTok(20)} :
       Try([of |-> "tokens", ts |-> <<a, b, c>>])

\* ---------------------------------------------------------------- templates

Temp == INSTANCE Templates

Leaves == {Text("a b"), [t |-> "null"], Number(10, TRUE)}
Object == [t |-> "obj", f |-> ("k" :> Text("v")) @@ ("k-2" :> [t |-> "null"])
                               @@ ("p" :> [t |-> "obj", f |-> [q |-> Truth(TRUE)]])]
Keys == {"x", "X", "o", "recipe_var_x", "my-o", "a.b", "a__b", "path"}
Contexts == UNION {[K -> Leaves \cup {Object}] : K \in {K \in SUBSET Keys : Cardinality(K) = 2}}

TryContext == Turn("context") /\ \E d \in Contexts : Try([of |-> "context", d |-> d])

Lines ==
  {"echo {{x}}-{{{o.k}}}", "cat <<A", "cat <<-A", "cat << 'A' {{x}}", "<<\"B\" cat", "cat <<A <<'B'",
   "A", "\tA", " B", "B", "A{{}}", "cat <<<A {{x}}"}
Scripts == UNION {[1..n -> Lines] : n \in 1..3}
             \cup [1..5 -> {"echo {{x}}-{{{o.k}}}", "cat <<-A", "<<\"B\" cat", "\tA", "B"}]

TryScript == Turn("script") /\ \E s \in Scripts : Try([of |-> "script", s |-> s])

Fit == INSTANCE Preflight

TryDemands ==
  /\ Turn("demands")
  /\ \E r \in {"nonempty", "path", "git_repo", "optional"}, q \in {"nonempty", "path"},
        K \in SUBSET {"x", "y"}, U \in SUBSET {"x"} :
       \E recipe \in [K -> {Text(""), Text(" "), Text("."), Text("r"), [t |-> "null"], Number(0, TRUE)}],
          user \in [U -> {Text(" "), Text("r"), Text("f")}] :
         Try([of |-> "demands", rules |-> [x |-> r, y |-> q], recipe |-> recipe, user |-> user])

\* A reference to RECIPE_VAR_... in a script (shell_env_vars, env_key) finds what
\* `{{...}}` shows in a prompt (render), also for a name that has no value, but for the
\* exceptions stated there; and every line of a script is written by
\* render_shell for the place where the shell reads it: quoted outside heredocs, bare in
\* their bodies, in place in quoted ones; and the variables a recipe demands are there
\* before its first step refers to them (validate_context).
TemplatesReachTheirPlace ==
  /\ case.of = "context" =>
       \A n \in Temp!NamesOf(case.d) \cup Keys \cup {"gone"} : Temp!ReferenceIsValue(case.d, n)
  /\ case.of = "script" => Temp!WrittenForItsPlace([x |-> Text("a b"), o |-> Object], case.s)
  /\ case.of = "demands" =>
       Fit!DemandedValuesShow(case.rules, case.recipe, case.user,
                              [exist |-> {"r", "f"}, dirs |-> {"r"}, repositories |-> {"r"}, cwd |-> "r"])

\* -------------------------------------------------------------- inheritance

Step(id, type, fields) == [id |-> id, type |-> type, fields |-> fields]
Bash(id) == Step(id, "", [command |-> "true"])
Bodies(owner) ==
  {[name |-> owner, steps |-> <<Bash("build"), Bash(owner)>>, context |-> [x |-> owner],
    tags |-> {owner}, recursion |-> 0, hooks |-> [pre_step |-> owner, post_step |-> ""]],
   [name |-> owner, steps |-> <<Step(owner, "", [recipe |-> "child-1"]), Step("t", "", [recipe |-> "{{r}}"])>>,
    context |-> [x |-> owner, y |-> owner], tags |-> {"t", owner}, recursion |-> 5,
    hooks |-> [pre_step |-> "", post_step |-> owner]],
   [name |-> owner, steps |-> <<Step("u", "", [agent |-> "a:b", prompt |-> "p"]), Step("v", "recipe", [recipe |-> "../x"])>>,
    context |-> [z |-> owner], tags |-> {}, recursion |-> 0, hooks |-> [pre_step |-> "", post_step |-> ""]]}
Docs(owner) ==
  {b @@ [extends |-> e] : b \in Bodies(owner), e \in {"", "a", "b", "c", "gone"}}
NoName == [name |-> "", steps |-> <<Bash("s")>>, context |-> <<>>, tags |-> {}, recursion |-> 0,
           hooks |-> [pre_step |-> "", post_step |-> ""], extends |-> ""]

TryLibrary ==
  /\ Turn("library")
  /\ \E a \in Docs("a"), b \in Docs("b"), c \in Docs("c") \cup {NoName, [NoName EXCEPT !.name = "c", !.steps = <<>>],
                                                               [NoName EXCEPT !.name = "c", !.steps = <<Bash("s"), Bash("s")>>]} :
       LET l == [a |-> a, b |-> b, c |-> c] IN Try([of |-> "library", library |-> l, doc |-> a])

\* ---------------------------------------------------------------- discovery

File(d, s, x, n, h, t) == [dir |-> d, stem |-> s, ext |-> x, name |-> n, hash |-> h, target |-> t]
Slots == {"a", "b"} \X {"r", "s"} \X {"yaml", "yml"}
Names3 == {"r", "s", ""}
Disks ==
  UNION {{{File(p[1], p[2], p[3], n[p], "1", p[1]) : p \in P} : n \in [P -> Names3]} :
           P \in {P \in SUBSET Slots : Cardinality(P) \in 1..3}}

TryDisk ==
  /\ Turn("disk")
  /\ \E d \in Disks, dirs \in {<<"a", "b">>, <<"b", "gone", "a">>} : Try([of |-> "disk", held |-> d, dirs |-> dirs])

Ops ==
  {[do |-> "get", dirs |-> d] : d \in {<<>>, <<"b">>}}
  \cup {[do |-> "write", disk |-> {File("b", "r", "yaml", "r", "1", "b")}],
        [do |-> "write", disk |-> {File("b", "s", "yaml", "r", "2", "b")}], [do |-> "invalidate"], [do |-> "wait"]}

TryCache ==
  Turn("cache") /\ \E n \in 1..5 : \E ops \in [1..n -> Ops] : ops[n].do = "get" /\ Try([of |-> "cache", ops |-> ops, ttl |-> 2])

Entry ==
  {File("a", "r", x, "r", h, "a") : x \in {"yaml", "yml"}, h \in {"1", "2", ""}}
  \cup {File("a", "s", x, "s", "1", "a") : x \in {"yaml", "yml"}}
Folders ==
  {F \in SUBSET Entry : Cardinality(F) <= 2 /\ \A f, g \in F : f.stem = g.stem /\ f.ext = g.ext => f = g}

TryFolders == Turn("folders") /\ \E F, G \in Folders : Try([of |-> "folders", before |-> F, after |-> G, dir |-> "a"])

Roots == {"given", "w/p", "w/amplifier-bundle/recipes", "amplifier-bundle/recipes", "home"}
Linked ==
  {File(d, "r", "yaml", "r", "1", t) : d \in Roots, t \in {"w/p", "w/amplifier-bundle/recipes/sub", "etc"}}
Agents == {File(d, "x", "md", "", h, t) : d \in {"p/n/core", "p/core", "q/n/specialized", "q"}, t \in {"p/core", "q", "etc"}, h \in {"", "1"}}
SearchFrom(g, def) ==
  [given |-> g, origin |-> <<"w/p">>, ancestors |-> <<"w/p", "w", "">>, git |-> {"w"},
   defaults |-> <<"home">>, defaultSearch |-> def]

TryRoots ==
  /\ Turn("roots")
  /\ \E f, g \in Linked, def \in BOOLEAN, given \in {<<>>, <<"given">>} :
       f.dir # g.dir /\ Try([of |-> "roots", held |-> {f, g}, name |-> "r", s |-> SearchFrom(given, def)])

TryAgents ==
  /\ Turn("agents")
  /\ \E f, g \in Agents, ref \in {"n:x", "n:core:x"} :
       f.dir # g.dir /\ Try([of |-> "agents", held |-> {f, g}, ref |-> ref, bases |-> <<"p", "q">>])

TryPlaces ==
  /\ Turn("places")
  /\ \E p \in {"", "pkg", "g"}, d \in {"", "e", "e::g", ":"}, h \in {"", "/a"}, home \in {"", "/h"},
        g \in {<<>>, <<"g">>, <<"g", ".claude/recipes">>}, n \in {<<>>, <<"w", "g">>}, def \in BOOLEAN :
       Try([of |-> "places", env |-> [packageDir |-> p, recipeDirs |-> d, amplihackHome |-> h], home |-> home,
            s |-> [given |-> g, anchored |-> n, defaultSearch |-> def]])

Urls == {"https://a/b", "HTTP://c", "https://u:p@a/b", "http://a/b@c", "ssh://a", "a/b", ""}
Sides == [bundle : SUBSET {"r"}, source : SUBSET {"r"}]
Of(s, t) == [u \in Urls |-> IF u = "https://a/b" THEN s ELSE t]

TryUpstream ==
  /\ Turn("upstream")
  /\ \E remote, raced \in {"", "https://a/b"}, asked \in Urls \ {""}, env \in Urls,
        fails \in {"nothing", "add", "fetch", "start", "diff", "list"}, s, t \in Sides :
       \E later \in IF env = "https://a/b" THEN Sides ELSE {s} :
         Try([of |-> "upstream", env |-> env, asked |-> asked,
              git |-> [remote |-> remote, raced |-> raced, fails |-> fails, before |-> Of(s, t), after |-> Of(later, t)]])

\* ------------------------------------------------------------ agent command

Part(owner, widths) == [i \in 1..Len(widths) |-> [of |-> owner, n |-> i, w |-> widths[i]]]
GuardText  == Part("guard", <<1>>)
FooterText == Part("footer", <<1>>)

Prompts == UNION {[1..n -> 1..3] : n \in 0..3} \cup {<<1, 1, 1, 1, 1, 1>>}
Options ==
  [cli : {"claude", "copilot", "codex", "gemini"}, launcher : {"", "/l"}, envLauncher : {"e"},
   allowAllTools : {TRUE}, envNoAllow : {""}, addWorkingDir : BOOLEAN, model : {"m"}]
Homes == ("." :> "/r") @@ ("./sub" :> "/r/sub") @@ ("/abs" :> "/abs")

TryPrompt ==
  /\ Turn("prompt")
  /\ \E o \in Options, p \in Prompts, s \in {<<>>, <<2>>} :
       Try([of |-> "prompt", o |-> o, p |-> Part("prompt", p), s |-> Part("system", s), d |-> "sub", own |-> ".", homes |-> Homes])
TryLauncher ==
  /\ Turn("launcher")
  /\ \E l \in {"", "rel", "/l"}, e \in {"", "e"}, c \in {"claude", "copilot"}, a \in BOOLEAN, n \in {"", "1"},
        d \in {"", ".", "sub", "gone", "/abs", "/gone"} :
       Try([of |-> "prompt", p |-> Part("prompt", <<1>>), s |-> <<>>, d |-> d, own |-> ".", homes |-> Homes,
            o |-> [cli |-> c, launcher |-> l, envLauncher |-> e, allowAllTools |-> a, envNoAllow |-> n,
                   addWorkingDir |-> TRUE, model |-> ""]])

Settings == {[set |-> FALSE], [set |-> TRUE, number |-> FALSE]}
              \cup {[set |-> TRUE, number |-> TRUE, n |-> n] : n \in {0, 1, 3, 7, 64, 500, 1000, 1023}}

TryWaits ==
  /\ Turn("waits")
  /\ \E r, b, c \in Settings :
       /\ r.set /\ r.number => r.n \in {0, 1000}
       /\ Try([of |-> "waits", env |-> [retries |-> r, base |-> b, cap |-> c]])

\* ------------------------------------------------------------------ answers

Q == "quote"
Strings == {<<>>, <<"word">>, <<"{">>, <<"}">>, <<"]">>, <<"\\", Q>>, <<"\\", "\\">>, <<"}", "\\", Q, "{">>}
Quotes == {<<Q>> \o s \o <<Q>> : s \in Strings}
Scalars == Quotes \cup {<<"1">>}
Brackets(E) ==
  {<<"{", "}">>, <<"[", "]">>} \cup {<<"{", "key:">> \o v \o <<"}">> : v \in E}
  \cup {<<"[">> \o v \o <<",">> \o w \o <<"]">> : v \in E, w \in Quotes}
Replies == Brackets(Scalars) \cup Brackets({<<"{", "}">>, <<"[", "]">>, <<"[", Q, "}", Q, "]">>})
Prose(max) == UNION {[1..n -> {"word", Q, "\\", "[", "]", "{", "}"}] : n \in 0..max}

TryAnswer ==
  /\ Turn("answer")
  /\ \E b \in Prose(2), a \in Prose(1), v \in Replies : Try([of |-> "answer", before |-> b, v |-> v, after |-> a])

TryText ==
  /\ Turn("text")
  /\ \E n \in 0..4 : \E t \in [1..n -> 1..4], m \in 0..8,
        f \in [regular : BOOLEAN, private : BOOLEAN, utf8 : BOOLEAN, size : {0, 5, 6, 7}, sizeRead : 0..8] :
       /\ f.size <= f.sizeRead
       /\ Try([of |-> "text", text |-> t, max |-> m, file |-> f])

Errors == {"Permission denied: x", "FATAL: y", "Test failed: 3", "test failed, disk full", "other"}
Verdicts == {"STATUS: COMPLETE", "done. STATUS: COMPLETE", "status: complete, mostly", "Recovered", "UNRECOVERABLE: x",
             "Unrecoverable. STATUS: COMPLETE", "UNRECOVERABLE: it could not be recovered", "could not be recovered",
             "COMPLETE", " ", "no"}

TryFailure ==
  /\ Turn("failure")
  /\ \E e \in Errors, c \in {Heal!NoCode, 1, 126, 137}, n \in 1..2, max \in 0..2 :
       \E a \in [1..n -> Verdicts] : Try([of |-> "failure", error |-> e, code |-> c, answers |-> a, max |-> max])
TryReply ==
  /\ Turn("reply")
  /\ \E a \in Verdicts : \E n \in IF a = "no" THEN 0..2 ELSE 0..1 :
       \E r \in [1..n -> [id : {"s", "t"}, status : {"completed", "failed", "skipped", "degraded"},
                          error : {"", " ", "e"}, output : {"", "o"}]] :
         Try([of |-> "reply", answer |-> a, results |-> r])

TryPipe == Turn("pipe") /\ \E F \in SUBSET Pipe!Faults : Try([of |-> "pipe", faults |-> F])

\* ----------------------------------------------------------- progress files

Titles == {"", "r", "my-r", "a/b.yaml", "a.b.c", ".rc", "..", "a/", "longer name", "/"}
FileNames == [stem : {"", "r", "my_r", "a-b", "long", "longe"}, pid : {0, 2, 7, 8, 13, 16}]
Payloads ==
  [status : {"running", "completed", "unknown"}, stepLength : {2, 3}, time : {0, 1, 2, 6, 7},
   recipe : {{}, {"my-r"}, {"longer name"}}, pid : {{}, {2}, {13}}, currentStep : {{1}}]

TryProgress ==
  /\ Turn("progress")
  /\ \E p \in Payloads, now \in {5} :
       \/ \E f \in FileNames, before \in {{}, {"running"}, {"completed"}, {"unknown"}} :
            Try([of |-> "progress", p |-> p, now |-> now, file |-> f, before |-> before, alive |-> {2, 5}, groups |-> {2, 3}])
       \/ \E n \in Titles : Try([of |-> "own progress", p |-> p, now |-> now, name |-> n, alive |-> {2, 5}, groups |-> {2, 3}])

\* -------------------------------------------------------------- recipe text

Units ==
  {<<"x">>, <<"u">>, <<"HIGH">>, <<"\\">>, <<"\\", "\\">>, <<"\\", "n">>}
  \cup {<<"\\", "u", h>> : h \in {"HIGH", "LOW", "PLAIN"}}

TryRecipeText ==
  /\ Turn("recipe text")
  /\ \E n \in 1..4 : \E u \in [1..n -> Units], d \in 1..2, twice \in BOOLEAN :
       /\ twice => n = 1
       /\ Try([of |-> "recipe text", text |-> [string |-> FlattenSeq(u), depth |-> d, twice |-> twice]])

FieldLists == {<<"id">>, <<"id", "commnad">>, <<"prompt", "typo", "commnad">>, <<"command", "max_env_value_bytes">>}
StepOf(id, fs, type) == [id |-> id, fields |-> fs, type |-> type]
Raws ==
  {[name |-> n, fields |-> t, steps |-> <<StepOf("s", f, ""), StepOf(i, g, y)>>] :
     n \in {"p", "q"}, t \in {<<"name">>, <<"nmae">>}, f \in FieldLists, g \in FieldLists, i \in {"s", "t"}, y \in {"", "agent"}}

TryFields == Turn("fields") /\ \E a, b \in Raws : Try([of |-> "fields", docs |-> <<a, b>>])

\* ------------------------------------------------------------- command line

Overrides ==
  {"", "a", "a=b", "=", "7", "007", "+5", "-3", "1.5", "01.5", ".5", "1.", "+-1", "-", "0", "0.5", "True", "true",
   "FALSE", "null", "1.5.2", " 1", "+5 ", " true", "null\n", " True", "1e2", "1e", "+1E2", "10e-1", ".5e1", "e",
   "\"a\"", "\"", "[", "[1", "[1,]", "[,]", "{}", "{1:2}", "{\"a\"}", "{\"a\":}", "{\"a\":1,}", "[]]", "[1-2]", "[+1]",
   "tru", "truex", "1 2", "{a: 1}"}

\* JSON as it may be written, with what it stands for.
Written(raw, v) == [raw |-> raw, v |-> v]
Plain ==
  {Written("1", Whole(1)), Written("-0.5", Float(-5)), Written("1e2", Float(1000)), Written("null", Null),
   Written("\"x, ]\"", Str("x, ]"))}
Lists(E, gap) ==
  {Written("[" \o gap \o "]", Arr(<<>>))}
    \cup {Written("[" \o gap \o a.raw \o gap \o "," \o gap \o b.raw \o gap \o "]", Arr(<<a.v, b.v>>)) : a, b \in E}
Field(k, a, gap) == "\"" \o k \o "\"" \o gap \o ":" \o gap \o a.raw
Maps(E, gap) ==
  {Written("{" \o gap \o Field("a", a, gap) \o gap \o "}", Obj("a" :> a.v)) : a \in E}
    \cup {Written("{" \o gap \o Field(k, a, gap) \o gap \o "," \o Field("a", b, gap) \o "}", Obj(("a" :> b.v) @@ (k :> a.v))) :
            k \in {"a", "b"}, a, b \in E}
Jsons ==
  UNION {LET E == Lists(Plain, gap) \cup Maps(Plain, gap)
         IN  E \cup Lists({Written("[]", Arr(<<>>)), Written("{\"b\": [1]}", Obj("b" :> Arr(<<Whole(1)>>)))}, gap) : gap \in {"", " "}}

TryOverride ==
  /\ Turn("override")
  /\ \/ \E v \in Overrides : Try([of |-> "override", raw |-> v])
     \/ \E j \in Jsons, gap \in {"", "\n"} : Try([of |-> "json", raw |-> gap \o j.raw \o gap, v |-> j.v])

Cli0 ==
  [capabilities |-> FALSE, alone |-> TRUE, command |-> "", recipe |-> "r", dirs |-> <<>>, agentDirs |-> <<>>,
   noDefault |-> FALSE, launcher |-> "", explain |-> FALSE, validateOnly |-> FALSE]
World(disk, wrong) ==
  [disk |-> disk, defaults |-> <<"d">>, agentDefaults |-> <<"da">>, ancestors |-> <<"w", "">>, git |-> {"w"},
   extends |-> "b", child |-> "c", agent |-> "n:x", broken |-> IF wrong = "recipe" THEN {f \in disk : f.stem = "r"} ELSE {},
   gone |-> wrong = "gone", succeeds |-> wrong # "step", updates |-> wrong # "update"]
In(stem, x, d, t) == IF d = "" THEN {} ELSE {File(d, stem, x, stem, "1", t)}
Worlds ==
  {World(In("r", "yaml", r, r) \cup In("b", "yaml", b, b) \cup In("c", "yaml", c, t) \cup In("x", "md", a, a), wrong) :
     r \in {"", "w", "g", "d"}, b \in {"", "w", "g", "d"}, c \in {"", "w", "g", "d"}, t \in {"w", "etc"},
     a \in {"", "ga", "da"}, wrong \in {"nothing", "recipe", "step"}}

TryLine ==
  /\ Turn("command line")
  /\ \E w \in Worlds, dirs \in {<<>>, <<"g">>}, agents \in {<<>>, <<"ga">>}, no \in BOOLEAN, look \in {"explain", "validate", "run"} :
       \E r \in IF look = "run" THEN {"r", "w/r.yaml"} ELSE {"r"} :
         Try([of |-> "command line", world |-> w,
              cli |-> [Cli0 EXCEPT !.recipe = r, !.dirs = dirs, !.agentDirs = agents, !.noDefault = no,
                         !.explain = look = "explain", !.validateOnly = look = "validate"]])
TryOptions ==
  /\ Turn("command line")
  /\ \E cli \in [capabilities : BOOLEAN, alone : BOOLEAN, command : {"", "list", "update"}, recipe : {"", "r"},
                 dirs : {<<>>, <<"g">>}, agentDirs : {<<>>}, noDefault : BOOLEAN, launcher : {"", "bin", "/bin"},
                 explain : BOOLEAN, validateOnly : BOOLEAN], wrong \in {"nothing", "update", "gone"} :
       Try([of |-> "command line", cli |-> cli,
            world |-> World(In("r", "yaml", "d", "d") \cup In("b", "yaml", "g", "g") \cup In("s", "yml", "g", "g"), wrong)])


Next ==
  \/ TryCondition
  \/ TryValues
  \/ TryTokens
  \/ TryContext
  \/ TryScript
  \/ TryLibrary
  \/ TryDisk
  \/ TryFolders
  \/ TryCache
  \/ TryRoots
  \/ TryAgents
  \/ TryPrompt
  \/ TryLauncher
  \/ TryWaits
  \/ TryAnswer
  \/ TryText
  \/ TryProgress
  \/ TryRecipeText
  \/ TryFields
  \/ TryOverride
  \/ TryLine
  \/ TryOptions
  \/ TryDemands
  \/ TryPlaces
  \/ TryUpstream
  \/ TryFailure
  \/ TryReply
  \/ TryPipe

Spec == Init /\ [][Next]_case
=============================================================================
