---------------------------- MODULE CommandLine ----------------------------
(***************************************************************************)
(* What the command line of the runner asks for and what comes of it       *)
(* (src/main.rs): the exit code, the files that are found by name, and the *)
(* values of --set.                                                        *)
(*                                                                         *)
(* A world is a disk as in Discovery, the default places of recipes and of *)
(* agent definitions, what the recipe at hand names (its parent, a         *)
(* sub-recipe, an agent), which files do not parse, whether the recipe is  *)
(* gone when it is read again, and whether steps and the update succeed.   *)
(***************************************************************************)
EXTENDS Values, Discovery

\* --------------------------------------------------------- context overrides

\* A number is a mantissa and perhaps an exponent; JSON has no plus sign before it, no
\* leading zero and no bare point. The sign of a zero is not kept apart.
Pieces(s) == Split(Replace(s, "E", "e"), "e")
Unplussed(s) == IF StartsWith(s, "+") /\ ~StartsWith(s, "+-") THEN From(s, 2) ELSE s
AreFloat(p) == IsDecimal(p[1]) /\ Len(p) <= 2 /\ (Len(p) = 2 => IsInteger(Unplussed(p[2])))
IsFloat(s) == AreFloat(Pieces(s))
Scaled(n, e) == IF e < 0 THEN n \div 10 ^ (-e) ELSE n * 10 ^ e
AmountOf(p) == Scaled(Tenths(p[1]), IF Len(p) = 1 THEN 0 ELSE Integer(Unplussed(p[2])))
Amount(s) == AmountOf(Pieces(s))
NoLeadingZero(u) == IsDigit(Char(u, 1)) /\ ~EndsWith(u, ".") /\ (StartsWith(u, "0") => u = "0" \/ StartsWith(u, "0."))
AreJson(p) == AreFloat(p) /\ NoLeadingZero(Unsigned(p[1]))
JsonNumber(s) == AreJson(Pieces(s))
JsonWords == ("true" :> Bool(TRUE)) @@ ("false" :> Bool(FALSE)) @@ ("null" :> Null)
InNumber(c) == IsDigit(c) \/ c \in {"-", "+", ".", "e", "E"}

\* What was read and the position after it, 0 if nothing was.
Got(end, v) == [end |-> end, v |-> v]
NoJson == Got(0, <<>>)
SkipBlanks(s, n) == Past(s, n, IsBlank)

NumberIn(s, end) ==
  IF s = "" \/ ~JsonNumber(s) THEN NoJson
  ELSE Got(end, IF IsInteger(s) /\ s # "-0" THEN Whole(Integer(s)) ELSE Float(Amount(s)))
StringIn(s, n, end) == IF end = 0 THEN NoJson ELSE Got(end + 1, Str(SubSeq(s, n + 1, end - 1)))
WordIn(w, n) == Got(n + Len(w), JsonWords[w])
NumberAt(s, n, end) == NumberIn(SubSeq(s, n, end - 1), end)
\* No text has a backslash in a string.
ScalarAt(s, n) ==
  IF \E w \in DOMAIN JsonWords : At(s, n, w) THEN WordIn(CHOOSE w \in DOMAIN JsonWords : At(s, n, w), n)
  ELSE IF Char(s, n) = "\"" THEN StringIn(s, n, Foremost({k \in Places(s, "\"") : k > n}))
  ELSE NumberAt(s, n, Past(s, n, InNumber))

\* Of equal keys of an object the last one counts.
FieldsOf(pairs) ==
  [k \in {p[1] : p \in Range(pairs)} |->
     LET I == {i \in 1..Len(pairs) : pairs[i][1] = k} IN pairs[CHOOSE i \in I : \A j \in I : j <= i][2]]
ArrayOf(h)  == Got(h.end, Arr(h.v))
ObjectOf(h) == Got(h.end, Obj(FieldsOf(h.v)))
Keyed(k, r) == Got(r.end, <<k, r.v>>)
Joined(item, rest) == IF rest.end = 0 THEN NoJson ELSE Got(rest.end, <<item.v>> \o rest.v)

\* serde_json::from_str: a value, or the items of an array or the fields of an object
\* with the bracket that closes them.
ReadJson(s) ==
  LET R[what \in {"value", "]", "}"}, n \in 1..(Len(s) + 1)] ==
        LET FieldFrom(key, colon) ==
              IF key.end # 0 /\ key.v.t = "str" /\ Char(s, colon) = ":"
              THEN Keyed(key.v.s, R["value", SkipBlanks(s, colon + 1)]) ELSE NoJson
            FieldAt(key) == FieldFrom(key, SkipBlanks(s, key.end))
            Follow(item, after) ==
              IF item.end = 0 THEN NoJson
              ELSE IF Char(s, after) = what THEN Joined(item, Got(after + 1, <<>>))
              ELSE IF Char(s, after) = "," THEN Joined(item, R[what, SkipBlanks(s, after + 1)]) ELSE NoJson
            ItemsFrom(item) == Follow(item, SkipBlanks(s, item.end))
            Held(close, inside) ==
              IF Char(s, inside) = close THEN Got(inside + 1, <<>>) ELSE R[close, inside]
        IN  CASE what = "]" -> ItemsFrom(R["value", n])
              [] what = "}" -> ItemsFrom(FieldAt(ScalarAt(s, n)))
              [] what = "value" /\ Char(s, n) = "[" -> ArrayOf(Held("]", SkipBlanks(s, n + 1)))
              [] what = "value" /\ Char(s, n) = "{" -> ObjectOf(Held("}", SkipBlanks(s, n + 1)))
              [] OTHER -> ScalarAt(s, n)
  IN  R["value", SkipBlanks(s, 1)]

\* The value of a text that is JSON and no string, with whitespace around it or without.
WholeText(s, r) == IF r.end # 0 /\ SkipBlanks(s, r.end) = Len(s) + 1 THEN r.v ELSE Str(s)
FromJson(s) == WholeText(s, ReadJson(s))

\* The type is read off the text: JSON first, then what Rust reads as a number.
NumberOrText(raw, n) ==
  IF IsInteger(n) THEN Whole(Integer(n)) ELSE IF IsFloat(n) THEN Float(Amount(n)) ELSE Str(raw)
Typed(raw, json) ==
  IF json.t # "str" THEN json
  ELSE IF raw \in {"True", "False"} THEN Bool(raw = "True") ELSE NumberOrText(raw, Unplussed(raw))
ParseContextValue(raw) == Typed(raw, FromJson(raw))

\* A pair is split at the first "="; one without is passed over with a warning.
Pair(s, i) == [some |-> TRUE, key |-> UpTo(s, i - 1), value |-> ParseContextValue(From(s, i + 1))]
ParseContextPair(s) == IF Includes(s, "=") THEN Pair(s, First(s, "=")) ELSE [some |-> FALSE]

\* ----------------------------------------------------------------- searching

FileAt(f) == f.dir \o "/" \o f.stem \o "." \o f.ext

\* Where recipes are listed and the recipe of the command line is found by its name.
NamedDirsWithoutOption(cli, world) == IF cli.dirs = <<>> THEN world.defaults ELSE cli.dirs
NamedDirs(cli, world) == IF cli.dirs = <<>> /\ ~cli.noDefault THEN world.defaults ELSE cli.dirs

Recipe(cli, world) ==
  LET given == {f \in world.disk : FileAt(f) = cli.recipe}
  IN  IF given # {} THEN Hit(CHOOSE f \in given : TRUE)
      ELSE FindRecipe(world.disk, cli.recipe, NamedDirs(cli, world))

\* How the runner is told to search: sub-recipes from the directories given, then near
\* the recipe; parents in the directories given only; agents in theirs first.
Search(cli, world, hit) ==
  [given |-> cli.dirs, origin |-> <<hit.file.dir>>, ancestors |-> world.ancestors, git |-> world.git,
   defaults |-> world.defaults, defaultSearch |-> ~cli.noDefault]
AgentPlaces(cli, world) == cli.agentDirs \o IF cli.noDefault THEN <<>> ELSE world.agentDefaults

Parent(cli, world) == FindRecipe(world.disk, world.extends, cli.dirs)
Child(cli, world, hit) == FindRecipePath(world.disk, world.child, Search(cli, world, hit))
Agent(cli, world) == ResolveAgent(world.disk, world.agent, AgentPlaces(cli, world))

\* ------------------------------------------------------------------- running

Exit == [success |-> 0, failed |-> 1, parse |-> 2, notFound |-> 3, badArgs |-> 4]
Ends(code, did) == [exit |-> code, did |-> did]
Either(ok) == IF ok THEN Exit.success ELSE Exit.failed

\* execute: the parent of the recipe first, then a step for each thing it names.
ExecuteRecipe(cli, world, hit) ==
  LET ok == /\ world.extends # "" => Parent(cli, world).found
            /\ world.child # "" => Child(cli, world, hit).found
            /\ world.agent # "" /\ cli.noDefault => Agent(cli, world).found
            /\ world.succeeds
  IN  Ends(Either(ok), "run")

\* --validate-only reads the file a second time, for its warnings.
GoneOnRereading(cli, world) == cli.validateOnly /\ ~cli.explain /\ world.gone
RunRecipe(cli, world) ==
  LET hit == Recipe(cli, world)
  IN  IF cli.recipe = "" \/ (cli.launcher # "" /\ ~StartsWith(cli.launcher, "/")) THEN Ends(Exit.badArgs, "nothing")
      ELSE IF ~hit.found THEN Ends(Exit.notFound, "nothing")
      ELSE IF hit.file \in world.broken THEN Ends(Exit.parse, "nothing")
      ELSE IF cli.explain THEN Ends(Exit.success, "explain")
      ELSE IF GoneOnRereading(cli, world) THEN Ends(Exit.parse, "nothing")
      ELSE IF cli.validateOnly THEN Ends(Exit.success, "validate")
      ELSE ExecuteRecipe(cli, world, hit)

Main(cli, world) ==
  IF cli.capabilities THEN Ends(IF cli.alone THEN 0 ELSE 2, "capabilities")
  ELSE IF cli.command = "update" THEN Ends(Either(world.updates), "update")
  ELSE IF cli.command = "list" THEN Ends(Exit.success, "list")
  ELSE RunRecipe(cli, world)
ListedRecipes(cli, world) ==
  LET found == DiscoverRecipes(world.disk, NamedDirs(cli, world)) IN {found[n] : n \in DOMAIN found}

\* ---------------------------------------------------------------- properties

\* The text of an override is not lost: the variable takes the part behind the first
\* "=", and shows it as it was written, unless it reads as a number, which then keeps
\* its size but not how it was written, as a capitalised truth value, as a word of JSON,
\* which loses whitespace around it, or as an object or array.
IsShownAsWritten(v, raw, bare) ==
  CASE v.t = "str" -> v.s = raw
    [] v.t = "num" -> IsFloat(Unplussed(bare)) /\ Amount(Unplussed(bare)) = v.n /\ (bare # raw => JsonNumber(bare))
    [] v.t \in {"bool", "null"} -> bare = ToText(v) \/ raw \in {"True", "False"}
    [] v.t = "arr" -> StartsWith(bare, "[") /\ EndsWith(bare, "]")
    [] v.t = "obj" -> StartsWith(bare, "{") /\ EndsWith(bare, "}")
OverridesKeepTheirText(key, raw) ==
  \A p \in {ParseContextPair(key \o "=" \o raw)} :
    p.some /\ p.key = key /\ IsShownAsWritten(p.value, raw, Trim(raw))

\* What JSON an override was written as, with any whitespace, is the value it has.
OverridesAreRead(raw, v) == ParseContextValue(raw) = v

\* What is looked at tells how a run would start: --explain and --validate-only run no
\* step, and end with 0 exactly if a run with the same arguments gets to its recipe,
\* with the code of that run otherwise, unless the file is gone when it is read again. Whatever is found by name without the default
\* search lies in a directory that was given, and with it at least in a default one.
CommandLineIsObeyed(cli, world) ==
  LET out == Main(cli, world)
      ran == Main([cli EXCEPT !.explain = FALSE, !.validateOnly = FALSE], world)
      hit == Recipe(cli, world)
      named == {h \in {Parent(cli, world), Child(cli, world, hit)} : h.found}
      given == Range(cli.dirs)
      agents == {h \in {Agent(cli, world)} : h.found}
      near == {hit.file.dir} \cup Range(world.ancestors) \cup {Bundle(d) : d \in Range(world.ancestors)}
      Lies(f, dirs) == \E d \in dirs : Inside(f, <<d>>)
  IN  /\ out.did = "run" => ~cli.explain /\ ~cli.validateOnly /\ cli.command = "" /\ ~cli.capabilities
      /\ out.did \in {"explain", "validate"} <=>
           ran.did = "run" /\ (cli.explain \/ cli.validateOnly) /\ ~GoneOnRereading(cli, world)
      /\ out.did = "nothing" => out.exit > 1 /\ (out = ran \/ GoneOnRereading(cli, world))
      /\ cli.noDefault => \A f \in ListedRecipes(cli, world) : f.dir \in given
      /\ ran.did = "run" =>
           /\ cli.noDefault /\ FileAt(hit.file) # cli.recipe => hit.file.dir \in given
           /\ \A h \in named : h.file.dir \in given \cup IF cli.noDefault THEN {} ELSE Range(world.defaults) \cup near
           /\ \A h \in agents :
                Lies(h.file, Range(cli.agentDirs) \cup IF cli.noDefault THEN {} ELSE Range(world.agentDefaults))
=============================================================================
