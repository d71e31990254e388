----------------------------- MODULE Discovery -----------------------------
(***************************************************************************)
(* How the runner finds recipe files (src/discovery.rs, the search of      *)
(* find_recipe_path and src/runner/sub_recipe_paths.rs) and agent          *)
(* definitions (src/agent_resolver.rs).                                    *)
(*                                                                         *)
(* A disk is a set of files, each with its directory, stem, extension, the *)
(* name its text gives the recipe, and the directory its link leads to.    *)
(* Directories are searched in the order of a sequence.                    *)
(***************************************************************************)
EXTENDS Texts, SequencesExt

CONSTANT WalkUpMax \* WALK_UP_MAX_ANCESTORS

\* ---------------------------------------------------------- recipe by name

SafeRecipeName(s) ==
  s # "" /\ ~StartsWith(s, ".") /\ ~Includes(s, "/") /\ ~Includes(s, "..")
SubRecipeName(s) == s # "" /\ \A i \in 1..Len(s) : IsWord(Char(s, i)) \/ Char(s, i) = "-"

Nothing == [found |-> FALSE]
Hit(f) == [found |-> TRUE, file |-> f]

\* The candidates of a search, in the order they are tried: every directory, .yaml first.
Tried(dirs, exts) ==
  [n \in 1..(Len(dirs) * Len(exts)) |->
     [dir |-> dirs[((n - 1) \div Len(exts)) + 1], ext |-> exts[((n - 1) % Len(exts)) + 1]]]
FirstOn(disk, stem, tried) ==
  LET here(t) == {f \in disk : f.dir = t.dir /\ f.ext = t.ext /\ f.stem = stem}
      I == {i \in 1..Len(tried) : here(tried[i]) # {}}
  IN  IF I = {} THEN Nothing
      ELSE Hit(CHOOSE f \in here(tried[CHOOSE i \in I : \A j \in I : i <= j]) : TRUE)

FindRecipe(disk, name, dirs) ==
  IF SafeRecipeName(name) THEN FirstOn(disk, name, Tried(dirs, <<"yaml", "yml">>)) ELSE Nothing

\* ------------------------------------------------------------------ listing

\* A directory's recipe files by stem, .yml before .yaml.
BeforeByName(f, g) ==
  \/ Order(f.stem, g.stem) = -1
  \/ f.stem = g.stem /\ Order(f.ext, g.ext) = -1
Before(f, g) ==
  \/ Order(f.stem, g.stem) = -1
  \/ f.stem = g.stem /\ Order(f.ext, g.ext) = 1
InOrder(s) == \A i, j \in 1..Len(s) : i < j => Before(s[i], s[j])
RecipesIn(disk, d) == {f \in disk : f.dir = d /\ f.ext \in {"yaml", "yml"}}
RecipeFiles(disk, d) == CHOOSE s \in SetToSeqs(RecipesIn(disk, d)) : InOrder(s)

\* A file whose text does not decode has no name and is passed over; a later file of
\* the same name takes the place of an earlier one. A directory that is not there has
\* no files.
Insert(found, f) ==
  IF f.name = "" THEN found
  ELSE [n \in DOMAIN found \cup {f.name} |-> IF n = f.name THEN f ELSE found[n]]
DiscoverRecipes(disk, dirs) ==
  LET files == FlattenSeq([i \in 1..Len(dirs) |-> RecipeFiles(disk, dirs[i])])
      Found[i \in 0..Len(files)] == IF i = 0 THEN <<>> ELSE Insert(Found[i - 1], files[i])
  IN  Found[Len(files)]

\* Finding a recipe and listing it lead to one file when every file of that stem, and
\* no other, holds a recipe of that name: find_recipe takes the first directory that
\* has it, discover_recipes the last, and both take .yaml before .yml.
FindAndListAgree(disk, dirs) ==
  \A n \in {f.stem : f \in disk} :
    LET hit == FindRecipe(disk, n, Reverse(dirs))
    IN  hit.found /\ (\A f \in disk : f.name = n <=> f.stem = n)
          => DiscoverRecipes(disk, dirs)[n] = hit.file

\* The cache over discover_recipes: what it holds, for which directories, since when.
NoCache == [dirs |-> <<>>, found |-> <<>>, at |-> 0]
Miss(cache, dirs, now, ttl) ==
  \/ cache.dirs = <<>> /\ cache.found = <<>>
  \/ now - cache.at >= ttl
  \/ cache.dirs # dirs
GetOrDiscover(cache, disk, dirs, now, ttl) ==
  IF Miss(cache, dirs, now, ttl)
    THEN [dirs |-> dirs, found |-> DiscoverRecipes(disk, dirs), at |-> now]
    ELSE cache
Invalidate(cache) == [cache EXCEPT !.dirs = <<>>, !.found = <<>>]

\* What calls on the cache, writes to the disk and passing seconds make of a process:
\* the cache, every disk it saw with its time, and the first that the last invalidate left.
Started == [cache |-> NoCache, seen |-> <<[disk |-> {}, at |-> 0]>>, first |-> 1, asked |-> <<>>]
After(s, op, ttl) ==
  LET now == Last(s.seen)
  IN  CASE op.do = "get" ->
             [s EXCEPT !.cache = GetOrDiscover(s.cache, now.disk, op.dirs, now.at, ttl), !.asked = op.dirs]
        [] op.do = "invalidate" ->
             [s EXCEPT !.cache = Invalidate(s.cache), !.first = Len(s.seen), !.asked = <<>>]
        [] op.do = "write" -> [s EXCEPT !.seen = Append(s.seen, [now EXCEPT !.disk = op.disk])]
        [] op.do = "wait" -> [s EXCEPT !.seen = Append(s.seen, [now EXCEPT !.at = now.at + 1])]
Play(ops, ttl) ==
  LET P[i \in 0..Len(ops)] == IF i = 0 THEN Started ELSE After(P[i - 1], ops[i], ttl)
  IN  P[Len(ops)]

\* What a get answers is what the directories it asks for held at a moment less than the
\* time to live ago and since the last invalidate, or now.
CacheIsRecent(ops, ttl) ==
  LET s == Play(ops, ttl)
      n == Len(s.seen)
  IN  Last(ops).do = "get" =>
        \E i \in s.first..n :
          /\ i = n \/ s.seen[n].at - s.seen[i].at < ttl
          /\ s.cache.found = DiscoverRecipes(s.seen[i].disk, s.asked)

\* ----------------------------------------------------------------- manifest

\* What check_upstream_changes and update_manifest look at: the .yaml entries of a
\* directory. The hash of one that cannot be read is empty.
Entries(disk, d) == {f \in disk : f.dir = d /\ f.ext = "yaml"}
UpdateManifest(disk, d) ==
  LET E == Entries(disk, d)
  IN  [n \in {f.stem : f \in E} |-> (CHOOSE f \in E : f.stem = n).hash]

Change(n, status) == [name |-> n, status |-> status]
Compared(f, manifest) ==
  IF f.stem \notin DOMAIN manifest \/ manifest[f.stem] = "" THEN {Change(f.stem, "new")}
  ELSE IF manifest[f.stem] # f.hash THEN {Change(f.stem, "modified")} ELSE {}
CheckUpstreamChanges(disk, d, manifest) ==
  (UNION {Compared(f, manifest) : f \in Entries(disk, d)})
  \cup {Change(n, "deleted") : n \in {m \in DOMAIN manifest :
          ~\E f \in disk : f.dir = d /\ f.stem = m /\ f.ext = "yaml" /\ f.hash # ""}}

\* After update_manifest on one disk, check_upstream_changes on a later one tells what
\* came, changed and went: nothing when nothing did and every entry can be read; an
\* entry that cannot be read now is told as deleted whether or not it changed.
ManifestTellsTheDifference(before, after, d) ==
  LET entries(disk) == {f.stem : f \in {f \in disk : f.dir = d /\ f.ext = "yaml"}}
      readable(disk) == {f.stem : f \in {f \in disk : f.dir = d /\ f.ext = "yaml" /\ f.hash # ""}}
      same == {f.stem : f \in {f \in before \cap after : f.dir = d /\ f.ext = "yaml"}}
      told == CheckUpstreamChanges(after, d, UpdateManifest(before, d))
      named(status) == {c.name : c \in {c \in told : c.status = status}}
  IN  /\ named("new") = entries(after) \ readable(before)
      /\ named("deleted") = entries(before) \ readable(after)
      /\ named("modified") = (readable(before) \cap entries(after)) \ same

\* ------------------------------------------------------ sub-recipe by name

\* The directories from start outward, up to the one that holds .git.
WalkUp(ancestors, git) ==
  LET stops == {i \in 1..Len(ancestors) : ancestors[i] \in git \/ i = WalkUpMax}
      last == IF stops = {} THEN Len(ancestors) ELSE CHOOSE i \in stops : \A j \in stops : i <= j
  IN  SubSeq(ancestors, 1, last)

Bundle(d) == d \o "/amplifier-bundle/recipes"

PushUnique(disk, dirs, d) ==
  IF (\E f \in disk : f.dir = d) /\ d \notin Range(dirs) THEN Append(dirs, d) ELSE dirs

\* The recipe's own directory, the working directory, and the bundles on the way up.
AnchoredDirs(disk, origin, ancestors, git) ==
  LET up == WalkUp(ancestors, git)
      all == origin \o <<ancestors[1], Bundle(ancestors[1])>> \o [i \in 1..Len(up) |-> Bundle(up[i])]
      Dirs[i \in 0..Len(all)] == IF i = 0 THEN <<>> ELSE PushUnique(disk, Dirs[i - 1], all[i])
  IN  Dirs[Len(all)]

WithinAny(f, dirs) == \E d \in Range(dirs) : f.target = d \/ StartsWith(f.target, d \o "/")

\* find_recipe_path: the directories given, then the anchored ones, then the defaults.
FindRecipePath(disk, name, s) ==
  LET given == FindRecipe(disk, name, s.given)
      anchored == AnchoredDirs(disk, s.origin, s.ancestors, s.git)
      near == FindRecipe(disk, name, anchored)
  IN  IF ~SubRecipeName(name) THEN Nothing
      ELSE IF given.found THEN given
      ELSE IF ~s.defaultSearch THEN Nothing
      ELSE IF near.found /\ WithinAny(near.file, anchored) THEN near
      ELSE FindRecipe(disk, name, s.defaults)

\* -------------------------------------------------------- agent definitions

AgentDirs(parts) ==
  LET ns == parts[1]
      named == IF Len(parts) = 3 THEN <<ns \o "/" \o parts[2], parts[2]>> ELSE <<>>
  IN  named \o <<ns \o "/core", ns \o "/specialized", "core", "specialized", "">>
Under(base, d) == IF d = "" THEN base ELSE base \o "/" \o d

\* resolve: the first readable definition that lies inside the path it was found under.
ResolveAgent(disk, ref, bases) ==
  LET parts == Split(ref, ":")
      dirs == AgentDirs(parts)
      tried == FlattenSeq([b \in 1..Len(bases) |->
                 [i \in 1..Len(dirs) |-> <<bases[b], Under(bases[b], dirs[i])>>]])
      hits(n) == {f \in disk : /\ f.dir = tried[n][2] /\ f.stem = Last(parts) /\ f.ext = "md"
                               /\ WithinAny(f, <<tried[n][1]>>) /\ f.hash # ""}
      I == {n \in 1..Len(tried) : hits(n) # {}}
  IN  IF Len(parts) \notin 2..3 \/ (\E i \in 1..Len(parts) : ~SubRecipeName(parts[i])) \/ I = {} THEN Nothing
      ELSE Hit(CHOOSE f \in hits(CHOOSE n \in I : \A m \in I : n <= m) : TRUE)

\* A recipe found by name lies physically inside a root of the anchored search, whatever
\* the links there point to; the directories the user names and the defaults of the
\* installation are trusted as they are, and without the default search only the first.
Inside(f, dirs) == \E d \in Range(dirs) : f.target = d \/ StartsWith(f.target, d \o "/")
FoundWithinRoots(disk, name, s) ==
  LET hit == FindRecipePath(disk, name, s)
  IN  hit.found =>
        \/ hit.file.dir \in Range(s.given)
        \/ /\ s.defaultSearch
           /\ \/ hit.file.dir \in Range(s.defaults)
              \/ Inside(hit.file, AnchoredDirs(disk, s.origin, s.ancestors, s.git))

\* An agent definition lies inside the search path it was found under, and a definition
\* that lies outside or cannot be read hides no later one.
AgentWithinRoots(disk, ref, bases) ==
  LET hit == ResolveAgent(disk, ref, bases)
      parts == Split(ref, ":")
      fit == {f \in disk : /\ f.stem = Last(parts) /\ f.ext = "md" /\ f.hash # ""
                           /\ \E b \in Range(bases), d \in Range(AgentDirs(parts)) :
                                f.dir = Under(b, d) /\ Inside(f, <<b>>)}
      valid == Len(parts) \in 2..3 /\ \A i \in 1..Len(parts) : SubRecipeName(parts[i])
  IN  IF valid /\ fit # {} THEN hit.found /\ hit.file \in fit ELSE ~hit.found
=============================================================================
