------------------------------- MODULE Lookups -------------------------------
(***************************************************************************)
(* What the runner looks up: recipes and agents on the disk (Discovery,    *)
(* Locations), the ancestors of a recipe (Recipes) and what a command line *)
(* names (CommandLine). A case is one question with what there is to find. *)
(***************************************************************************)
EXTENDS Locations, Recipes, CommandLine, Cases

\* resolve_extends lays a recipe over its chain of ancestors, or fails on a chain that
\* is circular, incomplete or invalid; what it resolves keeps what parse promises of its
\* steps, but for ids that two documents of the chain share.
InheritanceIsSound ==
  case.of = "library" =>
    ExtendsLaysOver(case.library, case.doc) /\ MergedRecipeIsSound(case.library, case.doc)

\* find_recipe and discover_recipes lead to the same file of a name, with the directories
\* in opposite orders; what find_recipe_path and AgentResolver::resolve find lies inside
\* their roots; the cache (get_or_discover, invalidate) answers for the directories asked
\* for, and with what they held lately; update_manifest and check_upstream_changes see
\* the same entries; a failed search tells where it looked, and a comparison with the
\* upstream repository (sync_upstream) what it compared.
DiscoveryIsConsistent ==
  /\ case.of = "places" => DiagnosticTellsTheSearch(case.s, case.env, case.home)
  /\ case.of = "upstream" => SyncTellsTheDifference(case.git, case.env, case.asked)
  /\ case.of = "disk" => FindAndListAgree(case.held, case.dirs)
  /\ case.of = "roots" => FoundWithinRoots(case.held, case.name, case.s)
  /\ case.of = "agents" => AgentWithinRoots(case.held, case.ref, case.bases)
  /\ case.of = "cache" => CacheIsRecent(case.ops, case.ttl)
  /\ case.of = "folders" => ManifestTellsTheDifference(case.before, case.after, case.dir)

\* What --explain, --validate-only and the exit code tell of a run, and where the command
\* line makes it search (main).
CommandLinesAreObeyed ==
  case.of = "command line" => CommandLineIsObeyed(case.cli, case.world)
=============================================================================
