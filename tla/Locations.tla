----------------------------- MODULE Locations -----------------------------
(***************************************************************************)
(* Where recipes are looked for when nobody says so, what a failed search  *)
(* for a sub-recipe tells about that, and the repository local recipes are *)
(* compared with (src/discovery.rs, src/runner/mod.rs).                    *)
(*                                                                         *)
(* An environment gives the text of each variable, "" when it is unset.    *)
(* Of git, the model keeps the URL of each remote, which files of which    *)
(* directory differ from a URL's branch when each of the two diffs looks,  *)
(* and what fails.                                                         *)
(***************************************************************************)
EXTENDS Texts, SequencesExt

\* ------------------------------------------------------------ default places

Bundled(root) == IF root = "" THEN <<>> ELSE <<root \o "/amplifier-bundle/recipes">>
Given(text) == IF text = "" THEN <<>> ELSE <<text>>
Local == <<"amplifier-bundle/recipes", "src/amplihack/amplifier-bundle/recipes", ".claude/recipes">>
InHome(h) == <<h \o "/.amplihack/amplifier-bundle/recipes", h \o "/.amplihack/.claude/recipes">>

Listed(dirs) == FlattenSeq([i \in 1..Len(dirs) |-> Given(dirs[i])])
DefaultSearchDirs(env, home) ==
  Given(env.packageDir) \o Listed(Split(env.recipeDirs, ":"))
    \o Bundled(env.amplihackHome) \o InHome(IF home = "" THEN "." ELSE home) \o Local

\* sub_recipe_search_diagnostic: what is listed when find_recipe_path found nothing.
Distinct(ds) ==
  LET D[i \in 0..Len(ds)] ==
        IF i = 0 THEN <<>> ELSE IF ds[i] \in Range(D[i - 1]) THEN D[i - 1] ELSE Append(D[i - 1], ds[i])
  IN  D[Len(ds)]
DiagnosedAlways(s, env, home) ==
  Distinct(s.given \o s.anchored \o (IF home = "" THEN <<>> ELSE InHome(home)) \o Bundled(env.amplihackHome) \o Local)
Diagnosed(s, env, home) ==
  IF s.defaultSearch THEN DiagnosedAlways(s, env, home) ELSE Distinct(s.given)

\* ------------------------------------------------------------------ upstream

\* validate_upstream_url: a URL of the web, without a user in it.
Acceptable(url) ==
  LET i == First(url, "://")
      after == From(url, i + 3)
      stops == {j \in 1..Len(after) : Char(after, j) \in {"/", "?", "#"}}
      authority == IF stops = {} THEN after ELSE UpTo(after, (CHOOSE j \in stops : \A k \in stops : j <= k) - 1)
  IN  i # 0 /\ Lower(UpTo(url, i - 1)) \in {"http", "https"} /\ ~Includes(authority, "@")

\* sync_upstream: the URL of the environment is looked at even if another is asked for;
\* a remote that is there keeps its URL; the two diffs look at different directories, one
\* after the other, and a diff that fails prints nothing, which nobody asks about.
\* git.raced is the URL another process may have given the remote just before.
Refused(git) == [ok |-> FALSE, remote |-> git.remote]
BothDirs == {"bundle", "source"}
ListedDirs == {"bundle"}
Printed(differ, dirs, fails) == IF fails THEN {} ELSE UNION {differ[d] : d \in dirs}
SyncUpstream(git, envUrl, asked) ==
  LET there == IF git.remote # "" THEN git.remote ELSE git.raced
      remote == IF there # "" THEN there ELSE asked
      changed == Printed(git.before[remote], BothDirs, git.fails = "diff")
      listed == Printed(git.after[remote], ListedDirs, git.fails = "list")
  IN  IF ~Acceptable(envUrl) THEN Refused(git)
      ELSE IF there = "" /\ git.fails = "add" THEN Refused(git)
      ELSE IF git.fails \in {"fetch", "start"} THEN Refused([git EXCEPT !.remote = remote])
      ELSE [ok |-> TRUE, remote |-> remote, hasChanges |-> changed # {}, files |-> listed]

\* ---------------------------------------------------------------- properties

\* What a failed search lists was searched, in the order of the search within each
\* group, and every place searched is listed, but for the directories two variables
\* name and for a home that is not known (find_recipe_path, default_search_dirs).
DiagnosticTellsTheSearch(s, env, home) ==
  LET told == Range(Diagnosed(s, env, home))
      defaults == DefaultSearchDirs(env, home)
      searched == Range(s.given) \cup IF s.defaultSearch THEN Range(s.anchored) \cup Range(defaults) ELSE {}
      unsaid == {env.packageDir} \cup Range(Split(env.recipeDirs, ":")) \cup IF home = "" THEN Range(InHome(".")) ELSE {}
  IN  told \subseteq searched /\ searched \ told \subseteq unsaid

\* A comparison asks the repository the remote has, which is the one asked for only if
\* there was no remote yet; it says that there are no changes only if there were none when
\* it looked, or its diff failed; the files it lists differed when it looked again, and
\* no other did, unless that diff failed; so a file is listed without changes only if one
\* was changed in between or the first diff failed; and a refusal by the URL leaves the
\* remotes alone.
SyncTellsTheDifference(git, envUrl, asked) ==
  LET out == SyncUpstream(git, envUrl, asked)
      before == git.before[out.remote]
      after == git.after[out.remote]
  IN  /\ out.ok => out.remote \in {git.remote, git.raced, asked} \ {""} /\ (git.remote # "" => out.remote = git.remote)
      /\ out.ok /\ ~out.hasChanges => git.fails = "diff" \/ \A d \in BothDirs : before[d] = {}
      /\ out.ok => out.files \subseteq after["bundle"] /\ (git.fails # "list" => out.files = after["bundle"])
      /\ out.ok /\ ~out.hasChanges /\ out.files # {} => git.fails = "diff" \/ before["bundle"] # after["bundle"]
      /\ ~Acceptable(envUrl) => ~out.ok /\ out.remote = git.remote
=============================================================================
