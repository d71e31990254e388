----------------------------- MODULE Preflight -----------------------------
(***************************************************************************)
(* What execute checks of its context before the first step                *)
(* (validate_context of src/runner/mod.rs).  A world tells which paths     *)
(* exist, which of them are directories, which of those git knows, and     *)
(* where the process stands.                                               *)
(***************************************************************************)
EXTENDS Templates

\* The context of a run: the recipe's, with what the user gives over it.
Merged(recipe, user) == user @@ recipe

Lookup(ctx, name) == IF name \in DOMAIN ctx THEN ctx[name] ELSE Null
IsText(v) == v.t = "str" /\ v.s # ""
Repository(world, path) ==
  LET p == IF path = "." THEN world.cwd ELSE path
  IN  p \in world.dirs /\ p \in world.repositories

NonBlank(v) == v.t # "null" /\ (v.t = "str" => Trim(v.s) # "")
Fits(rule, v, world) ==
  CASE rule = "nonempty" -> NonBlank(v)
    [] rule = "git_repo" -> IsText(v) /\ Repository(world, v.s)
    [] rule = "path" -> IsText(v) /\ v.s \in world.exist
    [] OTHER -> TRUE

\* Every variable that does not fit is complained about.
ValidateContext(rules, ctx, world) == {n \in DOMAIN rules : ~Fits(rules[n], Lookup(ctx, n), world)}

\* What passes shows: wherever a template or a script refers to a variable that a rule
\* demands, there is text, and the text of a demanded path leads somewhere. A path of
\* blanks passes only if such a file exists.
DemandedValuesShow(rules, recipe, user, world) ==
  LET ctx == Merged(recipe, user)
  IN  ValidateContext(rules, ctx, world) = {} =>
        \A n \in DOMAIN rules :
          /\ rules[n] = "nonempty" => Trim(Render(ctx, "{{" \o n \o "}}")) # ""
          /\ rules[n] \in {"path", "git_repo"} => Render(ctx, "{{" \o n \o "}}") \in world.exist \cup {"."}
          /\ rules[n] = "nonempty" /\ n \in DOMAIN user => Render(user, "{{" \o n \o "}}") = Render(ctx, "{{" \o n \o "}}")
=============================================================================
