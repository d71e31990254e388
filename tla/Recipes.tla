------------------------------ MODULE Recipes ------------------------------
(***************************************************************************)
(* What src/parser.rs accepts as a recipe, and what `extends` makes of a   *)
(* chain of them.                                                          *)
(*                                                                         *)
(* A document is the record a decoded YAML file gives: name, steps,        *)
(* context, tags, recursion, hooks and extends, where "" and Default stand *)
(* for what the file leaves out. A library is a function from file names   *)
(* to documents.                                                           *)
(***************************************************************************)
EXTENDS Texts, SequencesExt

CONSTANTS Default,    \* RecursionConfig::default()
          HookNames,  \* pre_step, post_step, on_error
          TooLarge    \* documents over MAX_YAML_SIZE_BYTES

\* ------------------------------------------------------------------- steps

\* A step names its type or leaves it to the fields it has.
EffectiveType(step) ==
  CASE step.type # "" -> step.type
    [] step.type = "" /\ "recipe" \in DOMAIN step.fields -> "recipe"
    [] step.type = "" /\ "recipe" \notin DOMAIN step.fields
         /\ ("agent" \in DOMAIN step.fields
               \/ ("prompt" \in DOMAIN step.fields /\ "command" \notin DOMAIN step.fields)) -> "agent"
    [] OTHER -> "bash"

\* The name of a sub-recipe: one path component of letters, digits, _ and -.
SafeName(s) == s # "" /\ \A i \in 1..Len(s) : IsWord(Char(s, i)) \/ Char(s, i) = "-"
HasTemplate(s) == Includes(s, "{{") /\ Includes(s, "}}")

ReferenceOk(step) ==
  EffectiveType(step) = "recipe" =>
    /\ "recipe" \in DOMAIN step.fields
    /\ HasTemplate(step.fields.recipe) \/ SafeName(step.fields.recipe)

\* ------------------------------------------------------------------ parsing

Ids(steps) == [i \in 1..Len(steps) |-> steps[i].id]

\* The first of the complaints of RecipeParser::parse, or none.
Complaint(doc) ==
  CASE doc \in TooLarge -> "too large"
    [] doc \notin TooLarge /\ doc.name = "" -> "no name"
    [] doc \notin TooLarge /\ doc.name # "" /\ doc.steps = <<>> -> "no steps"
    [] OTHER ->
         CASE "" \in Range(Ids(doc.steps)) \/ ~IsInjective(Ids(doc.steps)) -> "bad id"
           [] \E i \in 1..Len(doc.steps) : ~ReferenceOk(doc.steps[i]) -> "bad reference"
           [] OTHER -> ""

\* -------------------------------------------------------------- inheritance

Resolved(r) == [err |-> "", r |-> r]
Fails(e) == [err |-> e, r |-> <<>>]

Over(f, g) == [k \in DOMAIN f \cup DOMAIN g |-> IF k \in DOMAIN g THEN g[k] ELSE f[k]]

\* The child laid over its parent.
MergedContextParentWins(parent, child) == Over(child.context, parent.context)
MergedContext(parent, child) == Over(parent.context, child.context)
MergedSteps(parent, child) == parent.steps \o child.steps
Merge(parent, child) ==
  [child EXCEPT
     !.extends = "",
     !.context = MergedContext(parent, child),
     !.steps = MergedSteps(parent, child),
     !.tags = parent.tags \cup child.tags,
     !.recursion = IF child.recursion = Default THEN parent.recursion ELSE child.recursion,
     !.hooks = [h \in HookNames |->
                  IF child.hooks[h] = "" THEN parent.hooks[h] ELSE child.hooks[h]]]

\* resolve_extends_with_visited, up to its recursive call: the parent of the last
\* document is looked for and parsed. Here err is "" and no extends ends the chain.
Climb(library, up) ==
  LET name == Last(up.chain).extends
      refusal == CASE name \in up.visited -> "circular"
                   [] name \notin up.visited /\ name \notin DOMAIN library -> "not found"
                   [] OTHER -> Complaint(library[name])
  IN  IF up.err # "" \/ name = "" THEN up
      ELSE IF refusal # "" THEN [up EXCEPT !.err = refusal]
      ELSE [up EXCEPT !.chain = Append(@, library[name]), !.visited = @ \cup {name}]

\* The calls before the first one returns: each but the last has visited another name.
Ascent(library, doc) ==
  LET most == Cardinality(DOMAIN library) + 1
      Up[i \in 0..most] == IF i = 0 THEN [chain |-> <<doc>>, visited |-> {}, err |-> ""] ELSE Climb(library, Up[i - 1])
  IN  Up[most]

\* What they do on their way back: each document is laid over what it extends.
Descent(chain) ==
  LET n == Len(chain)
      Laid[k \in 1..n] == IF k = 1 THEN chain[n] ELSE Merge(Laid[k - 1], chain[n + 1 - k])
  IN  Laid[n]

ResolveExtends(library, doc) ==
  LET top == Ascent(library, doc) IN IF top.err # "" THEN Fails(top.err) ELSE Resolved(Descent(top.chain))

\* --------------------------------------------------------------- properties

\* The chain of a document: itself, then each document the one before it extends,
\* as far as there are such and for at most one step more than there are documents.
Extended(library, chain) ==
  LET name == Last(chain).extends
  IN  IF name \in DOMAIN library THEN Append(chain, library[name]) ELSE chain
Chain(library, doc) ==
  LET most == Cardinality(DOMAIN library) + 1
      C[i \in 0..most] == IF i = 0 THEN <<doc>> ELSE Extended(library, C[i - 1])
  IN  C[most]

\* The value of a field of the chain nearest to the child that satisfies Given.
Nearest(chain, Value(_), Given(_), otherwise) ==
  LET I == {i \in 1..Len(chain) : Given(chain[i])}
  IN  IF I = {} THEN otherwise ELSE Value(chain[CHOOSE i \in I : \A j \in I : i <= j])

\* A resolved recipe is its whole chain laid over one another: the steps of the oldest
\* ancestor first, each variable, hook and limit from the nearest document that sets
\* it, and the tags of all. Resolving fails exactly when the chain comes back to a
\* document, leaves the library, or meets a document that does not parse
\* (resolve_extends).
ExtendsLaysOver(library, doc) ==
  LET chain == Chain(library, doc)
      n == Len(chain)
      res == ResolveExtends(library, doc)
      Ups == 2..n
      broken == \/ n > Cardinality(DOMAIN library) + 1
                \/ chain[n].extends # ""
                \/ \E i \in Ups : Complaint(chain[i]) # ""
  IN  /\ res.err # "" <=> broken
      /\ ~broken =>
           /\ res.r.name = doc.name
           /\ res.r.steps = FlattenSeq([i \in 1..n |-> chain[n + 1 - i].steps])
           /\ DOMAIN res.r.context = UNION {DOMAIN chain[i].context : i \in 1..n}
           /\ \A k \in DOMAIN res.r.context :
                res.r.context[k] =
                  Nearest(chain, LAMBDA d : d.context[k], LAMBDA d : k \in DOMAIN d.context, "")
           /\ res.r.tags = UNION {chain[i].tags : i \in 1..n}
           /\ res.r.recursion =
                Nearest(chain, LAMBDA d : d.recursion, LAMBDA d : d.recursion # Default, Default)
           /\ \A h \in HookNames :
                res.r.hooks[h] = Nearest(chain, LAMBDA d : d.hooks[h], LAMBDA d : d.hooks[h] # "", "")

\* What run_steps relies on: in a recipe that resolved, every step has a name and every
\* literal reference is a safe one, and the ids are those of the chain: they are
\* distinct exactly when no document repeats the id of an ancestor, since nothing
\* looks for duplicates again after the merge.
MergedRecipeIsSound(library, doc) ==
  LET chain == Chain(library, doc)
      res == ResolveExtends(library, doc)
      IdsOf(d) == Range(Ids(d.steps))
  IN  res.err = "" /\ Complaint(doc) = "" =>
        /\ "" \notin IdsOf(res.r)
        /\ \A i \in 1..Len(res.r.steps) : ReferenceOk(res.r.steps[i])
        /\ IsInjective(Ids(res.r.steps)) <=>
             \A i, j \in 1..Len(chain) : i # j => IdsOf(chain[i]) \cap IdsOf(chain[j]) = {}
=============================================================================
