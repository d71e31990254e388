-------------------------- MODULE ConditionMeaning --------------------------
(***************************************************************************)
(* What a condition means, apart from how it is read: the reference for    *)
(* the parser of Conditions. An expression is a tree; Write gives its text *)
(* with the fewest parentheses the precedence table of                     *)
(* docs/src/conditions.md allows, Meaning its value.                       *)
(*                                                                         *)
(* Every operand is evaluated, left to right, and the first error is the   *)
(* error of the whole: `or` and `and` choose between two values they both  *)
(* have.                                                                   *)
(***************************************************************************)
EXTENDS Conditions

\* Conditions
Or(l, r) == [f |-> "or", l |-> l, r |-> r]
And(l, r) == [f |-> "and", l |-> l, r |-> r]
Not(a) == [f |-> "not", a |-> a]
Comp(op, l, r) == [f |-> "cmp", op |-> op, l |-> l, r |-> r]
Holds(a) == [f |-> "holds", a |-> a]
\* Values
Lit(text, v) == [f |-> "lit", text |-> text, v |-> v]
Var(name) == [f |-> "var", name |-> name]
CallOf(name, args) == [f |-> "call", name |-> name, args |-> args]
Method(a, name, args) == [f |-> "method", a |-> a, name |-> name, args |-> args]
Dot(a, name) == [f |-> "dot", a |-> a, name |-> name]
Sub(a, text, v) == [f |-> "sub", a |-> a, text |-> text, v |-> v]
List(args) == [f |-> "list", args |-> args]
Group(a) == [f |-> "group", a |-> a]

Level(e) ==
  CASE e.f = "or" -> 0 [] e.f = "and" -> 1 [] e.f = "not" -> 2 [] OTHER -> 3

RECURSIVE Write(_, _), WriteAll(_)
WriteAll(es) ==
  IF es = <<>> THEN "" ELSE Write(es[1], 3) \o (IF Len(es) = 1 THEN "" ELSE ", ") \o WriteAll(Tail(es))
Write(e, level) ==
  IF Level(e) < level THEN "(" \o Write(e, 0) \o ")"
  ELSE CASE e.f = "or" -> Write(e.l, 0) \o " or " \o Write(e.r, 1)
         [] e.f = "and" -> Write(e.l, 1) \o " and " \o Write(e.r, 2)
         [] e.f = "not" -> "not " \o Write(e.a, 2)
         [] e.f = "cmp" -> Write(e.l, 3) \o " " \o e.op \o " " \o Write(e.r, 3)
         [] e.f = "holds" -> Write(e.a, 3)
         [] e.f = "lit" -> e.text
         [] e.f = "var" -> e.name
         [] e.f = "call" -> e.name \o "(" \o WriteAll(e.args) \o ")"
         [] e.f = "method" -> Write(e.a, 3) \o "." \o e.name \o "(" \o WriteAll(e.args) \o ")"
         [] e.f = "dot" -> Write(e.a, 3) \o "." \o e.name
         [] e.f = "sub" -> Write(e.a, 3) \o "[" \o e.text \o "]"
         [] e.f = "list" -> "[" \o WriteAll(e.args) \o "]"
         [] e.f = "group" -> "(" \o Write(e.a, 0) \o ")"

Answer(v) == [err |-> "", v |-> v]
Fails(k) == [err |-> k, v |-> Null]

\* The operands of e in the order they are evaluated, each with the level it stands at.
Operand(e, level) == [e |-> e, level |-> level]
Operands(es) == [i \in 1..Len(es) |-> Operand(es[i], 3)]
Parts(e) ==
  CASE e.f = "or" -> <<Operand(e.l, 0), Operand(e.r, 1)>>
    [] e.f = "and" -> <<Operand(e.l, 1), Operand(e.r, 2)>>
    [] e.f = "not" -> <<Operand(e.a, 2)>>
    [] e.f = "cmp" -> Operands(<<e.l, e.r>>)
    [] e.f \in {"holds", "dot", "sub"} -> Operands(<<e.a>>)
    [] e.f \in {"call", "list"} -> Operands(e.args)
    [] e.f = "method" -> Operands(<<e.a>> \o e.args)
    [] OTHER -> <<>>

\* The value of e when its operands have the values x.
Worth(e, x) ==
  LET Plain(r) == [err |-> r.err, v |-> r.v]
  IN  CASE e.f = "or" -> Answer(Bool(x[1].b \/ x[2].b))
        [] e.f = "and" -> Answer(Bool(x[1].b /\ x[2].b))
        [] e.f = "not" -> Answer(Bool(~x[1].b))
        [] e.f = "cmp" -> Answer(Bool(Compares(e.op, x[1], x[2])))
        [] e.f = "holds" -> Answer(Bool(IsTruthy(x[1])))
        [] e.f = "lit" -> Answer(e.v)
        [] e.f = "var" -> Answer(IF e.name \in DOMAIN Data THEN Data[e.name] ELSE Null)
        [] e.f = "call" -> Plain(ApplyFunction(e.name, x, 0))
        [] e.f = "method" -> Plain(ApplyMethod(x[1], e.name, Tail(x), 0))
        [] e.f = "dot" -> Answer(Field(x[1], e.name))
        [] e.f = "sub" -> Answer(IF e.v.t = "str" THEN Field(x[1], e.v.s) ELSE Item(x[1], e.v.n \div 10))
        [] e.f = "list" -> Answer(Arr(x))

\* What e means where parentheses stand around what binds looser than level, d deep.
RECURSIVE Meaning(_, _, _), Meanings(_, _)
Meanings(ps, d) ==
  IF ps = <<>> THEN Answer(<<>>)
  ELSE Then(Meaning(ps[1].e, ps[1].level, d),
            LAMBDA x : Then(Meanings(Tail(ps), d), LAMBDA y : Answer(<<x.v>> \o y.v)))
Meaning(e, level, d) ==
  IF Level(e) < level \/ e.f = "group"
    THEN IF d = MaxDepth THEN Fails("parse")
                         ELSE Meaning(IF Level(e) < level THEN e ELSE e.a, 0, d + 1)
    ELSE Then(Meanings(Parts(e), d), LAMBDA x : Worth(e, x.v))

\* Reading an expression and evaluating it gives what the expression means.
Agree(r, m) == r.err = m.err /\ (m.err = "" => r.v = m.v)
ReadsAsMeant(e) == Agree(EvaluateCondition(Write(e, 0)), Meaning(e, 0, 0))
=============================================================================
