----------------------------- MODULE Conditions -----------------------------
(***************************************************************************)
(* The condition language of src/condition.rs: the tokenizer, the          *)
(* recursive-descent parser that evaluates while it parses, and the        *)
(* functions and methods it allows.                                        *)
(*                                                                         *)
(* A step of the parser yields [err, v, p]: no error, a value and the next *)
(* position, or an error and nothing else.                                 *)
(***************************************************************************)
EXTENDS Coercions

CONSTANTS Data,       \* the context: a function from names to values
          MaxLen,     \* MAX_CONDITION_LEN
          MaxDepth    \* the 32 levels of parentheses

\* ------------------------------------------------------------- tokenizer

Op(k) == [k |-> k]
StrTok(s) == [k |-> "string", s |-> s]
NumTok(n) == [k |-> "number", n |-> n]
Ident(s) == [k |-> "ident", s |-> s]

Pairs2 == {"==", "!=", "<=", ">=", "&&", "||"}
Singles == {"(", ")", "[", "]", ",", "<", ">", "."}
Meant(o) == CASE o = "&&" -> "and" [] o = "||" -> "or" [] OTHER -> o

\* Past the identifier that starts at i: hyphens belong to it before a letter.
RECURSIVE WordEnd(_, _)
WordEnd(s, i) ==
  LET j == Past(s, i, IsWord)
  IN  IF Char(s, j) = "-" /\ IsAlpha(Char(s, j + 1)) THEN WordEnd(s, j + 1) ELSE j

\* After `not` that ends before i: past a following `in`, or 0.
InAfter(s, i) ==
  LET j == Past(s, i, LAMBDA c : c = " ")
  IN  IF At(s, j, "in") /\ ~IsAlnum(Char(s, j + 2)) THEN j + 2 ELSE 0

Keyword(w) ==
  CASE w \in {"and", "or", "in", "not"} -> Op(w)
    [] w \in {"true", "True"} -> Ident("true")
    [] w \in {"false", "False"} -> Ident("false")
    [] OTHER -> Ident(w)

NumberEnd(s, i) ==
  Past(s, IF Char(s, i) = "-" THEN i + 1 ELSE i, LAMBDA c : IsDigit(c) \/ c = ".")

\* A text quoted by q from i on, behind what is read of it; a backslash takes the next.
RECURSIVE Quoted(_, _, _, _)
Quoted(s, i, q, read) ==
  CASE i > Len(s) -> [err |-> "parse", s |-> "", p |-> i]
    [] Char(s, i) = q -> [err |-> "", s |-> read, p |-> i + 1]
    [] Char(s, i) = "\\" /\ i < Len(s) -> Quoted(s, i + 2, q, read \o Char(s, i + 1))
    [] OTHER -> Quoted(s, i + 1, q, read \o Char(s, i))

\* The tokens of s from i on, behind ts.
RECURSIVE Lex(_, _, _)
Lex(s, i, ts) ==
  LET c == Char(s, i)
      two == c \o Char(s, i + 1)
      Go(t, j) == Lex(s, j, Append(ts, t))
  IN  CASE i > Len(s) -> [err |-> "", ts |-> ts]
        [] c \in Blanks -> Lex(s, i + 1, ts)
        [] two \in Pairs2 -> Go(Op(Meant(two)), i + 2)
        [] two \notin Pairs2 /\ c \in Singles -> Go(Op(c), i + 1)
        [] c \in {"'", "\""} ->
             LET r == Quoted(s, i + 1, c, "")
             IN  IF r.err = "" THEN Go(StrTok(r.s), r.p) ELSE [err |-> r.err, ts |-> <<>>]
        [] IsDigit(c) \/ (c = "-" /\ IsDigit(Char(s, i + 1))) ->
             LET n == SubSeq(s, i, NumberEnd(s, i) - 1)
             IN  IF IsDecimal(n) THEN Go(NumTok(Tenths(n)), NumberEnd(s, i))
                                 ELSE [err |-> "parse", ts |-> <<>>]
        [] IsAlpha(c) \/ c = "_" ->
             LET j == WordEnd(s, i)
                 w == SubSeq(s, i, j - 1)
             IN  IF w = "not" /\ InAfter(s, j) # 0
                   THEN Go(Op("not in"), InAfter(s, j))
                   ELSE Go(Keyword(w), j)
        [] OTHER -> [err |-> "parse", ts |-> <<>>]

Tokenize(s) == Lex(s, 1, <<>>)

\* ------------------------------------------------- functions and methods

Ok(v, p) == [err |-> "", v |-> v, p |-> p]
Err(k) == [err |-> k, v |-> Null, p |-> 0]
\* The ? of the parser: go on with a result, or leave with its error.
Then(r, Next(_)) == IF r.err = "" THEN Next(r) ELSE r

SafeCalls == {"int", "str", "len", "bool", "float", "min", "max"}
SafeMethods == {"strip", "lstrip", "rstrip", "lower", "upper", "title", "startswith",
                "endswith", "replace", "split", "join", "count", "find"}

Arg(args, i) == IF i <= Len(args) THEN args[i] ELSE Null
ArgText(args, i) == IF Arg(args, i).t = "str" THEN Arg(args, i).s ELSE ""

\* The first of args that no later one is on the wanted side of, as the loop finds it.
RECURSIVE Best(_, _, _)
Best(best, args, side) ==
  IF args = <<>> THEN best
  ELSE Best(IF CompareValues(Head(args), best) = side THEN Head(args) ELSE best,
            Tail(args), side)

SizeOf(v) ==
  CASE v.t = "str" -> Len(v.s) [] v.t = "arr" -> Len(v.e)
    [] v.t = "obj" -> Cardinality(DOMAIN v.f) [] OTHER -> 0

\* int() of a number that JSON does not store as an integer is 0.
ApplyFunction(name, args, p) ==
  LET a == Arg(args, 1)
  IN  CASE name = "int" /\ a.t = "str" ->
             IF IsInteger(Trim(a.s)) THEN Ok(Whole(Integer(Trim(a.s))), p) ELSE Err("parse")
        [] name = "int" /\ a.t # "str" ->
             Ok(CASE a.t = "num" /\ a.i -> a [] a.t = "bool" -> Whole(BoolNum(a.b) \div 10)
                  [] OTHER -> Whole(0), p)
        [] name = "float" /\ a.t = "str" ->
             IF IsDecimal(Trim(a.s)) THEN Ok(Float(Tenths(Trim(a.s))), p) ELSE Err("parse")
        [] name = "float" /\ a.t # "str" ->
             Ok(CASE a.t = "num" -> Float(a.n) [] a.t = "bool" -> Float(BoolNum(a.b))
                  [] OTHER -> Float(0), p)
        [] name = "str" ->
             Ok(Str(CASE a.t = "str" -> a.s [] a.t = "null" -> "" [] OTHER -> ToText(a)), p)
        [] name = "bool" -> Ok(Bool(IsTruthy(a)), p)
        [] name = "len" -> Ok(Whole(SizeOf(a)), p)
        [] name \in {"min", "max"} ->
             IF Len(args) < 2 THEN Err("parse")
             ELSE Ok(Best(a, Tail(args), IF name = "min" THEN -1 ELSE 1), p)

Title(w) == Upper(Char(w, 1)) \o Lower(From(w, 2))
StrSeq(ss) == Arr([i \in 1..Len(ss) |-> Str(ss[i])])
StringsOf(v) ==
  LET Keep[i \in 0..Len(v.e)] ==
        IF i = 0 THEN <<>> ELSE Keep[i - 1] \o IF v.e[i].t = "str" THEN <<v.e[i].s>> ELSE <<>>
  IN  Keep[Len(v.e)]

\* A method of a text; other scalars are first written as text.
ApplyMethod(v, name, args, p) ==
  LET s == CASE v.t = "str" -> v.s [] v.t = "null" -> "" [] OTHER -> ToText(v)
      x == ArgText(args, 1)
      Texts(t) == Ok(Str(t), p)
  IN  IF v.t \in {"arr", "obj"} THEN Err("parse")
      ELSE CASE name = "strip" -> Texts(Trim(s))
             [] name = "lstrip" -> Texts(TrimStart(s))
             [] name = "rstrip" -> Texts(TrimEnd(s))
             [] name = "lower" -> Texts(Lower(s))
             [] name = "upper" -> Texts(Upper(s))
             [] name = "title" ->
                  LET w == Words(s) IN Texts(Join([i \in 1..Len(w) |-> Title(w[i])], " "))
             [] name = "startswith" -> Ok(Bool(StartsWith(s, x)), p)
             [] name = "endswith" -> Ok(Bool(EndsWith(s, x)), p)
             [] name = "replace" -> Texts(Replace(s, x, ArgText(args, 2)))
             [] name = "split" -> Ok(StrSeq(IF Arg(args, 1).t = "str" THEN Split(s, x) ELSE Words(s)), p)
             [] name = "join" ->
                  Texts(IF Arg(args, 1).t = "arr" THEN Join(StringsOf(args[1]), s) ELSE "")
             [] name = "count" -> Ok(Whole(Len(Split(s, x)) - 1), p)
             [] name = "find" -> Ok(Whole(First(s, x) - 1), p)

\* ---------------------------------------------------------------- parser

Kind(ts, p) == IF p <= Len(ts) THEN ts[p].k ELSE "end"
Dunder(s) == Includes(s, "__")

ResolveIdent(name) ==
  CASE name = "true" -> Bool(TRUE)
    [] name = "false" -> Bool(FALSE)
    [] name \in DOMAIN Data -> Data[name]
    [] OTHER -> Null
Field(v, k) == IF HasField(v, k) THEN v.f[k] ELSE Null
Item(v, i) == IF v.t = "arr" /\ i < Len(v.e) THEN v.e[i + 1] ELSE Null

Comparisons == {"==", "!=", "<", "<=", ">", ">=", "in", "not in"}
Compares(op, a, b) ==
  CASE op = "==" -> ValuesEqual(a, b)
    [] op = "!=" -> ~ValuesEqual(a, b)
    [] op = "<" -> CompareValues(a, b) = -1
    [] op = "<=" -> CompareValues(a, b) \in {-1, 0}
    [] op = ">" -> CompareValues(a, b) = 1
    [] op = ">=" -> CompareValues(a, b) \in {0, 1}
    [] op = "in" -> ValueIn(a, b)
    [] op = "not in" -> ~ValueIn(a, b)

RECURSIVE ParseOr(_, _, _), OrRest(_, _, _, _), ParseAnd(_, _, _), AndRest(_, _, _, _),
          ParseNot(_, _, _), ParsePrimary(_, _, _), Postfix(_, _, _),
          ParseArgs(_, _, _, _), ParseAtom(_, _, _), ParseItems(_, _, _, _)

\* An operand of `or` or `and` is parsed, and so evaluated, also when what was seen
\* before it decides.
OrRest(ts, seen, p, d) ==
  Then(ParseAnd(ts, p, d),
       LAMBDA r : IF Kind(ts, r.p) = "or" THEN OrRest(ts, seen \/ r.v.b, r.p + 1, d)
                                          ELSE Ok(Bool(seen \/ r.v.b), r.p))
ParseOr(ts, p, d) == OrRest(ts, FALSE, p, d)

AndRest(ts, seen, p, d) ==
  Then(ParseNot(ts, p, d),
       LAMBDA r : IF Kind(ts, r.p) = "and" THEN AndRest(ts, seen /\ r.v.b, r.p + 1, d)
                                           ELSE Ok(Bool(seen /\ r.v.b), r.p))
ParseAnd(ts, p, d) == AndRest(ts, TRUE, p, d)

ParseComparison(ts, p, d) ==
  Then(ParsePrimary(ts, p, d),
       LAMBDA l : IF Kind(ts, l.p) \in Comparisons
                    THEN Then(ParsePrimary(ts, l.p + 1, d),
                              LAMBDA r : Ok(Bool(Compares(Kind(ts, l.p), l.v, r.v)), r.p))
                    ELSE Ok(Bool(IsTruthy(l.v)), l.p))

Negated(r) == Then(r, LAMBDA x : Ok(Bool(~x.v.b), x.p))
ParseNot(ts, p, d) ==
  IF Kind(ts, p) = "not" THEN Negated(ParseNot(ts, p + 1, d)) ELSE ParseComparison(ts, p, d)

ParsePrimary(ts, p, d) == Then(ParseAtom(ts, p, d), LAMBDA r : Postfix(ts, r, d))

\* `.name(`: a method if it is a safe one. `.name`: a field.
DotAccess(ts, r, d) ==
  LET name == ts[r.p + 1].s
      call == Kind(ts, r.p + 2) = "("
  IN  CASE Kind(ts, r.p + 1) # "ident" -> Err("parse")
        [] OTHER ->
             CASE call /\ name \in SafeMethods ->
                    Then(ParseArgs(ts, r.p + 3, <<>>, d),
                         LAMBDA a : ApplyMethod(r.v, name, a.v.e, a.p))
               [] call /\ name \notin SafeMethods -> Err("unsafe")
               [] ~call /\ Dunder(name) -> Err("unsafe")
               [] ~call /\ ~Dunder(name) -> Ok(Field(r.v, name), r.p + 2)

BracketAccess(ts, r) ==
  LET k == Kind(ts, r.p + 1)
      key == ts[r.p + 1]
      Close(v) == IF Kind(ts, r.p + 2) = "]" THEN Ok(v, r.p + 3) ELSE Err("parse")
  IN  CASE k = "string" -> IF Dunder(key.s) THEN Err("unsafe") ELSE Close(Field(r.v, key.s))
        [] k = "number" -> IF key.n < 0 \/ key.n % 10 # 0 THEN Err("parse")
                           ELSE Close(Item(r.v, key.n \div 10))
        [] OTHER -> Err("parse")

Postfix(ts, r, d) ==
  CASE Kind(ts, r.p) = "." -> Then(DotAccess(ts, r, d), LAMBDA x : Postfix(ts, x, d))
    [] Kind(ts, r.p) = "[" -> Then(BracketAccess(ts, r), LAMBDA x : Postfix(ts, x, d))
    [] OTHER -> r

\* The arguments from p up to the closing parenthesis, behind args; a comma may trail.
ParseArgs(ts, p, args, d) ==
  IF Kind(ts, p) = ")" THEN Ok(Arr(args), p + 1)
  ELSE Then(ParsePrimary(ts, p, d),
            LAMBDA r : CASE Kind(ts, r.p) = "," -> ParseArgs(ts, r.p + 1, Append(args, r.v), d)
                         [] Kind(ts, r.p) = ")" -> Ok(Arr(Append(args, r.v)), r.p + 1)
                         [] OTHER -> Err("parse"))

\* The items of a list literal: atoms, with no access behind them.
ParseItems(ts, p, items, d) ==
  IF Kind(ts, p) = "]" THEN Ok(Arr(items), p + 1)
  ELSE Then(ParseAtom(ts, p, d),
            LAMBDA r : CASE Kind(ts, r.p) = "," -> ParseItems(ts, r.p + 1, Append(items, r.v), d)
                         [] Kind(ts, r.p) = "]" -> Ok(Arr(Append(items, r.v)), r.p + 1)
                         [] OTHER -> Err("parse"))

ParseAtom(ts, p, d) ==
  LET k == Kind(ts, p)
  IN  CASE k = "string" -> Ok(Str(ts[p].s), p + 1)
        [] k = "number" -> Ok(Float(ts[p].n), p + 1)
        [] k = "ident" ->
             CASE Dunder(ts[p].s) -> Err("unsafe")
               [] ts[p].s \in SafeCalls /\ Kind(ts, p + 1) = "(" ->
                    Then(ParseArgs(ts, p + 2, <<>>, d),
                         LAMBDA a : ApplyFunction(ts[p].s, a.v.e, a.p))
               [] OTHER -> Ok(ResolveIdent(ts[p].s), p + 1)
        [] k = "(" ->
             IF d = MaxDepth THEN Err("parse")
             ELSE Then(ParseOr(ts, p + 1, d + 1),
                       LAMBDA r : IF Kind(ts, r.p) = ")" THEN Ok(r.v, r.p + 1) ELSE Err("parse"))
        [] k = "[" -> ParseItems(ts, p + 1, <<>>, d)
        [] OTHER -> Err("parse")

\* evaluate_condition: what follows a complete expression is not looked at.
EvaluateCondition(s) ==
  LET l == Tokenize(s)
  IN  CASE Len(s) > MaxLen -> Err("parse")
        [] l.err # "" -> Err(l.err)
        [] OTHER -> ParseOr(l.ts, 1, 0)

\* -------------------------------------------------------------- properties

\* The way a token is written.
Written(t) ==
  CASE t.k = "string" -> "'" \o t.s \o "'"
    [] t.k = "number" -> NumText(Float(t.n))
    [] t.k = "ident" -> t.s
    [] OTHER -> t.k

\* Tokens written with blanks between them are read back as they were. The exception
\* the look-ahead of `not` makes: a name behind it that starts with `in` and goes on
\* with no letter or digit is taken apart.
TakenApart(ts) ==
  \E i \in 1..(Len(ts) - 1) :
    /\ ts[i] = Op("not")
    /\ StartsWith(Written(ts[i + 1]), "in") /\ ~IsAlnum(Char(Written(ts[i + 1]), 3))
TokensReadBack(ts) ==
  TakenApart(ts) \/ Tokenize(Join([i \in 1..Len(ts) |-> Written(ts[i])], " ")) = [err |-> "", ts |-> ts]
=============================================================================
