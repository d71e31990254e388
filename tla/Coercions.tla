------------------------------ MODULE Coercions ------------------------------
(***************************************************************************)
(* The coercions of the condition language (src/condition.rs): which       *)
(* values count as true, how two values are ordered and when they are      *)
(* equal, whatever their types.                                            *)
(***************************************************************************)
EXTENDS Values

IsTruthy(v) ==
  \/ v.t = "bool" /\ v.b
  \/ v.t = "num" /\ v.n # 0
  \/ v.t = "str" /\ v.s # ""
  \/ v.t = "arr" /\ v.e # <<>>
  \/ v.t = "obj" /\ DOMAIN v.f # {}

Incomparable == 2
Cmp(m, n) == IF m < n THEN -1 ELSE IF m > n THEN 1 ELSE 0
Flip(c) == IF c = Incomparable THEN c ELSE -c
BoolNum(b) == IF b THEN 10 ELSE 0
NumStr(n, s) == IF IsDecimal(Trim(s)) THEN Cmp(n, Tenths(Trim(s))) ELSE Incomparable

CompareValues(a, b) ==
  CASE a.t = "num" /\ b.t = "num" -> Cmp(a.n, b.n)
    [] a.t = "str" /\ b.t = "str" -> Order(a.s, b.s)
    [] a.t = "bool" /\ b.t = "bool" -> Cmp(BoolNum(a.b), BoolNum(b.b))
    [] a.t = "num" /\ b.t = "str" -> NumStr(a.n, b.s)
    [] a.t = "str" /\ b.t = "num" -> Flip(NumStr(b.n, a.s))
    [] a.t = "bool" /\ b.t = "str" -> Order(BoolText(a.b), b.s)
    [] a.t = "str" /\ b.t = "bool" -> Order(a.s, BoolText(b.b))
    [] a.t = "bool" /\ b.t = "num" -> Cmp(BoolNum(a.b), b.n)
    [] a.t = "num" /\ b.t = "bool" -> Cmp(a.n, BoolNum(b.b))
    [] OTHER -> Incomparable

BoolIs(b, s) == IF b THEN s \in {"true", "True"} ELSE s \in {"false", "False"}
ValuesEqual(a, b) ==
  CASE {a.t, b.t} = {"num"} -> a.n = b.n
    [] {a.t, b.t} = {"str", "num"} -> CompareValues(a, b) = 0
    [] a.t = "bool" /\ b.t = "str" -> BoolIs(a.b, b.s)
    [] a.t = "str" /\ b.t = "bool" -> BoolIs(b.b, a.s)
    [] OTHER -> a = b

ValueIn(v, h) ==
  CASE h.t = "str" -> Includes(h.s, IF v.t = "str" THEN v.s ELSE ToText(v))
    [] h.t = "arr" -> \E i \in 1..Len(h.e) : ValuesEqual(v, h.e[i])
    [] OTHER -> FALSE

\* -------------------------------------------------------------- properties

\* The two coercions of compare_values and values_equal agree: ordering two values
\* the other way round gives the opposite answer, equality is symmetric, and values
\* that can be ordered are equal exactly when neither is before the other. The code
\* makes two exceptions: a boolean equals the capitalised text too, and a boolean is
\* ordered beside numbers but equals none.
CoercionsAgree(a, b) ==
  LET c == CompareValues(a, b)
  IN  /\ CompareValues(b, a) = Flip(c)
      /\ ValuesEqual(a, b) = ValuesEqual(b, a)
      /\ \/ c = Incomparable
         \/ {a.t, b.t} = {"bool", "num"}
         \/ {a.t, b.t} = {"bool", "str"} /\ {a, b} \cap {Str("True"), Str("False")} # {}
         \/ ValuesEqual(a, b) <=> c = 0
=============================================================================
