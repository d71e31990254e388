------------------------------- MODULE Values -------------------------------
(***************************************************************************)
(* JSON values: a record with its type t. A number keeps its size in       *)
(* tenths and whether JSON stores it as an integer.                        *)
(***************************************************************************)
EXTENDS Texts

Null == [t |-> "null"]
Bool(b) == [t |-> "bool", b |-> b]
Whole(n) == [t |-> "num", n |-> 10 * n, i |-> TRUE]
Float(n) == [t |-> "num", n |-> n, i |-> FALSE]
Str(s) == [t |-> "str", s |-> s]
Arr(e) == [t |-> "arr", e |-> e]
Obj(f) == [t |-> "obj", f |-> f]

BoolText(b) == IF b THEN "true" ELSE "false"
NumText(v) ==
  LET m == IF v.n < 0 THEN -v.n ELSE v.n
  IN  (IF v.n < 0 THEN "-" ELSE "") \o Decimal(m \div 10)
        \o IF v.i THEN "" ELSE "." \o Decimal(m % 10)

\* Value::to_string; the text of a collection is not told apart.
ToText(v) ==
  CASE v.t = "null" -> "null" [] v.t = "bool" -> BoolText(v.b) [] v.t = "num" -> NumText(v)
    [] v.t = "str" -> "\"" \o v.s \o "\"" [] v.t = "arr" -> "[]" [] v.t = "obj" -> "{}"

HasField(v, k) == v.t = "obj" /\ k \in DOMAIN v.f
=============================================================================
