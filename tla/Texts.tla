------------------------------- MODULE Texts -------------------------------
(***************************************************************************)
(* Texts as the functions of this program treat them: sequences of ASCII   *)
(* characters, written as TLA+ strings. Everything here is what a method   *)
(* of Rust's str does; the modules of the pure functions of the runner     *)
(* share it.                                                               *)
(***************************************************************************)
EXTENDS Integers, Sequences, FiniteSets

Lowers == "abcdefghijklmnopqrstuvwxyz"
Uppers == "ABCDEFGHIJKLMNOPQRSTUVWXYZ"
Digits == "0123456789"

\* The characters the models use, in the order of their codes.
Ascii ==
  "\t\n !\"$&'(),-./" \o Digits \o ":;<=>" \o Uppers \o "[\\]_" \o Lowers \o "{|}"

\* The i-th character; "" past either end.
Char(s, i) == IF i \in 1..Len(s) THEN SubSeq(s, i, i) ELSE ""
From(s, i) == SubSeq(s, i, Len(s))
UpTo(s, i) == SubSeq(s, 1, i)
CharsOf(s) == {Char(s, i) : i \in 1..Len(s)}
IndexIn(s, c) == CHOOSE i \in 1..Len(s) : Char(s, i) = c

IsDigit(c) == c \in CharsOf(Digits)
IsAlpha(c) == c \in CharsOf(Lowers) \cup CharsOf(Uppers)
IsAlnum(c) == IsAlpha(c) \/ IsDigit(c)
IsWord(c) == IsAlnum(c) \/ c = "_"
Blanks == {" ", "\t", "\n"}

At(s, i, t) == i + Len(t) - 1 <= Len(s) /\ SubSeq(s, i, i + Len(t) - 1) = t
Places(s, t) == {i \in 1..(Len(s) - Len(t) + 1) : At(s, i, t)}
Includes(s, t) == Places(s, t) # {}
StartsWith(s, t) == Len(t) <= Len(s) /\ At(s, 1, t)
EndsWith(s, t) == Len(t) <= Len(s) /\ At(s, Len(s) - Len(t) + 1, t)

\* str::find, counted from 1; 0 when there is none.
Foremost(I) == IF I = {} THEN 0 ELSE CHOOSE i \in I : \A j \in I : i <= j
First(s, t) == Foremost(Places(s, t))

\* The first index from i on whose character fails Good; one past the end if none does.
Past(s, i, Good(_)) ==
  CHOOSE j \in i..(Len(s) + 1) :
    /\ \A k \in i..(j - 1) : Good(Char(s, k))
    /\ j <= Len(s) => ~Good(Char(s, j))

IsBlank(c) == c \in Blanks
TrimStart(s) == From(s, Past(s, 1, IsBlank))
TrimEnd(s) ==
  UpTo(s, CHOOSE i \in 0..Len(s) :
            /\ i > 0 => ~IsBlank(Char(s, i))
            /\ \A j \in (i + 1)..Len(s) : IsBlank(Char(s, j)))
Trim(s) == TrimEnd(TrimStart(s))

\* Every character replaced by its image under f.
Each(s, f) ==
  LET E[i \in 0..Len(s)] == IF i = 0 THEN "" ELSE E[i - 1] \o f[Char(s, i)] IN E[Len(s)]

Lower(s) ==
  Each(s, [c \in CharsOf(Ascii) |->
    IF c \in CharsOf(Uppers) THEN Char(Lowers, IndexIn(Uppers, c)) ELSE c])
Upper(s) ==
  Each(s, [c \in CharsOf(Ascii) |->
    IF c \in CharsOf(Lowers) THEN Char(Uppers, IndexIn(Lowers, c)) ELSE c])

\* str::split: the pieces between the occurrences of t; an empty t stands around every character.
Split(s, t) ==
  LET P[i \in 1..(Len(s) + 1)] ==
        LET j == Foremost({k \in Places(s, t) : k >= i})
        IN  IF j = 0 THEN <<From(s, i)>> ELSE <<SubSeq(s, i, j - 1)>> \o P[j + Len(t)]
  IN  IF t = "" THEN <<"">> \o [j \in 1..Len(s) |-> Char(s, j)] \o <<"">> ELSE P[1]

\* str::split_whitespace
Words(s) ==
  LET W[i \in 1..(Len(s) + 1)] ==
        LET a == Past(s, i, IsBlank)
            b == Past(s, a, LAMBDA c : ~IsBlank(c))
        IN  IF a > Len(s) THEN <<>> ELSE <<SubSeq(s, a, b - 1)>> \o W[b]
  IN  W[1]

Join(ss, t) ==
  LET J[i \in 0..Len(ss)] ==
        IF i = 0 THEN "" ELSE IF i = 1 THEN ss[1] ELSE J[i - 1] \o t \o ss[i]
  IN  J[Len(ss)]

Replace(s, t, u) == Join(Split(s, t), u)

\* The order of str: by code, a prefix first. -1, 0 or 1.
Code(c) == IF c = "" THEN 0 ELSE IndexIn(Ascii, c)
Order(s, t) ==
  LET differ == {i \in 1..(Len(s) + Len(t)) : Char(s, i) # Char(t, i)}
      i == CHOOSE i \in differ : \A j \in differ : i <= j
  IN  IF s = t THEN 0 ELSE IF Code(Char(s, i)) < Code(Char(t, i)) THEN -1 ELSE 1

Natural(s) ==
  LET N[i \in 0..Len(s)] ==
        IF i = 0 THEN 0 ELSE 10 * N[i - 1] + IndexIn(Digits, Char(s, i)) - 1
  IN  N[Len(s)]

AllDigits(s) == s # "" /\ \A i \in 1..Len(s) : IsDigit(Char(s, i))
Unsigned(s) == IF StartsWith(s, "-") THEN From(s, 2) ELSE s
Sign(s) == IF StartsWith(s, "-") THEN -1 ELSE 1

\* str::parse::<i64>
IsInteger(s) == AllDigits(Unsigned(s))
Integer(s) == Sign(s) * Natural(Unsigned(s))

\* str::parse::<f64>, in tenths: the models write at most one digit after the point.
AreDecimal(p) ==
  /\ Len(p) <= 2
  /\ \E i \in 1..Len(p) : p[i] # ""
  /\ \A i \in 1..Len(p) : p[i] = "" \/ AllDigits(p[i])
IsDecimal(s) == AreDecimal(Split(Unsigned(s), "."))
InTenths(p) == 10 * Natural(p[1]) + IF Len(p) = 2 THEN Natural(p[2]) ELSE 0
Tenths(s) == Sign(s) * InTenths(Split(Unsigned(s), "."))

Decimal(n) ==
  LET D[k \in Nat] ==
        IF k < 10 THEN Char(Digits, k + 1) ELSE D[k \div 10] \o Char(Digits, (k % 10) + 1)
  IN  IF n < 0 THEN "-" \o D[-n] ELSE D[n]
=============================================================================
