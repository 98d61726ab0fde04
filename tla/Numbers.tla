------------------------------ MODULE Numbers ------------------------------
(***************************************************************************)
(* parse_number of src/jutils.c, which gives a literal its value, and next *)
(* to it what a literal means by the positional systems it is written in.  *)
(* A text is a sequence of characters.  The widths of uint64_t and int are *)
(* parameters, so that a model checker meets their limits with few digits. *)
(***************************************************************************)
EXTENDS Integers, Sequences, FiniteSets, FiniteSetsExt

CONSTANTS
  WordBits,  \* of uint64_t
  IntBits    \* of int

\* A word is not smaller than an int, and has room for a digit.
ASSUME WidthsAssumption ==
  /\ IntBits \in Nat \ {0} /\ WordBits \in Nat
  /\ IntBits <= WordBits /\ 4 <= WordBits

Digits == <<"0", "1", "2", "3", "4", "5", "6", "7", "8", "9">>
Lower == <<"a", "b", "c", "d", "e", "f">>
Upper == <<"A", "B", "C", "D", "E", "F">>

Decimal == {Digits[k] : k \in 1..10}
Octal == {Digits[k] : k \in 1..8}
Binary == {"0", "1"}
Hex == Decimal \cup {Lower[k] : k \in 1..6} \cup {Upper[k] : k \in 1..6}

DigitValue ==
  [c \in Hex |->
     CHOOSE v \in 0..15 :
       IF c \in Decimal THEN v < 10 /\ Digits[v + 1] = c
       ELSE v >= 10 /\ c \in {Lower[v - 9], Upper[v - 9]}]

\* base to the power of n.
Power(base, n) ==
  LET pow[k \in 0..n] == IF k = 0 THEN 1 ELSE base * pow[k - 1]
  IN  pow[n]

All(str, S) == \A k \in DOMAIN str : str[k] \in S

From(str, k) == SubSeq(str, k, Len(str))

Fail == [state |-> "fail"]
Whole(n) == [state |-> "int", num |-> n]

\* num / 10^places, in the floating point numbers.
Fraction(n, places) == [state |-> "float", num |-> n, places |-> places]

-----------------------------------------------------------------------------
(* The code.                                                               *)

\* Mutant: the word never overflows.
HornerUnbounded(str, base) ==
  LET ans[k \in 0..Len(str)] ==
        IF k = 0 THEN 0
        ELSE IF str[k] = "." THEN ans[k - 1]
        ELSE ans[k - 1] * base + DigitValue[str[k]]
  IN  ans[Len(str)]

\* One digit after the other, in a word that overflows: the loops of hex2int,
\* oc2int and the decimal branch, which passes over a dot.
Horner(str, base) ==
  LET ans[k \in 0..Len(str)] ==
        IF k = 0 THEN 0
        ELSE IF str[k] = "." THEN ans[k - 1]
        ELSE (ans[k - 1] * base + DigitValue[str[k]]) % Power(2, WordBits)
  IN  ans[Len(str)]

\* Each 1 sets a bit, but the shifted 1 is an int: beyond its width C leaves the
\* result open, x86 and ARM shift by the distance modulo the width, and the sign
\* bit of an int fills the word.
bin2int(str) ==
  LET shifted(d) == IF d % IntBits = IntBits - 1 THEN (IntBits - 1)..(WordBits - 1)
                    ELSE {d % IntBits}
      bits == UNION {shifted(Len(str) - k) : k \in {k \in DOMAIN str : str[k] = "1"}}
  IN  MapThenSumSet(LAMBDA b : Power(2, b), bits)

\* The branch of base 10, for a text that does not start with a dot.
parse_decimal(str) ==
  LET dots == {k \in DOMAIN str : str[k] = "."}
      num == Horner(str, 10)
  IN  IF ~All(str, Decimal \cup {"."}) \/ Cardinality(dots) > 1 THEN Fail
      ELSE IF dots = {} THEN Whole(num)
      ELSE Fraction(num, Len(str) - Max(dots))

\* The text after the base prefix, whose value is this if it has such digits only.
parse_based(str, digits, value) == IF All(str, digits) THEN Whole(value) ELSE Fail

parse_number(str) ==
  LET after2 == From(str, 3)
      after1 == From(str, 2)
  IN  CASE Len(str) = 1 -> Whole(DigitValue[str[1]])
        [] Len(str) > 1 /\ str[1] = "0" ->
             CASE str[2] \in {"x", "X"} -> parse_based(after2, Hex, Horner(after2, 16))
               [] str[2] \in {"b", "B"} -> parse_based(after2, Binary, bin2int(after2))
               [] str[2] \in {"o", "O"} -> parse_based(after2, Octal, Horner(after2, 8))
               [] str[2] \in Decimal -> parse_based(after1, Octal, Horner(after1, 8))
               [] OTHER -> Fail
        [] Len(str) > 1 /\ str[1] = "." ->
             LET rest == parse_decimal(after1)
             IN  IF rest.state = "int" THEN Fraction(rest.num, Len(str) - 1) ELSE Fail
        [] OTHER -> parse_decimal(str)

-----------------------------------------------------------------------------
(* The meaning of literals, without an order of evaluation.                *)

\* The digits of str count the powers of the base; a word keeps the low bits.
Positional(str, base) ==
  MapThenSumSet(LAMBDA k : DigitValue[str[k]] * Power(base, Len(str) - k), DOMAIN str)
    % Power(2, WordBits)

\* The literals of base 16, 2 and 8 without their prefix.
Prefixed(str, digits, prefixes) ==
  {rest \in {From(str, k) : k \in 2..3} :
     /\ \E p \in prefixes : str = p \o rest
     /\ All(rest, digits)}

HexRest(str) == Prefixed(str, Hex, {<<"0", "x">>, <<"0", "X">>})
BinaryRest(str) == Prefixed(str, Binary, {<<"0", "b">>, <<"0", "B">>})
OctalRest(str) ==
  Prefixed(str, Octal, {<<"0", "o">>, <<"0", "O">>})
    \cup {rest \in Prefixed(str, Octal, {<<"0">>}) : rest # <<>>}

IsInt(str) == All(str, Decimal) /\ (str[1] = "0" => Len(str) = 1)

\* Digits on both sides of a dot, of which either may be empty; no "0." .
IsFloat(str, k) ==
  /\ str[k] = "." /\ Len(str) > 1 /\ str[1] # "0"
  /\ All(SubSeq(str, 1, k - 1) \o From(str, k + 1), Decimal)

Meaning(str) ==
  IF IsInt(str) THEN {Whole(Positional(str, 10))}
  ELSE {Whole(Positional(rest, 16)) : rest \in HexRest(str)}
       \cup {Whole(Positional(rest, 2)) : rest \in BinaryRest(str)}
       \cup {Whole(Positional(rest, 8)) : rest \in OctalRest(str)}
       \cup {Fraction(Positional(SubSeq(str, 1, k - 1) \o From(str, k + 1), 10), Len(str) - k) :
               k \in {k \in DOMAIN str : IsFloat(str, k)}}

=============================================================================
