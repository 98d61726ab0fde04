------------------------------- MODULE MC_Jacv -------------------------------
(***************************************************************************)
(* Files for the model checker: every short file over the characters that  *)
(* the lexer tells apart, and every somewhat longer one over those that    *)
(* numbers are made of.                                                    *)
(***************************************************************************)
EXTENDS Jacv

UpTo(n, chars) == UNION {[1..k -> chars] : k \in 0..n}

AnySources ==
  UpTo(4, {" ", "@", "newline", ";", "=", "dquote", "backtick", "backslash", "a", "7", "."})
  \cup UpTo(5, {"0", "1", "9", "b", "."})
  \cup {<<"0", x>> \o s : x \in {"x", "X", "B", "o", "O"}, s \in UpTo(3, {"0", "7", "8", "f", "G"})}

\* Binary literals up to the width of a word, one that the parser sees.
BinarySources == {<<"0", "b">> \o s : s \in UpTo(8, {"0", "1"})}

=============================================================================
