------------------------------- MODULE MC_Ast -------------------------------
(***************************************************************************)
(* Token lists for the model checker.  Each set holds every continuation,  *)
(* up to a length, of a few beginnings; together they reach every branch   *)
(* of the parser.  The tokens of a continuation are those that the parser  *)
(* tells apart where the beginning ends.                                   *)
(***************************************************************************)
EXTENDS Ast

UpTo(n, kinds) == UNION {[1..k -> kinds] : k \in 0..n}
From(prefix, rests) == {prefix \o rest : rest \in rests}

\* One operator stands for those that the statements do not tell apart.
Kinds == (TokenKinds \ Operators) \cup {"+", ":", "="}

Function == <<"fn", "ident", "lparen", "rparen", "ident">>

StatementInputs ==
  UpTo(3, Kinds)
  \cup From(<<"def", "ident">>,
            UpTo(3, {":", "=", "ident", "num", "semicolon", "newline", "+"}))
  \cup From(<<"def", "ident", ":">>,
            UpTo(3, {"=", "ident", "string", "num", "semicolon", "keyword"}))
  \cup From(<<"def", "ident", "=">>,
            UpTo(3, {"ident", "string", "+", "semicolon", "def", "fn", "rbrace"}))
  \cup From(<<"fn", "ident", "lparen">>,
            UpTo(4, {"ident", "def", "num", "comma", "rparen", "newline",
                     "semicolon"}))
  \cup From(<<"fn", "ident", "lparen", "ident", "ident", "comma">>,
            UpTo(4, {"ident", "string", "rparen", "semicolon"}))
  \cup {<<"fn", "ident", "lparen", "ident", type, "rparen", "ident", "semicolon">> :
          type \in Kinds}
  \cup From(Function,
            UpTo(4, {"lbrace", "rbrace", "ident", "fn", "semicolon", "="}))
  \cup Statements

\* num op num op ... num
Chain(ops) ==
  [j \in 1..2 * Len(ops) + 1 |-> IF j % 2 = 1 THEN "num" ELSE ops[j \div 2]]

\* s with its i-th to j-th operand in parentheses.
Wrapped(s, i, j) ==
  SubSeq(s, 1, 2 * i - 2) \o <<"lparen">> \o SubSeq(s, 2 * i - 1, 2 * j - 1)
    \o <<"rparen">> \o SubSeq(s, 2 * j, Len(s))

\* s with () for its i-th operand.
Emptied(s, i) ==
  SubSeq(s, 1, 2 * i - 2) \o <<"lparen", "rparen">> \o SubSeq(s, 2 * i, Len(s))

ExpressionInputs ==
  UpTo(4, {"num", "+", "*", "lparen", "rparen", "newline", "semicolon"})
  \cup UpTo(5, {"num", "+", "lparen", "rparen", "newline"})
  \cup UpTo(6, {"num", "+", "lparen", "rparen"})
  \cup {Chain(ops) : ops \in [1..3 -> Operators]}
  \cup {Chain(ops) : ops \in [1..4 -> {"*", "%", "+", "-", "&", "^", "="}]}
  \cup {Chain(ops) : ops \in [1..5 -> {"*", "+", "-", "&"}]}
  \cup {Wrapped(Chain(ops), i, i + 1) :
          ops \in [1..4 -> {"*", "-", "&"}], i \in 1..4}
  \cup {Wrapped(Chain(ops), i, i + 2) :
          ops \in [1..4 -> {"*", "-", "&"}], i \in 1..3}
  \cup {Emptied(Chain(ops), i) : ops \in [1..3 -> {"*", "+", "|"}], i \in 1..4}
  \* test/test.jacv:1, "0 + 3 * 42 / 0xFF + (2 + 3) * 6"
  \cup {Wrapped(Chain(<<"+", "*", "/", "+", "+", "*">>), 5, 6)}

ScopeInputs ==
  UpTo(5, {"lbrace", "rbrace", "ident", "num", "semicolon", "rparen"})
  \cup From(Function \o <<"lbrace", "rbrace">>,
            UpTo(4, {"lbrace", "rbrace", "ident", "semicolon"}))
  \cup From(<<"lbrace", "num", "+">>,
            UpTo(4, {"lbrace", "rbrace", "num", "+", "semicolon"}))

\* For the runs that show what the code does not keep.
OpenParenInputs == UpTo(3, {"lparen", "num", "+", "rparen"})
\* The other mistakes come behind two statements: the shortest way to a crash is
\* that of OpenParenInputs.
MistakeInputs ==
  OpenParenInputs
  \cup From(<<"num", "newline", "num", "newline">>,
            From(<<"lparen">>, UpTo(2, {"num", "rparen", "semicolon"}))
            \cup From(<<"num", "+">>, UpTo(2, {"num", "semicolon", "newline"}))
            \cup From(<<"def">>, UpTo(4, {"ident", "num", ":"}))
            \cup From(<<"fn", "ident", "lparen">>,
                      UpTo(2, {"ident", "num", "comma"})
                      \cup {<<"ident", "num", "rparen", "ident", "semicolon">>}))
TypedInputs == From(<<"def", "ident", ":", "ident">>, UpTo(2, {"=", "num", "semicolon"}))
TwoScopesInputs ==
  From(Function \o <<"lbrace", "rbrace">>, UpTo(3, {"lbrace", "rbrace", "semicolon"}))

=============================================================================
