------------------------------ MODULE Custody -------------------------------
(***************************************************************************)
(* What the lexer and the parser promise each other about the strings that *)
(* the lexer cloned from the source (src/ast.c:320, src/lexer.c:69).  The  *)
(* lexer has every string at first: it cloned them, literals and names, at *)
(* src/lexer.c:298 and 336.  The parser may take strings over, for good.   *)
(* What the parser took, its tree frees; when the tree is gone, the lexer  *)
(* frees the rest.  No string is ever freed twice, given back, or left     *)
(* behind.                                                                 *)
(***************************************************************************)
VARIABLE holder     \* who will free each of the strings there are

Init == holder = [s \in DOMAIN holder |-> "lexer"]

\* Gives the strings in S, which "from" has, to "to".
Pass(S, from, to) ==
  /\ S # {}
  /\ \A s \in S : holder[s] = from
  /\ holder' = [s \in DOMAIN holder |-> IF s \in S THEN to ELSE holder[s]]

ParserTakes == \E S \in SUBSET DOMAIN holder : Pass(S, "lexer", "parser")

TreeFrees == \E S \in SUBSET DOMAIN holder : Pass(S, "parser", "nobody")

LexerFrees ==
  /\ \A s \in DOMAIN holder : holder[s] # "parser"
  /\ Pass({s \in DOMAIN holder : holder[s] = "lexer"}, "lexer", "nobody")

Next == ParserTakes \/ TreeFrees \/ LexerFrees

Spec == Init /\ [][Next]_holder

=============================================================================
