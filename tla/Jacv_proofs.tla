----------------------------- MODULE Jacv_proofs -----------------------------
(***************************************************************************)
(* Proofs about main and the lexer, for every file.                        *)
(*                                                                         *)
(* Who owns what from the first allocation to the exit: the lexer hands    *)
(* exactly the texts of its string and identifier tokens over, a lexical   *)
(* error leaves exactly what main does not free, and otherwise everything  *)
(* is freed once, whatever the parser took.                                *)
(*                                                                         *)
(* What the tokens are to the source: they cover it in order, words and    *)
(* numbers are whole, and strings end where they should.                   *)
(*                                                                         *)
(* What numbers mean: the loops of jutils.c give a literal of any length   *)
(* the value of its digits in its base, in words of any width.             *)
(***************************************************************************)
EXTENDS Jacv, TLAPS, WellFoundedInduction, FiniteSetTheorems, SequenceTheorems

\* The tokens are some sequence; what is in it does not matter here.
TokensOK == \E S : tokens \in Seq(S)

Texts(K) == {TextObj(k) : k \in {k \in K : HasText(k)}}
Toks(K) == {TokenObj(k) : k \in K}

\* The tokens that lexer_free has not reached.
Rest == {k \in DOMAIN tokens : k >= item}

\* What is allocated at each point of the program.
Accounted ==
  /\ pc = "main" => live = {}
  /\ pc = "lexer_new" => live = {Context} \cup (IF file THEN {Source} ELSE {})
  /\ pc = "lexer_parse" => live = Base \cup Lexed
  /\ pc = "error" => live = Base \cup Lexed \cup {TokenObj(Len(tokens) + 1), Message}
  /\ pc = "exit 1" => live = Base \cup Lexed \cup {TokenObj(Len(tokens) + 1)}
  /\ pc = "ast_from_lexer" => live = Base \cup Lexed
  /\ pc = "ast_node_destroy" => live = Base \cup Lexed /\ tree = {TextObj(k) : k \in taken}
  /\ pc = "lexer_free" => live = Base \cup Toks(Rest) \cup Texts(Rest \ taken)
  /\ pc = "JContext_free" => live = {Context} \cup (IF file THEN {Source} ELSE {})
  /\ pc = "JContext_destroy" => live = {Context}
  /\ pc = "exit 0" => live = {}
  /\ pc = "crash" => ~file

IInv ==
  /\ TokensOK
  /\ item \in Nat /\ item >= 1
  /\ pc \in PCs \ {"lexer_free", "JContext_free", "JContext_destroy", "exit 0", "crash"}
       => item = 1
  /\ taken \subseteq {k \in DOMAIN tokens : HasText(k)}
  /\ pc \in {"main", "lexer_new"} => tokens = <<>>
  /\ pc \in PCs \ {"abort"}
  /\ Accounted

-----------------------------------------------------------------------------
(* The objects are different from each other.                              *)

LEMMA Names ==
  /\ \A j, k : TokenObj(j) = TokenObj(k) => j = k
  /\ \A j, k : TextObj(j) = TextObj(k) => j = k
  /\ \A j, k : TokenObj(j) # TextObj(k)
  /\ \A k : TokenObj(k) \notin {Context, Source, Message} \cup LexerObj
  /\ \A k : TextObj(k) \notin {Context, Source, Message} \cup LexerObj
  /\ Message \notin {Context, Source} \cup LexerObj
  /\ Context # Source /\ Context \notin LexerObj /\ Source \notin LexerObj
BY DEF TokenObj, TextObj, Context, Source, Message, LexerObj

LEMMA AppendFacts ==
  ASSUME NEW S, NEW s \in Seq(S), NEW e
  PROVE  /\ Append(s, e) \in Seq(S \cup {e})
         /\ Len(s) \in Nat /\ DOMAIN s = 1..Len(s)
         /\ Len(Append(s, e)) = Len(s) + 1
         /\ DOMAIN Append(s, e) = DOMAIN s \cup {Len(s) + 1}
         /\ \A k \in DOMAIN s : Append(s, e)[k] = s[k]
         /\ Append(s, e)[Len(s) + 1] = e
         /\ Len(s) + 1 \notin DOMAIN s
<1> s \in Seq(S \cup {e})
  BY SMT
<1> QED
  BY SMT

-----------------------------------------------------------------------------
(* The turns of the lexer.                                                 *)

\* The variables that the lexer leaves alone.
Rested == UNCHANGED <<file, taken, tree, item>>

LEMMA PushKeeps ==
  ASSUME IInv, pc = "lexer_parse", Rested, NEW token, NEW objects, Push(token, objects),
         objects = IF token.type \in {"string", "identifier"}
                     THEN {TextObj(Len(tokens) + 1)} ELSE {}
  PROVE  IInv'
<1>0. PICK n : n = Len(tokens) + 1
  OBVIOUS
<1>1. PICK S : tokens \in Seq(S)
  BY DEF IInv, TokensOK
<1>2. /\ tokens' \in Seq(S \cup {token})
      /\ DOMAIN tokens' = DOMAIN tokens \cup {n}
      /\ \A k \in DOMAIN tokens : tokens'[k] = tokens[k]
      /\ tokens'[n] = token /\ n \notin DOMAIN tokens
  BY <1>0, <1>1, AppendFacts DEF Push
<1>3. TokensOK'
  BY <1>2 DEF TokensOK
<1>4. /\ \A k \in DOMAIN tokens : HasText(k)' <=> HasText(k)
      /\ HasText(n)' <=> token.type \in {"string", "identifier"}
  BY <1>2 DEF HasText
<1>5. Lexed' = Lexed \cup {TokenObj(n)} \cup objects
  <2>1. {TokenObj(k) : k \in DOMAIN tokens'} =
          {TokenObj(k) : k \in DOMAIN tokens} \cup {TokenObj(n)}
    BY <1>2
  <2>2. {k \in DOMAIN tokens' : HasText(k)'} =
          {k \in DOMAIN tokens : HasText(k)}
            \cup (IF token.type \in {"string", "identifier"} THEN {n} ELSE {})
    BY <1>2, <1>4
  <2>3. {TextObj(k) : k \in {k \in DOMAIN tokens' : HasText(k)'}} =
          {TextObj(k) : k \in {k \in DOMAIN tokens : HasText(k)}} \cup objects
    BY <1>0, <2>2
  <2> QED
    BY <2>1, <2>3 DEF Lexed
<1>6. live' = Base \cup Lexed' /\ Base' = Base /\ pc' = "lexer_parse"
  BY <1>0, <1>5 DEF IInv, Accounted, Push, Base, Rested
<1>7. taken' \subseteq {k \in DOMAIN tokens' : HasText(k)'}
  BY <1>2, <1>4 DEF IInv, Rested
<1> QED
  BY <1>3, <1>6, <1>7 DEF IInv, Accounted, Rested, PCs

LEMMA ErrorKeeps ==
  ASSUME IInv, pc = "lexer_parse", Rested, RetError
  PROVE  IInv'
<1>1. tokens' = tokens /\ pc' = "error" /\ file' = file /\ taken' = taken /\ item' = item
      /\ live' = live \cup {TokenObj(Len(tokens) + 1), Message}
  BY DEF RetError, Rested
<1>2. TokensOK' /\ Lexed' = Lexed /\ Base' = Base
      /\ {k \in DOMAIN tokens' : HasText(k)'} = {k \in DOMAIN tokens : HasText(k)}
  BY <1>1 DEF IInv, TokensOK, Lexed, Base, HasText
<1> QED
  BY <1>1, <1>2 DEF IInv, Accounted, PCs

\* A turn that gives no token changes only the cursor.
LEMMA SkipKeeps ==
  ASSUME IInv, UNCHANGED <<tokens, live, pc, file, taken, tree, item>>
  PROVE  IInv'
<1>1. TokensOK' /\ Lexed' = Lexed /\ Base' = Base /\ Rest' = Rest
      /\ Toks(Rest)' = Toks(Rest) /\ Texts(Rest \ taken)' = Texts(Rest \ taken)
      /\ {k \in DOMAIN tokens' : HasText(k)'} = {k \in DOMAIN tokens : HasText(k)}
  BY DEF IInv, TokensOK, Lexed, Base, HasText, Rest, Toks, Texts
<1>2. Accounted' <=> Accounted
  BY <1>1 DEF Accounted
<1>3. /\ pc' = pc /\ item' = item /\ taken' = taken /\ tokens' = tokens
      /\ taken' \subseteq {k \in DOMAIN tokens' : HasText(k)'}
  BY <1>1 DEF IInv
<1> QED
  BY <1>1, <1>2, <1>3 DEF IInv

LEMMA LexerTurnKeeps ==
  ASSUME IInv, LexerTurn
  PROVE  IInv'
<1>0. pc = "lexer_parse" /\ Rested
  BY DEF LexerTurn, lexer_parse, Rested
<1> DEFINE c == source[i]
           text == {TextObj(Len(tokens) + 1)}
<1>1. CASE Skip(c)
  BY <1>0, <1>1, SkipKeeps DEF Skip, Rested
<1>2. CASE Mark(c)
  <2>1. Push(Token(c, i, i, c), {}) /\ Token(c, i, i, c).type \notin {"string", "identifier"}
    BY <1>2 DEF Mark, Token, Marks
  <2> QED
    BY <1>0, <2>1, PushKeeps
<1>3. CASE Operator(c)
  <2>1. Push(Token("operator", i, i, c), {})
        /\ Token("operator", i, i, c).type \notin {"string", "identifier"}
    BY <1>3 DEF Operator, Token
  <2> QED
    BY <1>0, <2>1, PushKeeps
<1>4. CASE String(c)
  <2>1. RetError \/ \E end, value : Push(Token("string", i, end, value), text)
    BY <1>4 DEF String
  <2>2. CASE RetError
    BY <1>0, <2>2, ErrorKeeps
  <2>3. ASSUME NEW end, NEW value, Push(Token("string", i, end, value), text)
        PROVE  IInv'
    <3>1. Token("string", i, end, value).type = "string"
      BY DEF Token
    <3> QED
      BY <1>0, <2>3, <3>1, PushKeeps
  <2> QED
    BY <2>1, <2>2, <2>3
<1>5. CASE Word(c)
  <2>1. PICK end, value : Push(Token("identifier", i, end, value), text)
    BY <1>5 DEF Word
  <2>2. Token("identifier", i, end, value).type = "identifier"
    BY DEF Token
  <2> QED
    BY <1>0, <2>1, <2>2, PushKeeps
<1>6. CASE Number(c)
  <2>1. RetError \/ \E type \in {"int", "float"} :
          \E end, value : Push(Token(type, i, end, value), {})
    BY <1>6 DEF Number
  <2>2. CASE RetError
    BY <1>0, <2>2, ErrorKeeps
  <2>3. ASSUME NEW type \in {"int", "float"}, NEW end, NEW value,
               Push(Token(type, i, end, value), {})
        PROVE  IInv'
    <3>1. Token(type, i, end, value).type \notin {"string", "identifier"}
      BY DEF Token
    <3> QED
      BY <1>0, <2>3, <3>1, PushKeeps
  <2> QED
    BY <2>1, <2>2, <2>3
<1>7. CASE Dot(c)
  <2>1. Push(Token("dot", i, i, c), {})
        /\ Token("dot", i, i, c).type \notin {"string", "identifier"}
    BY <1>7 DEF Dot, Token
  <2> QED
    BY <1>0, <2>1, PushKeeps
<1> QED
  BY <1>1, <1>2, <1>3, <1>4, <1>5, <1>6, <1>7 DEF LexerTurn, lexer_parse

-----------------------------------------------------------------------------
(* The steps of main.                                                      *)

LEMMA InitHolds == ASSUME Init PROVE IInv
<1>1. tokens \in Seq({})
  BY DEF Init
<1> QED
  BY <1>1 DEF Init, IInv, TokensOK, Accounted, PCs

\* What a step of main that leaves the tokens alone does not change.
LEMMA SameTokens ==
  ASSUME TokensOK, tokens' = tokens, file' = file
  PROVE  /\ TokensOK' /\ Lexed' = Lexed /\ Base' = Base
         /\ DOMAIN tokens' = DOMAIN tokens
         /\ {k \in DOMAIN tokens' : HasText(k)'} = {k \in DOMAIN tokens : HasText(k)}
BY DEF TokensOK, Lexed, Base, HasText

LEMMA StartKeeps ==
  ASSUME IInv, read_file \/ lexer_new \/ LexerError \/ LexerDone
  PROVE  IInv'
<1>1. TokensOK' /\ Lexed' = Lexed /\ Base' = Base
      /\ {k \in DOMAIN tokens' : HasText(k)'} = {k \in DOMAIN tokens : HasText(k)}
  BY SameTokens DEF IInv, read_file, lexer_new, LexerError, LexerDone
<1>2. CASE read_file
  BY <1>1, <1>2 DEF IInv, Accounted, read_file, PCs
<1>3. CASE lexer_new
  <2>1. tokens = <<>> /\ DOMAIN tokens = {}
    BY <1>3 DEF IInv, lexer_new
  <2>2. Lexed = {}
    BY <2>1 DEF Lexed
  <2>3. live' = Base' \cup Lexed'
    BY <1>1, <1>3, <2>2 DEF IInv, Accounted, lexer_new, Base
  <2> QED
    BY <1>1, <1>3, <2>3 DEF IInv, Accounted, lexer_new, PCs
<1>4. CASE LexerError
  <2>1. live = Base \cup Lexed \cup {TokenObj(Len(tokens) + 1), Message}
    BY <1>4 DEF LexerError, IInv, Accounted
  <2>2. Message \notin Base \cup Lexed \cup {TokenObj(Len(tokens) + 1)}
    BY Names DEF Base, Lexed
  <2>3. live' = Base \cup Lexed \cup {TokenObj(Len(tokens) + 1)} /\ pc' = "exit 1"
    BY <1>4, <2>1, <2>2 DEF LexerError, Deallocate
  <2> QED
    BY <1>1, <1>4, <2>3 DEF IInv, Accounted, LexerError, PCs
<1>5. CASE LexerDone
  BY <1>1, <1>5 DEF IInv, Accounted, LexerDone, PCs
<1> QED
  BY <1>2, <1>3, <1>4, <1>5

\* Before anything is freed lexer_free has all tokens before it.
LEMMA TokensDomain ==
  ASSUME TokensOK
  PROVE  Len(tokens) \in Nat /\ DOMAIN tokens = 1..Len(tokens)
BY AppendFacts DEF TokensOK

LEMMA RestOfAll ==
  ASSUME TokensOK, item = 1
  PROVE  Rest = DOMAIN tokens
<1>1. Len(tokens) \in Nat /\ DOMAIN tokens = 1..Len(tokens)
  BY TokensDomain
<1>2. \A k \in DOMAIN tokens : k >= item
  BY <1>1
<1> QED
  BY <1>2 DEF Rest

\* Freeing the texts of the tokens in S leaves what lexer_free expects.
LEMMA TextsFreed ==
  ASSUME TokensOK, item = 1, NEW S \in SUBSET {k \in DOMAIN tokens : HasText(k)}
  PROVE  /\ {TextObj(k) : k \in S} \subseteq Base \cup Lexed
         /\ (Base \cup Lexed) \ {TextObj(k) : k \in S} = Base \cup Toks(Rest) \cup Texts(Rest \ S)
<1>1. Rest = DOMAIN tokens
  BY RestOfAll
<1>2. \A k : TextObj(k) \notin Base /\ TextObj(k) \notin Toks(Rest)
  BY Names DEF Base, Toks
<1>3. Lexed = Toks(Rest) \cup Texts(Rest)
  BY <1>1 DEF Lexed, Toks, Texts
<1>4. Texts(Rest) \ {TextObj(k) : k \in S} = Texts(Rest \ S)
  BY Names DEF Texts
<1>5. {TextObj(k) : k \in S} \subseteq Texts(Rest)
  BY <1>1 DEF Texts
<1> QED
  BY <1>2, <1>3, <1>4, <1>5

LEMMA ParserKeeps ==
  ASSUME IInv, ast_from_lexer \/ ast_node_destroy
  PROVE  IInv'
<1>1. /\ TokensOK' /\ Lexed' = Lexed /\ Base' = Base
      /\ {k \in DOMAIN tokens' : HasText(k)'} = {k \in DOMAIN tokens : HasText(k)}
  BY SameTokens DEF IInv, ast_from_lexer, ast_node_destroy
<1>2. tokens' = tokens /\ item' = item /\ item = 1
  BY DEF IInv, ast_from_lexer, ast_node_destroy
<1>3. live = Base \cup Lexed
  BY DEF IInv, Accounted, ast_from_lexer, ast_node_destroy
<1>4. Toks(Rest)' = Toks(Rest) /\ Texts(Rest \ taken)' = Texts(Rest \ taken')
  BY <1>2 DEF Toks, Texts, Rest, HasText
<1>5. ASSUME NEW S \in SUBSET {k \in DOMAIN tokens : HasText(k)},
             Deallocate({TextObj(k) : k \in S}, "lexer_free"), taken' = S
      PROVE  IInv'
  <2>1. pc' = "lexer_free" /\ live' = Base \cup Toks(Rest) \cup Texts(Rest \ S)
    BY <1>2, <1>3, <1>5, TextsFreed DEF Deallocate, IInv
  <2> QED
    BY <1>1, <1>2, <1>4, <1>5, <2>1 DEF IInv, Accounted, PCs
<1>6. CASE ast_from_lexer
  <2>1. PICK S \in SUBSET {k \in DOMAIN tokens : HasText(k)} :
          /\ taken' = S
          /\ \/ tree' = {TextObj(k) : k \in S} /\ pc' = "ast_node_destroy" /\ live' = live
             \/ Deallocate({TextObj(k) : k \in S}, "lexer_free")
    BY <1>6 DEF ast_from_lexer
  <2>2. CASE tree' = {TextObj(k) : k \in S} /\ pc' = "ast_node_destroy" /\ live' = live
    BY <1>1, <1>2, <1>3, <2>1, <2>2 DEF IInv, Accounted, PCs
  <2> QED
    BY <1>5, <2>1, <2>2
<1>7. CASE ast_node_destroy
  <2>1. tree = {TextObj(k) : k \in taken} /\ taken' = taken
        /\ taken \in SUBSET {k \in DOMAIN tokens : HasText(k)}
    BY <1>7 DEF IInv, Accounted, ast_node_destroy
  <2> QED
    BY <1>5, <1>7, <2>1 DEF ast_node_destroy
<1> QED
  BY <1>6, <1>7

\* One turn of lexer_free takes what the token at the loop owns from the rest.
LEMMA FreeItemKeeps ==
  ASSUME IInv, lexer_free, FreeItem
  PROVE  IInv'
<1>0. PICK text : /\ text = IF HasText(item) /\ item \notin taken THEN {TextObj(item)} ELSE {}
                  /\ Deallocate({TokenObj(item)} \cup text, pc)
  BY DEF FreeItem
<1>1. /\ TokensOK' /\ Base' = Base /\ tokens' = tokens /\ taken' = taken
      /\ {k \in DOMAIN tokens' : HasText(k)'} = {k \in DOMAIN tokens : HasText(k)}
      /\ item \in DOMAIN tokens /\ item' = item + 1 /\ item \in Nat /\ pc = "lexer_free"
  BY SameTokens DEF IInv, lexer_free, FreeItem
<1>2. Len(tokens) \in Nat /\ DOMAIN tokens = 1..Len(tokens)
  BY TokensDomain DEF IInv
<1>3. Rest = Rest' \cup {item} /\ item \notin Rest'
  BY <1>1, <1>2 DEF Rest
<1>4. Toks(Rest) = Toks(Rest') \cup {TokenObj(item)} /\ Toks(Rest)' = Toks(Rest')
  BY <1>3 DEF Toks
<1>5. Texts(Rest \ taken) = Texts(Rest' \ taken) \cup text
      /\ Texts(Rest \ taken)' = Texts(Rest' \ taken)
  BY <1>0, <1>1, <1>3 DEF Texts, HasText
<1>6. live = Base \cup Toks(Rest) \cup Texts(Rest \ taken)
  BY <1>1 DEF IInv, Accounted
<1>7. /\ TokenObj(item) \notin Base \cup Toks(Rest') \cup Texts(Rest' \ taken)
      /\ TextObj(item) \notin Base \cup Toks(Rest') \cup Texts(Rest' \ taken)
  BY <1>3, Names DEF Base, Toks, Texts
<1>8. pc' = "lexer_free" /\ live' = Base \cup Toks(Rest') \cup Texts(Rest' \ taken)
  BY <1>0, <1>1, <1>4, <1>5, <1>6, <1>7 DEF Deallocate
<1>9. Accounted'
  BY <1>1, <1>4, <1>5, <1>8 DEF Accounted
<1>10. item' \in Nat /\ item' >= 1
  BY <1>1, <1>2
<1> QED
  BY <1>1, <1>8, <1>9, <1>10 DEF IInv, PCs

LEMMA EndKeeps ==
  ASSUME IInv, (lexer_free /\ FreeList) \/ FreeSource \/ JContext_destroy
  PROVE  IInv'
<1>1. TokensOK' /\ {k \in DOMAIN tokens' : HasText(k)'} = {k \in DOMAIN tokens : HasText(k)}
      /\ file' = file /\ item' = item /\ taken' = taken /\ tokens' = tokens
  BY SameTokens DEF IInv, lexer_free, FreeList, FreeSource, JContext_destroy
<1>2. CASE lexer_free /\ FreeList
  <2>1. Len(tokens) \in Nat /\ DOMAIN tokens = 1..Len(tokens)
        /\ item \in Nat /\ item >= 1 /\ item \notin DOMAIN tokens
    BY <1>2, TokensDomain DEF IInv, FreeList
  <2>2. Rest = {}
    BY <2>1 DEF Rest
  <2>3. live = Base
    BY <1>2, <2>2 DEF lexer_free, IInv, Accounted, Toks, Texts
  <2>4. pc' = "JContext_free" /\ live' = {Context} \cup (IF file THEN {Source} ELSE {})
    BY <1>2, <2>3, Names DEF FreeList, Deallocate, Base
  <2>5. Accounted'
    BY <1>1, <2>4 DEF Accounted
  <2> QED
    BY <1>1, <2>4, <2>5 DEF IInv, PCs
<1>3. CASE FreeSource
  <2>1. pc = "JContext_free" /\ live = {Context} \cup (IF file THEN {Source} ELSE {})
    BY <1>3 DEF FreeSource, IInv, Accounted
  <2>2. \/ file /\ pc' = "JContext_destroy" /\ live' = {Context}
        \/ ~file /\ pc' = "crash"
    BY <1>3, <2>1, Names DEF FreeSource, Deallocate
  <2> QED
    BY <1>1, <2>1, <2>2 DEF IInv, Accounted, PCs
<1>4. CASE JContext_destroy
  <2>1. live = {Context}
    BY <1>4 DEF JContext_destroy, IInv, Accounted
  <2>2. pc' = "exit 0" /\ live' = {}
    BY <1>4, <2>1 DEF JContext_destroy, Deallocate
  <2> QED
    BY <1>1, <1>4, <2>2 DEF IInv, Accounted, PCs
<1> QED
  BY <1>2, <1>3, <1>4

LEMMA NextKeeps == ASSUME IInv, [Next]_vars PROVE IInv'
<1>1. CASE UNCHANGED vars
  BY <1>1, SkipKeeps DEF vars, lexing
<1>2. CASE lexer_free
  BY <1>2, FreeItemKeeps, EndKeeps DEF lexer_free
<1>3. CASE Next /\ ~lexer_free
  BY <1>3, StartKeeps, LexerTurnKeeps, ParserKeeps, EndKeeps DEF Next
<1> QED
  BY <1>1, <1>2, <1>3

-----------------------------------------------------------------------------
(* Where strings and words end.                                            *)

\* A set of naturals that is not empty has a least element.
LEMMA LeastNat ==
  ASSUME NEW S \in SUBSET Nat, S # {}
  PROVE  \E x \in S : \A y \in S : x <= y
<1> DEFINE R == OpToRel(<, Nat)
<1>1. IsWellFoundedOn(R, Nat)
  BY NatLessThanWellFounded
<1>2. \E x \in S : \A y \in S : ~(<<y, x>> \in R)
  BY <1>1, WFMin, Zenon
<1>3. PICK x \in S : \A y \in S : ~(<<y, x>> \in R)
  BY <1>2
<1>4. \A y \in S : ~(y < x)
  BY <1>3 DEF OpToRel
<1> QED
  BY <1>4, SMT

\* A loop from any place on, that stops at the places in P and behind n.
Stops(n, P, m) == m > n \/ m \in P
Loop(f, n, P, e) == f = [k \in Nat |-> IF Stops(n, P, k) THEN e[k] ELSE f[k + 1]]

\* It stops at m when it starts at k.
StopsAt(n, P, k, m) == k <= m /\ Stops(n, P, m) /\ \A j \in k..m - 1 : ~Stops(n, P, j)

\* What it returns when it starts at k is found where it stops.
Returns(f, n, P, e, k) == \E m \in Nat : StopsAt(n, P, k, m) /\ f[k] = e[m]

LEMMA StopExists ==
  ASSUME NEW n \in Nat, NEW P, NEW k \in Nat
  PROVE  \E m \in Nat : StopsAt(n, P, k, m)
<1> DEFINE S == {m \in Nat : k <= m /\ Stops(n, P, m)}
<1>1. k + n + 1 \in S
  BY DEF Stops
<1>2. PICK m \in S : \A j \in S : m <= j
  BY <1>1, LeastNat
<1>3. \A j \in k..m - 1 : ~Stops(n, P, j)
  BY <1>2
<1> QED
  BY <1>2, <1>3 DEF StopsAt

LEMMA StopUnique ==
  ASSUME NEW n \in Nat, NEW P, NEW k \in Nat, NEW m \in Nat, StopsAt(n, P, k, m),
         NEW m2 \in Nat, StopsAt(n, P, k, m2)
  PROVE  m = m2
BY DEF StopsAt

LEMMA LoopExists ==
  ASSUME NEW n \in Nat, NEW P, NEW e
  PROVE  \E f : Loop(f, n, P, e)
<1> DEFINE At(k) == CHOOSE m \in Nat : StopsAt(n, P, k, m)
           f == [k \in Nat |-> e[At(k)]]
<1>1. \A k \in Nat : At(k) \in Nat /\ StopsAt(n, P, k, At(k))
  BY StopExists
<1> HIDE DEF At
<1>2. ASSUME NEW k \in Nat, Stops(n, P, k) PROVE f[k] = e[k]
  <2>1. StopsAt(n, P, k, k)
    BY <1>2 DEF StopsAt
  <2>2. At(k) = k
    BY <1>1, <2>1, StopUnique
  <2> QED
    BY <2>2
<1>3. ASSUME NEW k \in Nat, ~Stops(n, P, k) PROVE f[k] = f[k + 1]
  <2>1. StopsAt(n, P, k, At(k + 1))
    BY <1>1, <1>3 DEF StopsAt
  <2>2. At(k) = At(k + 1)
    BY <1>1, <2>1, StopUnique
  <2> QED
    BY <2>2
<1>4. f = [k \in Nat |-> f[k]]
  OBVIOUS
<1> HIDE DEF f
<1>5. f = [k \in Nat |-> IF Stops(n, P, k) THEN e[k] ELSE f[k + 1]]
  BY <1>2, <1>3, <1>4
<1> QED
  BY <1>5 DEF Loop

LEMMA LoopStops ==
  ASSUME NEW n \in Nat, NEW P, NEW e, NEW f, Loop(f, n, P, e)
  PROVE  \A k \in Nat : Returns(f, n, P, e, k)
<1> SUFFICES ASSUME NEW k \in Nat PROVE Returns(f, n, P, e, k)
  OBVIOUS
<1>1. PICK m \in Nat : StopsAt(n, P, k, m)
  BY StopExists
<1>2. \A j \in Nat : f[j] = IF Stops(n, P, j) THEN e[j] ELSE f[j + 1]
  BY DEF Loop
<1> DEFINE B == {d \in 0..m - k : f[m - d] # e[m]}
<1>3. B = {}
  <2> SUFFICES ASSUME B # {} PROVE FALSE
    OBVIOUS
  <2>0. B \in SUBSET Nat
    OBVIOUS
  <2>1. PICK d \in B : \A c \in B : d <= c
    BY <2>0, LeastNat
  <2>2. d # 0
    BY <1>1, <1>2, <2>1 DEF StopsAt
  <2>3. d - 1 \in 0..m - k /\ d - 1 \notin B
    BY <2>1, <2>2
  <2>4. f[m - (d - 1)] = e[m]
    BY <2>3
  <2>5. m - d \in k..m - 1 /\ m - d \in Nat /\ m - (d - 1) = (m - d) + 1
    BY <2>1, <2>2
  <2>6. f[m - d] = f[(m - d) + 1]
    BY <1>1, <1>2, <2>5 DEF StopsAt
  <2> QED
    BY <2>1, <2>4, <2>5, <2>6
<1>4. m - k \in 0..m - k /\ m - (m - k) = k
  BY <1>1 DEF StopsAt
<1> QED
  BY <1>1, <1>3, <1>4 DEF Returns

\* In the source s, p closes the string that starts at from.
ClosesIn(s, p, from) == s[p] = s[from] /\ (p > from + 1 => s[p - 1] # "backslash")

LEMMA StringEnds ==
  ASSUME NEW start \in Nat, Len(source) \in Nat
  PROVE  LET end == lexer_parse_string_at(start)
         IN  \/ end = 0
             \/ /\ end \in start + 1..Len(source) /\ ClosesIn(source, end, start)
                /\ \A p \in start + 1..end - 1 : ~ClosesIn(source, p, start)
<1>0. PICK n \in Nat : n = Len(source)
  OBVIOUS
<1> DEFINE Open(k) == k > start + 1 /\ source[k - 1] = "backslash"
           P == {k \in Nat : source[k] = source[start] /\ ~Open(k)}
           e == [k \in Nat |-> IF k > n THEN 0 ELSE k]
           Scan(f) == f = [k \in Nat |-> IF k > Len(source) THEN 0
                                         ELSE IF source[k] = source[start] /\ ~Open(k) THEN k
                                         ELSE f[k + 1]]
<1>1. lexer_parse_string_at(start) = (CHOOSE f : Scan(f))[start + 1]
  BY DEF lexer_parse_string_at
<1>2. \A f : Scan(f) <=> Loop(f, n, P, e)
  BY <1>0 DEF Loop, Stops
<1>3. PICK g : g = CHOOSE f : Scan(f)
  OBVIOUS
<1>4. Scan(g)
  <2> HIDE DEF Scan, e, P
  <2>1. \E f : Scan(f)
    BY <1>2, LoopExists
  <2> QED
    BY <1>3, <2>1
<1>5. Loop(g, n, P, e)
  BY <1>2, <1>4
<1>6. PICK m \in Nat : StopsAt(n, P, start + 1, m) /\ g[start + 1] = e[m]
  <2> HIDE DEF e, P
  <2>1. \A k \in Nat : Returns(g, n, P, e, k)
    BY <1>5, LoopStops
  <2>2. PICK k \in Nat : k = start + 1
    OBVIOUS
  <2>3. Returns(g, n, P, e, k)
    BY <2>1
  <2> QED
    BY <2>2, <2>3 DEF Returns
<1>7. \A p \in Nat : p > start => (p \in P <=> ClosesIn(source, p, start))
  BY DEF ClosesIn
<1>8. lexer_parse_string_at(start) = e[m]
  BY <1>1, <1>3, <1>6
<1>9. CASE m > n
  BY <1>8, <1>9
<1>10. CASE m <= n
  <2>1. e[m] = m /\ m \in P /\ m > start
    BY <1>6, <1>10 DEF StopsAt, Stops
  <2> HIDE DEF e, P
  <2>2. \A p \in start + 1..m - 1 : p \notin P
    BY <1>6 DEF StopsAt, Stops
  <2> QED
    BY <1>0, <1>7, <1>8, <1>10, <2>1, <2>2
<1> QED
  BY <1>9, <1>10

\* In the source s, p is a place of a word.
InWord(s, p, ids) == s[p] \in ids \/ identifierType(s[p]) # "none"

LEMMA WordEnds ==
  ASSUME NEW start \in Nat, Len(source) \in Nat, NEW ids
  PROVE  LET end == lexer_parse_identifier_with_extra_ids(start, ids)
         IN  /\ end \in Nat /\ end >= start
             /\ end <= Len(source) => ~InWord(source, end, ids)
             /\ \A p \in start..end - 1 : p <= Len(source) /\ InWord(source, p, ids)
<1>0. PICK n \in Nat : n = Len(source)
  OBVIOUS
<1> DEFINE P == {k \in Nat : ~InWord(source, k, ids)}
           e == [k \in Nat |-> k]
           End(f) == f = [k \in Nat |->
                  IF k <= Len(source) /\ (source[k] \in ids \/ identifierType(source[k]) # "none")
                    THEN f[k + 1] ELSE k]
<1>1. lexer_parse_identifier_with_extra_ids(start, ids) = (CHOOSE f : End(f))[start]
  BY DEF lexer_parse_identifier_with_extra_ids
<1>2. \A f : End(f) <=> Loop(f, n, P, e)
  BY <1>0 DEF Loop, Stops, InWord
<1>3. PICK g : g = CHOOSE f : End(f)
  OBVIOUS
<1>4. End(g)
  <2> HIDE DEF End, e, P
  <2>1. \E f : End(f)
    BY <1>2, LoopExists
  <2> QED
    BY <1>3, <2>1
<1>5. Loop(g, n, P, e)
  BY <1>2, <1>4
<1>6. PICK m \in Nat : StopsAt(n, P, start, m) /\ g[start] = e[m]
  <2> HIDE DEF e, P
  <2>1. \A k \in Nat : Returns(g, n, P, e, k)
    BY <1>5, LoopStops
  <2>2. Returns(g, n, P, e, start)
    BY <2>1
  <2> QED
    BY <2>2 DEF Returns
<1>7. lexer_parse_identifier_with_extra_ids(start, ids) = m
  BY <1>1, <1>3, <1>6
<1>8. \A p \in start..m - 1 : p <= Len(source) /\ InWord(source, p, ids)
  BY <1>0, <1>6 DEF StopsAt, Stops
<1> QED
  BY <1>0, <1>6, <1>7, <1>8 DEF StopsAt, Stops

-----------------------------------------------------------------------------
(* What the tokens are to the source.                                      *)

\* The token t is right for the source s.
Ended(s, t, ids) == ~(t.to + 1 <= Len(s) /\ InWord(s, t.to + 1, ids))

WordRight(s, t) ==
  /\ Ended(s, t, {}) /\ t.value = SubSeq(s, t.from, t.to)
  /\ \A p \in t.from..t.to : identifierType(s[p]) # "none"
  /\ s[t.from] \notin Decimal

StringRight(s, t) ==
  /\ t.from < t.to /\ s[t.from] \in Quotes /\ ClosesIn(s, t.to, t.from)
  /\ \A p \in t.from + 1..t.to - 1 :
       ~ClosesIn(s, p, t.from) /\ (s[p] = "newline" => s[t.from] = "backtick")
  /\ t.value = SubSeq(s, t.from + 1, t.to - 1)

Typed(s, t) ==
  /\ DOMAIN t = {"type", "from", "to", "value"}
  /\ t.from \in Nat /\ t.to \in Nat /\ 1 <= t.from /\ t.from <= t.to /\ t.to <= Len(s)

TokenRight(s, t) ==
  /\ Typed(s, t)
  /\ t.type = "identifier" => WordRight(s, t)
  /\ t.type \in {"int", "float"} => Ended(s, t, {"."})
  /\ t.type = "dot" => ~(t.to + 1 <= Len(s) /\ s[t.to + 1] \in Decimal)
  /\ t.type = "string" => StringRight(s, t)

SourceInv == (\E S : source \in Seq(S)) /\ i \in Nat /\ 1 <= i /\ i <= Len(source) + 1

LexInv ==
  /\ SourceInv /\ (pc = "main" => i = 1)
  /\ \A k \in DOMAIN tokens : TokenRight(source, tokens[k])
  /\ Covered
  /\ item <= Len(tokens) + 1

LEMMA SourceFacts ==
  ASSUME SourceInv
  PROVE  /\ Len(source) \in Nat /\ DOMAIN source = 1..Len(source)
         /\ \A a, b \in 1..Len(source) :
              a <= b => /\ DOMAIN SubSeq(source, a, b) = 1..b - a + 1
                        /\ \A j \in 1..b - a + 1 : SubSeq(source, a, b)[j] = source[a + j - 1]
<1>1. PICK S : source \in Seq(S)
  BY DEF SourceInv
<1>2. Len(source) \in Nat /\ DOMAIN source = 1..Len(source)
  BY <1>1, LenProperties
<1>3. ASSUME NEW a \in 1..Len(source), NEW b \in 1..Len(source), a <= b
      PROVE  /\ DOMAIN SubSeq(source, a, b) = 1..b - a + 1
             /\ \A j \in 1..b - a + 1 : SubSeq(source, a, b)[j] = source[a + j - 1]
  <2>1. \A j \in a..b : source[j] \in S
    BY <1>1, <1>2, <1>3
  <2>2. /\ SubSeq(source, a, b) \in Seq(S) /\ Len(SubSeq(source, a, b)) = b - a + 1
        /\ \A j \in 1..b - a + 1 : SubSeq(source, a, b)[j] = source[a + j - 1]
    BY <1>3, <2>1, SubSeqProperties
  <2> QED
    BY <2>2, LenProperties
<1> QED
  BY <1>2, <1>3

\* A token is added that begins at the cursor.
LEMMA PushRight ==
  ASSUME IInv, LexInv, pc = "lexer_parse", Rested, NEW token, NEW objects,
         Push(token, objects), TokenRight(source, token), token.from = i
  PROVE  LexInv'
<1>0. PICK n : n = Len(tokens) + 1
  OBVIOUS
<1>1. PICK S : tokens \in Seq(S)
  BY DEF IInv, TokensOK
<1>2. /\ Len(tokens) \in Nat /\ DOMAIN tokens = 1..Len(tokens) /\ Len(tokens') = n
      /\ DOMAIN tokens' = DOMAIN tokens \cup {n} /\ n \notin DOMAIN tokens
      /\ \A k \in DOMAIN tokens : tokens'[k] = tokens[k]
      /\ tokens'[n] = token
  BY <1>0, <1>1, AppendFacts DEF Push
<1>3. source' = source /\ i' = token.to + 1 /\ pc' = pc /\ item' = item
  BY DEF Push, Rested
<1>4. /\ token.from \in Nat /\ token.to \in Nat /\ i <= token.to /\ token.to <= Len(source)
      /\ i \in Nat /\ 1 <= i
  BY DEF TokenRight, Typed, LexInv, SourceInv
<1>5. SourceInv'
  BY <1>3, <1>4 DEF LexInv, SourceInv
<1>7. \A k \in DOMAIN tokens' : TokenRight(source', tokens'[k])
  BY <1>2, <1>3 DEF LexInv
<1>8. \A k \in DOMAIN tokens : /\ tokens[k].from \in Nat /\ tokens[k].to \in Nat
                               /\ tokens[k].from <= tokens[k].to /\ tokens[k].to < i
  BY DEF LexInv, TokenRight, Typed, Covered
<1>9. Covered'
  <2>1. \A k \in DOMAIN tokens' : tokens'[k].from <= tokens'[k].to /\ tokens'[k].to < i'
    BY <1>2, <1>3, <1>4, <1>8
  <2>2. ASSUME NEW k \in 2..Len(tokens') PROVE tokens'[k - 1].to < tokens'[k].from
    <3>1. CASE k = n
      <4>1. k - 1 \in DOMAIN tokens /\ tokens'[k - 1] = tokens[k - 1]
        BY <1>0, <1>2, <2>2, <3>1
      <4> QED
        BY <1>2, <1>8, <3>1, <4>1
    <3>2. CASE k # n
      <4>1. k \in 2..Len(tokens) /\ k \in DOMAIN tokens /\ k - 1 \in DOMAIN tokens
        BY <1>0, <1>2, <2>2, <3>2
      <4>2. tokens[k - 1].to < tokens[k].from
        BY <4>1 DEF LexInv, Covered
      <4> QED
        BY <1>2, <4>1, <4>2
    <3> QED
      BY <3>1, <3>2
  <2>3. ASSUME NEW p \in 1..i' - 1
        PROVE  \/ \E k \in DOMAIN tokens' : p \in tokens'[k].from..tokens'[k].to
               \/ /\ source[p] \notin Marks \cup Operators \cup Quotes \cup {"."}
                  /\ identifierType(source[p]) = "none"
    <3>1. CASE p >= i
      BY <1>2, <1>3, <1>4, <2>3, <3>1
    <3>2. CASE p < i
      <4>1. p \in 1..i - 1
        BY <1>3, <1>4, <2>3, <3>2
      <4>2. \/ \E k \in DOMAIN tokens : p \in tokens[k].from..tokens[k].to
            \/ /\ source[p] \notin Marks \cup Operators \cup Quotes \cup {"."}
               /\ identifierType(source[p]) = "none"
        BY <4>1 DEF LexInv, Covered, Span
      <4> QED
        BY <1>2, <4>2
    <3> QED
      BY <1>3, <1>4, <2>3, <3>1, <3>2
  <2> QED
    BY <1>3, <2>1, <2>2, <2>3 DEF Covered, Span
<1>10. item' <= Len(tokens') + 1
  <2>1. item \in Nat /\ item <= Len(tokens) + 1
    BY DEF LexInv, IInv
  <2> QED
    BY <1>0, <1>2, <1>3, <2>1
<1> QED
  BY <1>3, <1>5, <1>7, <1>9, <1>10 DEF LexInv

\* The cursor stays, or passes a character that starts no token.
LEMMA PassRight ==
  ASSUME LexInv, UNCHANGED <<source, tokens>>, item' <= Len(tokens) + 1,
         pc' = "main" => pc = "main" /\ i' = i,
         \/ i' = i
         \/ /\ i <= Len(source) /\ i' = i + 1
            /\ source[i] \notin Marks \cup Operators \cup Quotes \cup {"."}
            /\ identifierType(source[i]) = "none"
  PROVE  LexInv'
<1>1. /\ SourceInv' /\ i \in Nat /\ 1 <= i
      /\ i' = i \/ i' = i + 1
  BY DEF LexInv, SourceInv
<1>3. Covered'
  <2>1. \A k \in DOMAIN tokens : /\ tokens[k].from <= tokens[k].to /\ tokens[k].to < i'
    <3>1. \A k \in DOMAIN tokens : /\ tokens[k].from <= tokens[k].to /\ tokens[k].to < i
                                   /\ tokens[k].to \in Nat
      BY DEF LexInv, Covered, TokenRight, Typed
    <3> QED
      BY <1>1, <3>1
  <2>2. \A p \in 1..i' - 1 : p \in 1..i - 1 \/ (p = i /\ i' # i)
    BY <1>1
  <2>3. \A p \in 1..i' - 1 :
          (\E k \in DOMAIN tokens : p \in Span(k)) \/
          /\ source[p] \notin Marks \cup Operators \cup Quotes \cup {"."}
          /\ identifierType(source[p]) = "none"
    BY <2>2 DEF LexInv, Covered
  <2>4. \A k \in 2..Len(tokens) : tokens[k - 1].to < tokens[k].from
    BY DEF LexInv, Covered
  <2> QED
    BY <2>1, <2>3, <2>4 DEF Covered, Span
<1> QED
  BY <1>1, <1>3 DEF LexInv

LEMMA TokenFields ==
  ASSUME NEW type, NEW from, NEW to, NEW value
  PROVE  LET t == Token(type, from, to, value)
         IN  /\ t.type = type /\ t.from = from /\ t.to = to /\ t.value = value
             /\ DOMAIN t = {"type", "from", "to", "value"}
BY DEF Token

\* A token of one character.
LEMMA OneRight ==
  ASSUME LexInv, i <= Len(source), NEW type, NEW value,
         type \notin {"identifier", "string", "int", "float"},
         type = "dot" => ~(i + 1 <= Len(source) /\ source[i + 1] \in Decimal)
  PROVE  TokenRight(source, Token(type, i, i, value))
BY TokenFields DEF TokenRight, Typed, LexInv, SourceInv

LEMMA IdentifierTypes ==
  ASSUME NEW c
  PROVE  /\ c \in Decimal => identifierType(c) = "num"
         /\ identifierType(c) \in {"num", "char", "sym", "none"}
<1>1. c \in Decimal => c \notin Small \cup Capital \cup {"_", "$"}
  <2>1. Decimal = {"0", "1", "2", "3", "4", "5", "6", "7", "8", "9"}
    BY DEF Decimal, Digits
  <2> QED
    BY <2>1 DEF Small, Capital
<1> QED
  BY <1>1 DEF identifierType

LEMMA StringTurn == ASSUME IInv, LexInv, LexerTurn, String(source[i]) PROVE LexInv'
<1>1. /\ pc = "lexer_parse" /\ i <= Len(source) /\ Rested /\ i \in Nat /\ 1 <= i
      /\ Len(source) \in Nat /\ i \in 1..Len(source)
  BY SourceFacts DEF LexerTurn, lexer_parse, Rested, LexInv, SourceInv
<1> DEFINE end == EndOfString(source[i])
           closing == lexer_parse_string_at(i)
<1>2. CASE end = 0
  <2>1. RetError
    BY <1>2 DEF String
  <2>2. /\ UNCHANGED <<source, i, tokens, item>> /\ pc' = "error"
    BY <1>1, <2>1 DEF RetError, Rested
  <2> QED
    BY <2>2, PassRight DEF LexInv
<1>3. CASE end # 0
  <2> DEFINE value == clone_string(i + 1, end - i - 1)
             t == Token("string", i, end, value)
  <2>1. Push(t, {TextObj(Len(tokens) + 1)})
    BY <1>3 DEF String
  <2>2. /\ end = closing
        /\ source[i] = "backtick" \/ ~\E j \in i + 1..end - 1 : source[j] = "newline"
    BY <1>3 DEF EndOfString
  <2> HIDE DEF end
  <2>3. /\ end \in i + 1..Len(source) /\ ClosesIn(source, end, i)
        /\ \A p \in i + 1..end - 1 : ~ClosesIn(source, p, i)
    BY <1>1, <1>3, <2>2, StringEnds
  <2> HIDE DEF closing
  <2>4. value = SubSeq(source, i + 1, end - 1)
    <3>1. (i + 1) + (end - i - 1) - 1 = end - 1
      BY <1>1, <2>3
    <3> QED
      BY <3>1 DEF clone_string
  <2> HIDE DEF value
  <2>5. /\ t.type = "string" /\ t.from = i /\ t.to = end /\ t.value = value
        /\ DOMAIN t = {"type", "from", "to", "value"}
    BY TokenFields
  <2> HIDE DEF t
  <2>6. source[i] \in Quotes
    BY DEF String
  <2>7. StringRight(source, t)
    BY <1>1, <2>2, <2>3, <2>4, <2>5, <2>6 DEF StringRight
  <2>8. TokenRight(source, t)
    BY <1>1, <2>3, <2>5, <2>7 DEF TokenRight, Typed
  <2> QED
    BY <1>1, <2>1, <2>5, <2>8, PushRight
<1> QED
  BY <1>2, <1>3

LEMMA WordTurn == ASSUME IInv, LexInv, LexerTurn, Word(source[i]) PROVE LexInv'
<1>1. /\ pc = "lexer_parse" /\ i <= Len(source) /\ Rested /\ i \in Nat /\ 1 <= i
      /\ Len(source) \in Nat /\ i \in 1..Len(source)
  BY SourceFacts DEF LexerTurn, lexer_parse, Rested, LexInv, SourceInv
<1> DEFINE end == lexer_parse_identifier_with_extra_ids(i, {})
           size == end - i + 1
           value == clone_string(i, size - 1)
           t == Token("identifier", i, end - 1, value)
<1>2. identifierType(source[i]) \in {"char", "sym"}
  BY DEF Word
<1>13. Push(t, {TextObj(Len(tokens) + 1)})
  BY DEF Word
<1>3. /\ end \in Nat /\ end >= i
      /\ end <= Len(source) => ~InWord(source, end, {})
      /\ \A p \in i..end - 1 : p <= Len(source) /\ InWord(source, p, {})
  BY <1>1, WordEnds
<1> HIDE DEF end
<1>4. end # i
  BY <1>1, <1>2, <1>3 DEF InWord
<1>5. end - 1 <= Len(source) /\ end - 1 \in Nat /\ i <= end - 1 /\ end - 1 + 1 = end
  BY <1>1, <1>3, <1>4
<1>6. value = SubSeq(source, i, end - 1)
  <2>1. i + (size - 1) - 1 = end - 1
    BY <1>1, <1>3
  <2> QED
    BY <2>1 DEF clone_string
<1> HIDE DEF value
<1>7. /\ t.type = "identifier" /\ t.from = i /\ t.to = end - 1 /\ t.value = value
      /\ DOMAIN t = {"type", "from", "to", "value"}
  BY TokenFields
<1> HIDE DEF t
<1>8. source[i] \notin Decimal
  BY <1>2, IdentifierTypes
<1>9. \A p \in i..end - 1 : identifierType(source[p]) # "none"
  BY <1>3 DEF InWord
<1>10. Ended(source, t, {})
  BY <1>3, <1>5, <1>7 DEF Ended
<1>11. WordRight(source, t)
  BY <1>6, <1>7, <1>8, <1>9, <1>10 DEF WordRight
<1>12. TokenRight(source, t)
  BY <1>1, <1>5, <1>7, <1>11 DEF TokenRight, Typed
<1> QED
  BY <1>1, <1>7, <1>12, <1>13, PushRight

LEMMA NumberTurn == ASSUME IInv, LexInv, LexerTurn, Number(source[i]) PROVE LexInv'
<1>1. /\ pc = "lexer_parse" /\ i <= Len(source) /\ Rested /\ i \in Nat /\ 1 <= i
      /\ Len(source) \in Nat /\ i \in 1..Len(source)
  BY SourceFacts DEF LexerTurn, lexer_parse, Rested, LexInv, SourceInv
<1> DEFINE end == lexer_parse_identifier_with_extra_ids(i, {"."})
<1>2. /\ \/ RetError
         \/ \E type \in {"int", "float"} : \E value : Push(Token(type, i, end - 1, value), {})
      /\ StartsNumber(source[i])
  BY DEF Number
<1>3. /\ end \in Nat /\ end >= i
      /\ end <= Len(source) => ~InWord(source, end, {"."})
      /\ \A p \in i..end - 1 : p <= Len(source) /\ InWord(source, p, {"."})
  BY <1>1, WordEnds
<1> HIDE DEF end
<1>4. InWord(source, i, {"."})
  BY <1>2 DEF InWord, StartsNumber
<1>5. end # i
  BY <1>1, <1>3, <1>4
<1>6. end - 1 <= Len(source) /\ end - 1 \in Nat /\ i <= end - 1 /\ end - 1 + 1 = end
  BY <1>1, <1>3, <1>5
<1>7. CASE RetError
  <2>1. /\ UNCHANGED <<source, i, tokens, item>> /\ pc' = "error"
    BY <1>1, <1>7 DEF RetError, Rested
  <2> QED
    BY <2>1, PassRight DEF LexInv
<1>8. ASSUME NEW type \in {"int", "float"}, NEW value, Push(Token(type, i, end - 1, value), {})
      PROVE  LexInv'
  <2> DEFINE t == Token(type, i, end - 1, value)
  <2>1. /\ t.type = type /\ t.from = i /\ t.to = end - 1
        /\ DOMAIN t = {"type", "from", "to", "value"}
    BY TokenFields
  <2>2. Push(t, {})
    BY <1>8
  <2> HIDE DEF t
  <2>3. Ended(source, t, {"."})
    BY <1>3, <1>6, <2>1 DEF Ended
  <2>4. TokenRight(source, t)
    BY <1>1, <1>6, <2>1, <2>3 DEF TokenRight, Typed
  <2> QED
    BY <1>1, <2>1, <2>2, <2>4, PushRight
<1> QED
  BY <1>2, <1>7, <1>8

LEMMA LexerTurnRight == ASSUME IInv, LexInv, LexerTurn PROVE LexInv'
<1>1. /\ pc = "lexer_parse" /\ i <= Len(source) /\ Rested
      /\ Skip(source[i]) \/ Mark(source[i]) \/ Operator(source[i]) \/ String(source[i])
         \/ Word(source[i]) \/ Number(source[i]) \/ Dot(source[i])
  BY DEF LexerTurn, lexer_parse, Rested
<1>2. CASE Skip(source[i])
  <2>1. item' = item /\ pc' = "lexer_parse"
    BY <1>1, <1>2 DEF Skip, Rested
  <2> QED
    BY <1>1, <1>2, <2>1, PassRight DEF Skip, LexInv
<1>3. ASSUME NEW type, NEW value, Push(Token(type, i, i, value), {}),
             type \notin {"identifier", "string", "int", "float"},
             type = "dot" => ~(i + 1 <= Len(source) /\ source[i + 1] \in Decimal)
      PROVE  LexInv'
  <2>1. TokenRight(source, Token(type, i, i, value))
    BY <1>1, <1>3, OneRight
  <2>2. Token(type, i, i, value).from = i
    BY TokenFields
  <2> QED
    BY <1>1, <1>3, <2>1, <2>2, PushRight
<1>4. CASE Mark(source[i])
  BY <1>3, <1>4 DEF Mark, Marks
<1>5. CASE Operator(source[i])
  BY <1>3, <1>5 DEF Operator
<1>6. CASE Dot(source[i])
  <2>1. ~(i + 1 <= Len(source) /\ source[i + 1] \in Decimal)
    <3>1. Len(source) \in Nat /\ i \in Nat
      BY SourceFacts DEF LexInv, SourceInv
    <3> QED
      BY <1>6, <3>1 DEF Dot, StartsNumber
  <2> QED
    BY <1>3, <1>6, <2>1 DEF Dot
<1> QED
  BY <1>1, <1>2, <1>4, <1>5, <1>6, StringTurn, WordTurn, NumberTurn

LEMMA NextRight == ASSUME IInv, LexInv, [Next]_vars PROVE LexInv'
<1>1. CASE LexerTurn
  BY <1>1, LexerTurnRight
<1>2. CASE read_file
  <2>1. tokens = <<>> /\ tokens' = <<>> /\ i = 1 /\ i' = 1 /\ item' = item /\ pc' # "main"
    BY <1>2 DEF read_file, IInv, LexInv
  <2>2. \E S : source' \in Seq(S)
    <3>1. CASE file
      BY <1>2, <3>1, SourcesAssumption DEF read_file
    <3>2. CASE ~file
      <4>1. source' = <<>> /\ <<>> \in Seq({})
        BY <1>2, <3>2 DEF read_file
      <4> QED
        BY <4>1
    <3> QED
      BY <3>1, <3>2
  <2>3. Len(source') \in Nat
    BY <2>2, LenProperties
  <2>4. DOMAIN tokens' = {} /\ Len(tokens') = 0
    BY <2>1
  <2>5. Covered'
    BY <2>1, <2>4 DEF Covered
  <2>6. SourceInv'
    BY <2>1, <2>2, <2>3 DEF SourceInv
  <2>7. item' <= Len(tokens') + 1
    BY <2>1 DEF LexInv
  <2> QED
    BY <2>1, <2>4, <2>5, <2>6, <2>7 DEF LexInv
<1>3. CASE lexer_free /\ FreeItem
  <2>1. UNCHANGED <<source, i, tokens>> /\ item' = item + 1 /\ item \in DOMAIN tokens
        /\ (pc' = pc \/ pc' = "abort") /\ pc = "lexer_free"
    BY <1>3 DEF lexer_free, FreeItem, Deallocate
  <2>2. Len(tokens) \in Nat /\ DOMAIN tokens = 1..Len(tokens)
    BY TokensDomain DEF IInv
  <2>3. item' <= Len(tokens) + 1
    BY <2>1, <2>2
  <2> QED
    BY <2>1, <2>3, PassRight
<1>4. CASE UNCHANGED vars
  <2>1. UNCHANGED <<source, i, tokens, pc, item>>
    BY <1>4 DEF vars, lexing
  <2> QED
    BY <2>1, PassRight DEF LexInv
<1>5. CASE \/ lexer_new \/ LexerError \/ LexerDone \/ ast_from_lexer \/ ast_node_destroy
           \/ (lexer_free /\ FreeList) \/ FreeSource \/ JContext_destroy
  <2>1. UNCHANGED <<source, i, tokens, item>> /\ pc' # "main"
    BY <1>5 DEF lexer_new, LexerError, LexerDone, ast_from_lexer, ast_node_destroy,
                lexer_free, FreeList, FreeSource, JContext_destroy, Deallocate
  <2> QED
    BY <2>1, PassRight DEF LexInv
<1> QED
  BY <1>1, <1>2, <1>3, <1>4, <1>5 DEF Next, lexer_free

LEMMA InitRight == ASSUME Init PROVE LexInv
<1>1. source = <<>> /\ i = 1 /\ tokens = <<>> /\ item = 1
  BY DEF Init
<1>2. <<>> \in Seq({}) /\ Len(source) = 0 /\ DOMAIN tokens = {} /\ Len(tokens) = 0
  BY <1>1
<1>3. SourceInv
  BY <1>1, <1>2 DEF SourceInv
<1>4. Covered
  BY <1>1, <1>2 DEF Covered
<1> QED
  BY <1>1, <1>2, <1>3, <1>4 DEF LexInv

-----------------------------------------------------------------------------
(* Arithmetic.                                                             *)

\* The remainder is the only one.
LEMMA RestUnique ==
  ASSUME NEW M \in Nat \ {0}, NEW q \in Nat, NEW r \in Nat, r < M,
         NEW p \in Nat, NEW s \in Nat, s < M, M * q + r = M * p + s
  PROVE  r = s
<1>1. ASSUME NEW a \in Nat, NEW b \in Nat, a < b PROVE M * a + M <= M * b
  <2>1. PICK c \in Nat : b = a + 1 + c
    <3>1. b - a - 1 \in Nat /\ b = a + 1 + (b - a - 1)
      BY <1>1
    <3> QED
      BY <3>1
  <2>2. M * b = M * a + M + M * c
    BY <2>1
  <2>3. M * c \in Nat /\ M * a \in Nat
    OBVIOUS
  <2> QED
    BY <2>2, <2>3
<1>2. M * q \in Nat /\ M * p \in Nat
  OBVIOUS
<1>3. CASE q < p
  BY <1>1, <1>2, <1>3
<1>4. CASE p < q
  BY <1>1, <1>2, <1>4
<1>5. CASE p = q
  BY <1>2, <1>5
<1> QED
  BY <1>3, <1>4, <1>5

LEMMA ModIs ==
  ASSUME NEW M \in Nat \ {0}, NEW q \in Nat, NEW r \in Nat, r < M
  PROVE  (M * q + r) % M = r
<1>1. PICK x \in Nat : x = M * q + r
  OBVIOUS
<1>2. PICK p \in Nat, s \in Nat : p = x \div M /\ s = x % M
  BY <1>1
<1>3. s < M /\ x = M * p + s
  BY <1>2
<1> QED
  BY <1>1, <1>2, <1>3, RestUnique

\* A sum whose first part was reduced before.
Reduced(M, x, b, d) == ((x % M) * b + d) % M = (x * b + d) % M

LEMMA ModStep ==
  ASSUME NEW M \in Nat \ {0}, NEW x \in Nat, NEW b \in Nat, NEW d \in Nat
  PROVE  Reduced(M, x, b, d)
<1>1. PICK q \in Nat, r \in Nat : q = x \div M /\ r = x % M
  OBVIOUS
<1>2. r < M /\ x = M * q + r
  BY <1>1
<1>3. PICK y \in Nat : y = r * b + d
  OBVIOUS
<1>4. PICK p \in Nat, s \in Nat : p = y \div M /\ s = y % M
  BY <1>3
<1>5. s < M /\ y = M * p + s
  BY <1>4
<1>6. x * b + d = M * (q * b + p) + s
  <2>1. x * b = M * q * b + r * b
    BY <1>2
  <2>2. M * q * b = M * (q * b)
    OBVIOUS
  <2>3. M * (q * b + p) = M * (q * b) + M * p
    OBVIOUS
  <2>4. PICK u \in Nat, v \in Nat, w \in Nat : u = M * (q * b) /\ v = r * b /\ w = M * p
    OBVIOUS
  <2> QED
    BY <1>3, <1>5, <2>1, <2>2, <2>3, <2>4
<1>7. PICK t \in Nat : t = q * b + p
  OBVIOUS
<1>8. (M * t + s) % M = s
  BY <1>5, <1>7, ModIs
<1> QED
  BY <1>1, <1>3, <1>4, <1>6, <1>7, <1>8 DEF Reduced

LEMMA ModSmall ==
  ASSUME NEW M \in Nat \ {0}, NEW x \in Nat, x < M
  PROVE  x % M = x
OBVIOUS

\* A loop of n turns from c on, with g for a turn.
Turns(p, n, c, g) == p[0] = c /\ \A k \in 1..n : p[k] = g[<<k, p[k - 1]>>]

LEMMA TurnsExist ==
  ASSUME NEW n \in Nat, NEW c \in Nat, NEW g \in [(1..n) \X Nat -> Nat]
  PROVE  \E p \in [0..n -> Nat] : Turns(p, n, c, g)
<1> DEFINE Has(k) == \E p \in [0..k -> Nat] : Turns(p, k, c, g)
           B == {k \in 0..n : ~Has(k)}
<1> SUFFICES ASSUME ~Has(n) PROVE FALSE
  OBVIOUS
<1>1. PICK k \in B : \A j \in B : k <= j
  <2> HIDE DEF Has
  <2>1. B \in SUBSET Nat /\ n \in B
    OBVIOUS
  <2> QED
    BY <2>1, LeastNat
<1>2. k # 0
  <2>1. Turns([j \in 0..0 |-> c], 0, c, g)
    BY DEF Turns
  <2>2. Has(0)
    BY <2>1
  <2> QED
    BY <1>1, <2>2
<1>3. k - 1 \in 0..n /\ k - 1 \notin B /\ k \in 1..n
  <2> HIDE DEF Has
  <2> QED
    BY <1>1, <1>2
<1>4. PICK p \in [0..k - 1 -> Nat] : Turns(p, k - 1, c, g)
  BY <1>3
<1> DEFINE q == [j \in 0..k |-> IF j = k THEN g[<<k, p[k - 1]>>] ELSE p[j]]
<1>5. /\ p[k - 1] \in Nat /\ g[<<k, p[k - 1]>>] \in Nat
      /\ \A j \in 0..k : j # k => j \in 0..k - 1
  BY <1>3, <1>4
<1>6. q \in [0..k -> Nat]
  BY <1>4, <1>5
<1>7. q[0] = c
  BY <1>2, <1>3, <1>4 DEF Turns
<1>8. ASSUME NEW j \in 1..k PROVE q[j] = g[<<j, q[j - 1]>>]
  <2>1. q[j - 1] = p[j - 1] /\ j \in 0..k
    BY <1>3
  <2>2. CASE j = k
    BY <2>1, <2>2
  <2>3. CASE j # k
    <3>1. j \in 1..k - 1 /\ q[j] = p[j]
      BY <1>3, <2>3
    <3>2. p[j] = g[<<j, p[j - 1]>>]
      BY <1>4, <3>1 DEF Turns
    <3> QED
      BY <2>1, <3>1, <3>2
  <2> QED
    BY <2>2, <2>3
<1> HIDE DEF q
<1>9. Has(k)
  BY <1>6, <1>7, <1>8 DEF Turns
<1> QED
  BY <1>1, <1>9

\* Powers.
Powers(p, b, n) == p = [k \in 0..n |-> IF k = 0 THEN 1 ELSE b * p[k - 1]]

LEMMA PowersExist ==
  ASSUME NEW b \in Nat, NEW n \in Nat
  PROVE  \E p \in [0..n -> Nat] : Powers(p, b, n)
<1> DEFINE g == [a \in (1..n) \X Nat |-> b * a[2]]
<1>1. g \in [(1..n) \X Nat -> Nat] /\ \A k \in 1..n, x \in Nat : g[<<k, x>>] = b * x
  OBVIOUS
<1> HIDE DEF g
<1>2. PICK p \in [0..n -> Nat] : Turns(p, n, 1, g)
  BY <1>1, TurnsExist
<1>3. \A k \in 0..n : k # 0 => k \in 1..n /\ p[k - 1] \in Nat
  BY <1>2
<1>4. \A k \in 0..n : p[k] = IF k = 0 THEN 1 ELSE b * p[k - 1]
  BY <1>1, <1>2, <1>3 DEF Turns
<1>5. p = [k \in 0..n |-> p[k]]
  BY <1>2
<1>6. Powers(p, b, n)
  BY <1>4, <1>5 DEF Powers
<1> QED
  BY <1>6

LEMMA PowersAgree ==
  ASSUME NEW b \in Nat, NEW n \in Nat, NEW m \in Nat, n <= m,
         NEW p, Powers(p, b, n), NEW q, Powers(q, b, m)
  PROVE  \A k \in 0..n : p[k] = q[k]
<1> DEFINE B == {k \in 0..n : p[k] # q[k]}
<1> SUFFICES ASSUME B # {} PROVE FALSE
  OBVIOUS
<1>1. PICK k \in B : \A j \in B : k <= j
  <2>1. B \in SUBSET Nat
    OBVIOUS
  <2> QED
    BY <2>1, LeastNat
<1>2. /\ \A j \in 0..n : p[j] = IF j = 0 THEN 1 ELSE b * p[j - 1]
      /\ \A j \in 0..n : q[j] = IF j = 0 THEN 1 ELSE b * q[j - 1]
  BY DEF Powers
<1>3. k # 0
  BY <1>1, <1>2
<1>4. k - 1 \in 0..n /\ k - 1 \notin B
  BY <1>1, <1>3
<1> QED
  BY <1>1, <1>2, <1>3, <1>4

LEMMA PowerIs ==
  ASSUME NEW b \in Nat, NEW n \in Nat
  PROVE  /\ Power(b, 0) = 1 /\ Power(b, n) \in Nat
         /\ Power(b, n + 1) = b * Power(b, n)
<1> DEFINE P(k) == CHOOSE p : Powers(p, b, k)
<1>1. ASSUME NEW k \in Nat PROVE Power(b, k) = P(k)[k] /\ Powers(P(k), b, k)
  <2>1. Power(b, k) = P(k)[k]
    BY Zenon DEF Power, Powers
  <2>2. Powers(P(k), b, k)
    BY PowersExist
  <2> QED
    BY <2>1, <2>2
<1> HIDE DEF P
<1>2. Power(b, 0) = 1
  BY <1>1 DEF Powers
<1>3. Power(b, n) \in Nat
  <2>1. PICK p \in [0..n -> Nat] : Powers(p, b, n)
    BY PowersExist
  <2>2. P(n)[n] = p[n]
    BY <1>1, <2>1, PowersAgree
  <2> QED
    BY <1>1, <2>1, <2>2
<1>4. Power(b, n + 1) = b * Power(b, n)
  <2>1. P(n)[n] = P(n + 1)[n]
    BY <1>1, PowersAgree
  <2>2. P(n + 1)[n + 1] = b * P(n + 1)[n]
    <3>1. PICK m \in Nat : m = n + 1
      OBVIOUS
    <3>2. Powers(P(m), b, m) /\ m \in 0..m /\ m # 0 /\ m - 1 = n
      BY <1>1, <3>1
    <3>3. P(m)[m] = b * P(m)[m - 1]
      BY <3>2 DEF Powers
    <3> QED
      BY <3>1, <3>2, <3>3
  <2> QED
    BY <1>1, <2>1, <2>2
<1> QED
  BY <1>2, <1>3, <1>4

LEMMA TwoGrows ==
  ASSUME NEW m \in Nat, NEW n \in Nat, m <= n
  PROVE  Power(2, m) <= Power(2, n) /\ 1 <= Power(2, n)
<1> DEFINE B == {k \in m..n : ~(Power(2, m) <= Power(2, k))}
           C == {k \in 0..n : ~(1 <= Power(2, k))}
<1>1. \A k \in Nat : /\ Power(2, k) \in Nat /\ Power(2, k + 1) = 2 * Power(2, k)
                     /\ Power(2, 0) = 1
  BY PowerIs
<1>2. B = {}
  <2> SUFFICES ASSUME B # {} PROVE FALSE
    OBVIOUS
  <2>1. PICK k \in B : \A j \in B : k <= j
    <3>1. B \in SUBSET Nat
      OBVIOUS
    <3> QED
      BY <3>1, LeastNat
  <2>2. k # m
    BY <1>1, <2>1
  <2>3. PICK j \in m..n : k = j + 1 /\ j \notin B /\ j \in Nat
    <3>1. k - 1 \in m..n /\ k - 1 \notin B
      BY <2>1, <2>2
    <3> QED
      BY <3>1
  <2> QED
    BY <1>1, <2>1, <2>3
<1>3. C = {}
  <2> SUFFICES ASSUME C # {} PROVE FALSE
    OBVIOUS
  <2>1. PICK k \in C : \A j \in C : k <= j
    <3>1. C \in SUBSET Nat
      OBVIOUS
    <3> QED
      BY <3>1, LeastNat
  <2>2. k # 0
    BY <1>1, <2>1
  <2>3. PICK j \in 0..n : k = j + 1 /\ j \notin C /\ j \in Nat
    <3>1. k - 1 \in 0..n /\ k - 1 \notin C
      BY <2>1, <2>2
    <3> QED
      BY <3>1
  <2> QED
    BY <1>1, <2>1, <2>3
<1> QED
  BY <1>2, <1>3

\* The values of a word.
LEMMA WordIs == Power(2, WordBits) \in Nat /\ 16 <= Power(2, WordBits)
<1>1. Power(2, 4) = 16
  <2>1. \A k \in Nat : Power(2, k + 1) = 2 * Power(2, k) /\ Power(2, 0) = 1
    BY PowerIs
  <2>2. Power(2, 1) = 2
    BY <2>1
  <2>3. Power(2, 2) = 4
    BY <2>1, <2>2
  <2>4. Power(2, 3) = 8
    BY <2>1, <2>3
  <2> QED
    BY <2>1, <2>4
<1>2. WordBits \in Nat /\ 4 <= WordBits
  BY WidthsAssumption
<1>3. Power(2, WordBits) \in Nat /\ Power(2, 4) <= Power(2, WordBits)
  BY <1>2, PowerIs, TwoGrows
<1> QED
  BY <1>1, <1>3

-----------------------------------------------------------------------------
(* Sums.                                                                   *)

\* g gives the sum over every subset of D, whichever element is taken first.
Sums(g, h, D) ==
  /\ g \in [SUBSET D -> Nat] /\ g[{}] = 0
  /\ \A S \in SUBSET D : \A x \in S : g[S] = h[x] + g[S \ {x}]

\* What the fold computes, one element after the other.
Folds(g, h, D) ==
  g = [S \in SUBSET D |-> IF S = {} THEN 0
                          ELSE LET x == CHOOSE x \in S : TRUE IN h[x] + g[S \ {x}]]

\* The subsets of a finite set, one element less.
LEMMA OneLess ==
  ASSUME NEW S, IsFiniteSet(S), NEW x \in S
  PROVE  /\ IsFiniteSet(S \ {x}) /\ Cardinality(S) \in Nat
         /\ Cardinality(S \ {x}) \in Nat /\ Cardinality(S \ {x}) < Cardinality(S)
<1>1. IsFiniteSet(S \ {x}) /\ Cardinality(S \ {x}) = Cardinality(S) - 1
  BY FS_RemoveElement
<1> QED
  BY <1>1, FS_CardinalityType

\* The sums exist: a set without them has a smaller one without them.
LEMMA SumsExist ==
  ASSUME NEW D, IsFiniteSet(D), NEW h, \A x \in D : h[x] \in Nat
  PROVE  \E g : Sums(g, h, D)
<1> DEFINE Has(S) == \E g : Sums(g, h, S)
           Bad == {n \in Nat : \E S \in SUBSET D : Cardinality(S) = n /\ ~Has(S)}
<1> SUFFICES ASSUME ~Has(D) PROVE FALSE
  OBVIOUS
<1>1. \A S \in SUBSET D : IsFiniteSet(S) /\ Cardinality(S) \in Nat
  BY FS_Subset, FS_CardinalityType
<1>2. Bad \in SUBSET Nat /\ Bad # {}
  <2>1. Cardinality(D) \in Bad
    BY <1>1
  <2> QED
    BY <2>1
<1>3. PICK n \in Bad : \A y \in Bad : n <= y
  BY <1>2, LeastNat
<1>4. PICK S \in SUBSET D : Cardinality(S) = n /\ ~Has(S)
  BY <1>3
<1>5. CASE S = {}
  <2> DEFINE g == [T \in SUBSET {} |-> 0]
  <2>1. Sums(g, h, {})
    BY DEF Sums
  <2> QED
    BY <1>4, <1>5, <2>1
<1>6. CASE S # {}
  <2>1. PICK a \in S : TRUE
    BY <1>6
  <2> DEFINE R == S \ {a}
  <2>2. Has(R)
    <3>1. Cardinality(R) \in Nat /\ Cardinality(R) < n
      BY <1>1, <1>4, OneLess
    <3>2. Cardinality(R) \notin Bad
      BY <1>3, <3>1
    <3> QED
      BY <3>1, <3>2
  <2>3. PICK f : Sums(f, h, R)
    BY <2>2
  <2> DEFINE g == [T \in SUBSET S |-> IF a \in T THEN h[a] + f[T \ {a}] ELSE f[T]]
  <2>4. \A T \in SUBSET S : T \ {a} \in SUBSET R /\ (a \notin T => T \in SUBSET R)
    OBVIOUS
  <2>5. f \in [SUBSET R -> Nat] /\ h[a] \in Nat
    BY <2>3 DEF Sums
  <2>6. g \in [SUBSET S -> Nat] /\ g[{}] = 0
    BY <2>3, <2>4, <2>5 DEF Sums
  <2>7. ASSUME NEW T \in SUBSET S, NEW x \in T PROVE g[T] = h[x] + g[T \ {x}]
    <3>1. T \ {x} \in SUBSET S /\ h[x] \in Nat
      OBVIOUS
    <3>2. CASE x = a
      BY <2>4, <3>1, <3>2
    <3>3. CASE x # a /\ a \in T
      <4>1. /\ (T \ {a}) \ {x} = (T \ {x}) \ {a} /\ x \in T \ {a} /\ a \in T \ {x}
            /\ (T \ {x}) \ {a} \in SUBSET R
        BY <3>3
      <4>2. f[T \ {a}] = h[x] + f[(T \ {x}) \ {a}]
        <5>1. f[T \ {a}] = h[x] + f[(T \ {a}) \ {x}]
          BY <2>3, <2>4, <4>1, Zenon DEF Sums
        <5> QED
          BY <4>1, <5>1
      <4>3. g[T] = h[a] + f[T \ {a}] /\ g[T \ {x}] = h[a] + f[(T \ {x}) \ {a}]
        BY <3>1, <3>3, <4>1
      <4>4. f[(T \ {x}) \ {a}] \in Nat
        BY <2>5, <4>1
      <4> QED
        BY <2>5, <3>1, <4>2, <4>3, <4>4
    <3>4. CASE a \notin T
      BY <2>3, <2>4, <3>1, <3>4 DEF Sums
    <3> QED
      BY <3>2, <3>3, <3>4
  <2> HIDE DEF g
  <2>8. Sums(g, h, S)
    BY <2>6, <2>7 DEF Sums
  <2> QED
    BY <1>4, <2>8
<1> QED
  BY <1>5, <1>6

\* The fold is one of the sums.
LEMMA FoldIsSum ==
  ASSUME NEW D, IsFiniteSet(D), NEW h, NEW g, Sums(g, h, D), NEW it, Folds(it, h, D)
  PROVE  it[D] = g[D]
<1> DEFINE Bad == {n \in Nat : \E S \in SUBSET D : Cardinality(S) = n /\ it[S] # g[S]}
<1> SUFFICES ASSUME it[D] # g[D] PROVE FALSE
  OBVIOUS
<1>1. \A S \in SUBSET D : IsFiniteSet(S) /\ Cardinality(S) \in Nat
  BY FS_Subset, FS_CardinalityType
<1>2. Bad \in SUBSET Nat /\ Bad # {}
  <2>1. Cardinality(D) \in Bad
    BY <1>1
  <2> QED
    BY <2>1
<1>3. PICK n \in Bad : \A y \in Bad : n <= y
  BY <1>2, LeastNat
<1>4. PICK S \in SUBSET D : Cardinality(S) = n /\ it[S] # g[S]
  BY <1>3
<1>5. S # {}
  BY <1>4 DEF Folds, Sums
<1> DEFINE x == CHOOSE x \in S : TRUE
<1>6. x \in S /\ it[S] = h[x] + it[S \ {x}]
  BY <1>5 DEF Folds
<1> HIDE DEF x
<1>7. it[S \ {x}] = g[S \ {x}]
  <2>1. S \ {x} \in SUBSET D /\ Cardinality(S \ {x}) \in Nat /\ Cardinality(S \ {x}) < n
    BY <1>1, <1>4, <1>6, OneLess
  <2>2. n \in Nat /\ \A y \in Bad : n <= y
    BY <1>3
  <2> HIDE DEF Bad
  <2>3. Cardinality(S \ {x}) \notin Bad
    BY <2>1, <2>2
  <2> USE DEF Bad
  <2> QED
    BY <2>1, <2>3
<1> QED
  BY <1>4, <1>6, <1>7 DEF Sums

\* What the definition of a sum chooses is such a fold.
LEMMA SumsFold ==
  ASSUME NEW D, NEW h, NEW g, Sums(g, h, D)
  PROVE  Folds(g, h, D)
<1>1. \A S \in SUBSET D :
        g[S] = IF S = {} THEN 0
               ELSE LET x == CHOOSE x \in S : TRUE IN h[x] + g[S \ {x}]
  BY DEF Sums
<1>2. g = [S \in SUBSET D |-> g[S]]
  BY DEF Sums
<1> QED
  BY <1>1, <1>2 DEF Folds

\* The two sums of module Numbers.
LEMMA PositionalSum ==
  ASSUME NEW str, NEW base, NEW n \in Nat, DOMAIN str = 1..n, Len(str) = n,
         NEW h, \A k \in 1..n : h[k] = DigitValue[str[k]] * Power(base, n - k),
         NEW g, Sums(g, h, 1..n)
  PROVE  Positional(str, base) = g[1..n] % Power(2, WordBits)
<1> DEFINE F(f) == [S \in SUBSET DOMAIN str |->
                     IF S = {} THEN 0
                     ELSE LET x == CHOOSE x \in S : TRUE
                          IN  DigitValue[str[x]] * Power(base, Len(str) - x) + f[S \ {x}]]
           it == CHOOSE it : it = F(it)
<1>1. ASSUME NEW f PROVE Folds(f, h, 1..n) <=> f = F(f)
  <2> DEFINE x(S) == CHOOSE x \in S : TRUE
  <2>1. ASSUME NEW S \in SUBSET (1..n), S # {}
        PROVE  DigitValue[str[x(S)]] * Power(base, Len(str) - x(S)) = h[x(S)]
    <3>1. x(S) \in S
      BY <2>1
    <3> QED
      BY <3>1
  <2>2. F(f) = [S \in SUBSET (1..n) |-> IF S = {} THEN 0 ELSE h[x(S)] + f[S \ {x(S)}]]
    <3>1. \A S \in SUBSET (1..n) :
            (IF S = {} THEN 0
             ELSE DigitValue[str[x(S)]] * Power(base, Len(str) - x(S)) + f[S \ {x(S)}])
            = IF S = {} THEN 0 ELSE h[x(S)] + f[S \ {x(S)}]
      BY <2>1
    <3> HIDE DEF x
    <3>2. F(f) = [S \in SUBSET (1..n) |->
             IF S = {} THEN 0
             ELSE DigitValue[str[x(S)]] * Power(base, Len(str) - x(S)) + f[S \ {x(S)}]]
      BY Zenon DEF x
    <3> HIDE DEF F
    <3> QED
      BY <3>1, <3>2
  <2> HIDE DEF F
  <2> QED
    BY <2>2 DEF Folds
<1> HIDE DEF F
<1>2. Folds(it, h, 1..n)
  <2>1. g = F(g)
    BY <1>1, SumsFold
  <2>2. it = F(it)
    BY <2>1
  <2> QED
    BY <1>1, <2>2
<1> USE DEF F
<1>3. Positional(str, base) = it[DOMAIN str] % Power(2, WordBits)
  BY Zenon DEF Positional, MapThenSumSet, MapThenFoldSet
<1> HIDE DEF it
<1>4. IsFiniteSet(1..n)
  BY FS_Interval
<1>5. it[1..n] = g[1..n]
  BY <1>2, <1>4, FoldIsSum
<1> QED
  BY <1>3, <1>5

BitSum(bits) == MapThenSumSet(LAMBDA b : Power(2, b), bits)

LEMMA BitSumIs ==
  ASSUME NEW bits, IsFiniteSet(bits), NEW h, \A b \in bits : h[b] = Power(2, b),
         NEW g, Sums(g, h, bits)
  PROVE  BitSum(bits) = g[bits]
<1> DEFINE it == CHOOSE it : it = [S \in SUBSET bits |->
                   IF S = {} THEN 0
                   ELSE LET x == CHOOSE x \in S : TRUE IN Power(2, x) + it[S \ {x}]]
<1>1. \A f : Folds(f, h, bits) <=>
              f = [S \in SUBSET bits |->
                   IF S = {} THEN 0
                   ELSE LET x == CHOOSE x \in S : TRUE IN Power(2, x) + f[S \ {x}]]
  <2>1. ASSUME NEW S \in SUBSET bits, S # {}
        PROVE  h[CHOOSE x \in S : TRUE] = Power(2, CHOOSE x \in S : TRUE)
    <3>1. (CHOOSE x \in S : TRUE) \in S
      BY <2>1
    <3> QED
      BY <3>1
  <2> QED
    BY <2>1 DEF Folds
<1>2. Folds(it, h, bits)
  <2> HIDE DEF it
  <2>1. Folds(g, h, bits)
    BY SumsFold
  <2> DEFINE Is(f) == f = [S \in SUBSET bits |->
                    IF S = {} THEN 0
                    ELSE LET x == CHOOSE x \in S : TRUE IN Power(2, x) + f[S \ {x}]]
  <2>2. \A f : Folds(f, h, bits) <=> Is(f)
    BY <1>1
  <2>3. it = CHOOSE f : Is(f)
    BY DEF it
  <2> HIDE DEF Is
  <2>4. Is(it)
    BY <2>1, <2>2, <2>3
  <2> QED
    BY <2>2, <2>4
<1>3. BitSum(bits) = it[bits]
  BY Zenon DEF BitSum, MapThenSumSet, MapThenFoldSet
<1> HIDE DEF it
<1> QED
  BY <1>2, <1>3, FoldIsSum

-----------------------------------------------------------------------------
(* The values of digits.                                                   *)

LEMMA DigitsAre ==
  /\ \A c \in Hex : DigitValue[c] \in Nat
  /\ \A c \in Decimal : DigitValue[c] < 10
  /\ DigitValue["0"] = 0 /\ DigitValue["1"] = 1
  /\ Decimal \subseteq Hex /\ Octal \subseteq Decimal /\ Binary \subseteq Decimal /\ "." \notin Hex
<1> DEFINE Is(c, v) == IF c \in Decimal THEN v < 10 /\ Digits[v + 1] = c
                       ELSE v >= 10 /\ c \in {Lower[v - 9], Upper[v - 9]}
<1>1. /\ Decimal = {"0", "1", "2", "3", "4", "5", "6", "7", "8", "9"}
      /\ Octal = {"0", "1", "2", "3", "4", "5", "6", "7"}
  <2>1. 1..10 = {1, 2, 3, 4, 5, 6, 7, 8, 9, 10} /\ 1..8 = {1, 2, 3, 4, 5, 6, 7, 8}
    OBVIOUS
  <2> QED
    BY <2>1 DEF Decimal, Octal, Digits
<1>2. {Lower[k] : k \in 1..6} = {"a", "b", "c", "d", "e", "f"}
  <2>1. 1..6 = {1, 2, 3, 4, 5, 6}
    OBVIOUS
  <2> QED
    BY <2>1 DEF Lower
<1>3. {Upper[k] : k \in 1..6} = {"A", "B", "C", "D", "E", "F"}
  <2>1. 1..6 = {1, 2, 3, 4, 5, 6}
    OBVIOUS
  <2> QED
    BY <2>1 DEF Upper
<1>4. ASSUME NEW c \in Hex PROVE DigitValue[c] = CHOOSE v \in 0..15 : Is(c, v)
  BY Zenon DEF DigitValue
<1>5. ASSUME NEW c \in Decimal
      PROVE  DigitValue[c] \in 0..15 /\ DigitValue[c] < 10 /\ Digits[DigitValue[c] + 1] = c
  <2>1. PICK k \in 1..10 : c = Digits[k]
    BY DEF Decimal
  <2>2. k - 1 \in 0..15 /\ k - 1 < 10 /\ (k - 1) + 1 = k
    OBVIOUS
  <2>3. \E v \in 0..15 : Is(c, v)
    <3>1. Is(c, k - 1)
      BY <2>1, <2>2
    <3> QED
      BY <2>2, <3>1
  <2>4. c \in Hex
    BY DEF Hex
  <2>5. PICK u : u = CHOOSE v \in 0..15 : Is(c, v)
    OBVIOUS
  <2>6. u \in 0..15 /\ Is(c, u)
    <3> HIDE DEF Is
    <3> QED
      BY <2>3, <2>5
  <2> QED
    BY <1>4, <2>4, <2>5, <2>6
<1>6. ASSUME NEW c \in Hex, c \notin Decimal PROVE DigitValue[c] \in 0..15
  <2>1. PICK k \in 1..6 : c = Lower[k] \/ c = Upper[k]
    BY <1>6 DEF Hex
  <2>2. k + 9 \in 0..15 /\ k + 9 >= 10 /\ (k + 9) - 9 = k
    OBVIOUS
  <2>3. \E v \in 0..15 : Is(c, v)
    <3>1. Is(c, k + 9)
      BY <1>6, <2>1, <2>2
    <3> QED
      BY <2>2, <3>1
  <2> HIDE DEF Is
  <2> QED
    BY <1>4, <2>3
<1>7. DigitValue["0"] = 0 /\ DigitValue["1"] = 1
  <2>1. "0" \in Decimal /\ "1" \in Decimal
    BY <1>1
  <2>2. ASSUME NEW c \in {"0", "1"}, NEW v \in 0..15, v < 10, Digits[v + 1] = c
        PROVE  v = IF c = "0" THEN 0 ELSE 1
    <3>1. v \in {0, 1, 2, 3, 4, 5, 6, 7, 8, 9}
      BY <2>2
    <3> QED
      BY <2>2, <3>1 DEF Digits
  <2> QED
    BY <1>5, <2>1, <2>2
<1>8. /\ Decimal \subseteq Hex /\ Octal \subseteq Decimal /\ Binary \subseteq Decimal
      /\ "." \notin Hex
  BY <1>1, <1>2, <1>3 DEF Hex, Binary
<1> QED
  BY <1>5, <1>6, <1>7, <1>8

\* v gives the value of the first k characters of str, for each k, in a word
\* that never overflows.
Values(v, str, base, n) ==
  /\ v \in [0..n -> Nat] /\ v[0] = 0
  /\ \A k \in 1..n : v[k] = IF str[k] = "." THEN v[k - 1]
                            ELSE v[k - 1] * base + DigitValue[str[k]]

\* str is n characters, in S.
Written(str, n, S) == Len(str) = n /\ DOMAIN str = 1..n /\ \A k \in 1..n : str[k] \in S

LEMMA ValuesExist ==
  ASSUME NEW str, NEW n \in Nat, NEW base \in Nat, Written(str, n, Hex \cup {"."})
  PROVE  \E v : Values(v, str, base, n)
<1> DEFINE g == [a \in (1..n) \X Nat |-> IF str[a[1]] = "." THEN a[2]
                                         ELSE a[2] * base + DigitValue[str[a[1]]]]
<1>1. \A k \in 1..n : str[k] # "." => DigitValue[str[k]] \in Nat
  BY DigitsAre DEF Written
<1>2. ASSUME NEW k \in 1..n, NEW x \in Nat
      PROVE  g[<<k, x>>] = IF str[k] = "." THEN x ELSE x * base + DigitValue[str[k]]
  OBVIOUS
<1>3. g \in [(1..n) \X Nat -> Nat]
  BY <1>1
<1> HIDE DEF g
<1>4. PICK v \in [0..n -> Nat] : Turns(v, n, 0, g)
  BY <1>3, TurnsExist
<1>5. \A k \in 1..n : v[k - 1] \in Nat
  BY <1>4
<1>6. Values(v, str, base, n)
  BY <1>2, <1>4, <1>5 DEF Values, Turns
<1> QED
  BY <1>6

\* The digits count the powers of the base.
LEMMA PositionalIs ==
  ASSUME NEW str, NEW n \in Nat, NEW base \in Nat, Written(str, n, Hex),
         NEW v, Values(v, str, base, n)
  PROVE  Positional(str, base) = v[n] % Power(2, WordBits)
<1> DEFINE h == [k \in 1..n |-> DigitValue[str[k]] * Power(base, n - k)]
<1>1. \A k \in 1..n : DigitValue[str[k]] \in Nat /\ n - k \in Nat /\ str[k] # "."
  BY DigitsAre DEF Written
<1>2. \A k \in 1..n : Power(base, n - k) \in Nat
  BY <1>1, PowerIs
<1>3. \A k \in 1..n : h[k] \in Nat /\ h[k] = DigitValue[str[k]] * Power(base, n - k)
  BY <1>1, <1>2
<1> HIDE DEF h
<1>4. PICK g : Sums(g, h, 1..n)
  <2>1. IsFiniteSet(1..n)
    BY FS_Interval
  <2>2. \A k \in 1..n : h[k] \in Nat
    BY <1>3
  <2> QED
    BY <2>1, <2>2, SumsExist
<1>5. Positional(str, base) = g[1..n] % Power(2, WordBits)
  <2>1. DOMAIN str = 1..n /\ Len(str) = n
    BY DEF Written
  <2>2. \A k \in 1..n : h[k] = DigitValue[str[k]] * Power(base, n - k)
    BY <1>3
  <2> QED
    BY <1>4, <2>1, <2>2, PositionalSum
<1> DEFINE B == {k \in 0..n : g[1..k] # v[k] * Power(base, n - k)}
<1>6. B = {}
  <2> SUFFICES ASSUME B # {} PROVE FALSE
    OBVIOUS
  <2>1. PICK k \in B : \A j \in B : k <= j
    <3>1. B \in SUBSET Nat
      OBVIOUS
    <3> QED
      BY <3>1, LeastNat
  <2>2. k # 0
    <3>1. 1..0 = {} /\ n - 0 = n /\ Power(base, n) \in Nat
      BY PowerIs
    <3>2. g[1..0] = 0 /\ v[0] = 0
      BY <1>4, <3>1 DEF Sums, Values
    <3> QED
      BY <2>1, <3>1, <3>2
  <2>3. PICK j \in 0..n : k = j + 1 /\ j \notin B /\ k \in 1..n
    <3>1. k - 1 \in 0..n /\ k - 1 \notin B
      BY <2>1, <2>2
    <3> QED
      BY <2>2, <3>1
  <2>4. g[1..j] = v[j] * Power(base, n - j)
    BY <2>3
  <2>5. g[1..k] = h[k] + g[1..j]
    <3>1. 1..k \in SUBSET (1..n) /\ k \in 1..k /\ (1..k) \ {k} = 1..j
      BY <2>3
    <3>2. g[1..k] = h[k] + g[(1..k) \ {k}]
      BY <1>4, <3>1, Zenon DEF Sums
    <3> QED
      BY <3>1, <3>2
  <2>6. PICK d \in Nat, p \in Nat, x \in Nat :
          d = DigitValue[str[k]] /\ p = Power(base, n - k) /\ x = v[j]
    BY <1>1, <1>2, <2>3 DEF Values
  <2>7. Power(base, n - j) = base * p
    <3>1. PICK m \in Nat : m = n - k /\ n - j = m + 1
      BY <2>3
    <3>2. Power(base, m + 1) = base * Power(base, m)
      BY PowerIs
    <3> QED
      BY <2>6, <3>1, <3>2
  <2>8. v[k] = x * base + d
    <3>1. k - 1 = j /\ str[k] # "."
      BY <1>1, <2>3
    <3>2. v[k] = IF str[k] = "." THEN v[k - 1] ELSE v[k - 1] * base + DigitValue[str[k]]
      BY <2>3 DEF Values
    <3> QED
      BY <2>6, <3>1, <3>2
  <2>9. h[k] = d * p
    BY <1>3, <2>3, <2>6
  <2>10. d * p + x * (base * p) = (x * base + d) * p
    OBVIOUS
  <2> QED
    BY <2>1, <2>4, <2>5, <2>6, <2>7, <2>8, <2>9, <2>10
<1>7. g[1..n] = v[n]
  <2>1. g[1..n] = v[n] * Power(base, n - n) /\ n - n = 0 /\ v[n] \in Nat
    BY <1>6 DEF Values
  <2>2. Power(base, 0) = 1
    BY PowerIs
  <2> QED
    BY <2>1, <2>2
<1> QED
  BY <1>5, <1>7

\* The loop of the code.
Horners(h, str, base) ==
  h = [k \in 0..Len(str) |->
        IF k = 0 THEN 0
        ELSE IF str[k] = "." THEN h[k - 1]
        ELSE (h[k - 1] * base + DigitValue[str[k]]) % Power(2, WordBits)]

LEMMA HornerIs ==
  ASSUME NEW str, NEW n \in Nat, NEW base \in Nat, Written(str, n, Hex \cup {"."}),
         NEW v, Values(v, str, base, n)
  PROVE  Horner(str, base) = v[n] % Power(2, WordBits)
<1>1. PICK M \in Nat \ {0} : M = Power(2, WordBits) /\ 0 < M
  BY WordIs
<1>2. Len(str) = n /\ \A k \in 1..n : str[k] # "." => DigitValue[str[k]] \in Nat
  BY DigitsAre DEF Written
<1>3. \A k \in 0..n : v[k] \in Nat
  BY DEF Values
<1> DEFINE r == [k \in 0..n |-> v[k] % M]
<1>4. Horners(r, str, base)
  <2>1. ASSUME NEW k \in 0..n
        PROVE  r[k] = IF k = 0 THEN 0
                      ELSE IF str[k] = "." THEN r[k - 1]
                      ELSE (r[k - 1] * base + DigitValue[str[k]]) % M
    <3>1. CASE k = 0
      <4>1. v[0] = 0 /\ 0 % M = 0
        BY <1>1, ModSmall DEF Values
      <4> QED
        BY <3>1, <4>1
    <3>2. CASE k # 0 /\ str[k] = "."
      BY <3>2 DEF Values
    <3>3. CASE k # 0 /\ str[k] # "."
      <4>1. PICK x \in Nat, d \in Nat : x = v[k - 1] /\ d = DigitValue[str[k]] /\ k - 1 \in 0..n
        BY <1>2, <1>3, <3>3
      <4>2. v[k] = x * base + d
        BY <3>3, <4>1 DEF Values
      <4>3. ((x % M) * base + d) % M = (x * base + d) % M
        <5>1. Reduced(M, x, base, d)
          BY ModStep
        <5> QED
          BY <5>1 DEF Reduced
      <4> QED
        BY <3>3, <4>1, <4>2, <4>3
    <3> QED
      BY <3>1, <3>2, <3>3
  <2>2. r = [k \in 0..n |-> r[k]]
    OBVIOUS
  <2> HIDE DEF r
  <2> QED
    BY <1>1, <1>2, <2>1, <2>2 DEF Horners
<1> DEFINE h == CHOOSE h : Horners(h, str, base)
<1>5. Horners(h, str, base)
  <2> HIDE DEF r
  <2> QED
    BY <1>4
<1>6. Horner(str, base) = h[n]
  BY <1>2, Zenon DEF Horner, Horners
<1> HIDE DEF h
<1> DEFINE B == {k \in 0..n : h[k] # r[k]}
<1>7. B = {}
  <2> HIDE DEF r
  <2> SUFFICES ASSUME B # {} PROVE FALSE
    OBVIOUS
  <2>1. PICK k \in B : \A j \in B : k <= j
    <3>1. B \in SUBSET Nat
      OBVIOUS
    <3> QED
      BY <3>1, LeastNat
  <2>2. /\ \A j \in 0..n : h[j] = IF j = 0 THEN 0
                                  ELSE IF str[j] = "." THEN h[j - 1]
                                  ELSE (h[j - 1] * base + DigitValue[str[j]]) % M
        /\ \A j \in 0..n : r[j] = IF j = 0 THEN 0
                                  ELSE IF str[j] = "." THEN r[j - 1]
                                  ELSE (r[j - 1] * base + DigitValue[str[j]]) % M
    BY <1>1, <1>2, <1>4, <1>5 DEF Horners
  <2>3. k # 0
    BY <2>1, <2>2
  <2>4. k - 1 \in 0..n /\ k - 1 \notin B
    BY <2>1, <2>3
  <2>5. h[k - 1] = r[k - 1]
    BY <2>4
  <2>6. k \in 0..n /\ h[k] # r[k]
    BY <2>1
  <2> HIDE DEF B
  <2>7. /\ h[k] = IF str[k] = "." THEN h[k - 1]
                  ELSE (h[k - 1] * base + DigitValue[str[k]]) % M
        /\ r[k] = IF str[k] = "." THEN r[k - 1]
                  ELSE (r[k - 1] * base + DigitValue[str[k]]) % M
    BY <2>2, <2>3, <2>6
  <2> QED
    BY <2>5, <2>6, <2>7
<1>8. h[n] = r[n]
  <2>1. n \in 0..n
    OBVIOUS
  <2> HIDE DEF r
  <2> QED
    BY <1>7, <2>1
<1> QED
  BY <1>1, <1>6, <1>8

\* The loops of hexadecimal, octal and decimal literals.
LEMMA HornerMeans ==
  ASSUME NEW str, NEW n \in Nat, NEW base \in Nat, Written(str, n, Hex)
  PROVE  Horner(str, base) = Positional(str, base)
<1>1. Written(str, n, Hex \cup {"."})
  BY DEF Written
<1>2. PICK v : Values(v, str, base, n)
  BY <1>1, ValuesExist
<1> QED
  BY <1>1, <1>2, HornerIs, PositionalIs

\* The digits before and behind the one dot.
LEMMA DotMeans ==
  ASSUME NEW str, NEW n \in Nat, NEW base \in Nat, Written(str, n, Hex \cup {"."}),
         NEW d \in 1..n, str[d] = ".", \A k \in 1..n : k # d => str[k] # ".",
         NEW t, Written(t, n - 1, Hex),
         \A k \in 1..n - 1 : t[k] = IF k < d THEN str[k] ELSE str[k + 1]
  PROVE  Horner(str, base) = Positional(t, base)
<1>1. PICK m \in Nat : m = n - 1
  <2>1. n - 1 \in Nat
    OBVIOUS
  <2> QED
    BY <2>1
<1>2. Written(t, m, Hex) /\ Written(t, m, Hex \cup {"."})
  BY <1>1 DEF Written
<1>3. PICK w : Values(w, t, base, m)
  BY <1>2, ValuesExist
<1> DEFINE v == [k \in 0..n |-> IF k < d THEN w[k] ELSE w[k - 1]]
<1>4. \A k \in 1..m : t[k] # "."
  BY <1>2, DigitsAre DEF Written
<1>5. Values(v, str, base, n)
  <2>1. w \in [0..m -> Nat] /\ w[0] = 0
    BY <1>3 DEF Values
  <2>2. \A k \in 0..n : (k < d => k \in 0..m) /\ (~(k < d) => k - 1 \in 0..m)
    BY <1>1
  <2>3. v \in [0..n -> Nat] /\ v[0] = 0
    <3>1. \A k \in 0..n : (IF k < d THEN w[k] ELSE w[k - 1]) \in Nat
      BY <2>1, <2>2
    <3> QED
      BY <2>1, <3>1
  <2>4. ASSUME NEW k \in 1..m
        PROVE  w[k] = w[k - 1] * base + DigitValue[t[k]]
    BY <1>3, <1>4, <2>4 DEF Values
  <2>5. ASSUME NEW k \in 1..n
        PROVE  v[k] = IF str[k] = "." THEN v[k - 1]
                      ELSE v[k - 1] * base + DigitValue[str[k]]
    <3>1. CASE k < d
      <4>1. k \in 1..m /\ k # d /\ t[k] = str[k] /\ v[k] = w[k] /\ v[k - 1] = w[k - 1]
        BY <1>1, <3>1
      <4> QED
        BY <2>4, <4>1
    <3>2. CASE k = d
      <4>1. v[k] = w[k - 1] /\ v[k - 1] = w[k - 1]
        BY <3>2
      <4> QED
        BY <3>2, <4>1
    <3>3. CASE k > d
      <4>1. PICK j \in 1..m : j = k - 1
        BY <1>1, <3>3
      <4>2. k # d /\ t[j] = str[k] /\ v[k] = w[j] /\ v[k - 1] = w[j - 1]
        BY <1>1, <3>3, <4>1
      <4> QED
        BY <2>4, <4>1, <4>2
    <3> QED
      BY <3>1, <3>2, <3>3
  <2> HIDE DEF v
  <2> QED
    BY <2>3, <2>5 DEF Values
<1>6. v[n] = w[m]
  BY <1>1
<1> HIDE DEF v
<1>7. Horner(str, base) = v[n] % Power(2, WordBits)
  BY <1>5, HornerIs
<1>8. Positional(t, base) = w[m] % Power(2, WordBits)
  BY <1>2, <1>3, PositionalIs
<1> QED
  BY <1>6, <1>7, <1>8

\* The places of the ones among the first k of n digits.
Ones(str, n, k) == {n - j : j \in {j \in 1..k : str[j] = "1"}}

\* As long as no shift reaches the sign bit of an int.
LEMMA BitsMean ==
  ASSUME NEW str, NEW n \in Nat, Written(str, n, Binary), n < IntBits
  PROVE  bin2int(str) = Positional(str, 2)
<1>1. /\ \A k \in 1..n : str[k] = "0" \/ str[k] = "1"
      /\ DOMAIN str = 1..n /\ Len(str) = n
  BY DEF Written, Binary
<1>2. Written(str, n, Hex) /\ Written(str, n, Hex \cup {"."})
  BY DigitsAre DEF Written
<1>3. PICK v : Values(v, str, 2, n)
  BY <1>2, ValuesExist
<1>4. IntBits \in Nat /\ WordBits \in Nat /\ IntBits <= WordBits
  BY WidthsAssumption
<1>5. bin2int(str) = BitSum(Ones(str, n, n))
  <2> DEFINE K == {k \in DOMAIN str : str[k] = "1"}
             shifted(d) == IF d % IntBits = IntBits - 1 THEN (IntBits - 1)..(WordBits - 1)
                           ELSE {d % IntBits}
  <2>1. \A k \in K : shifted(Len(str) - k) = {n - k}
    <3> SUFFICES ASSUME NEW k \in K PROVE shifted(Len(str) - k) = {n - k}
      OBVIOUS
    <3>1. PICK d \in Nat : d = n - k /\ d < IntBits - 1 /\ IntBits \in Nat \ {0}
      <4>1. n - k \in Nat /\ n - k < IntBits - 1
        BY <1>1, <1>4
      <4> QED
        BY <1>4, <4>1, WidthsAssumption
    <3>2. d % IntBits = d
      BY <3>1, ModSmall
    <3>3. d # IntBits - 1 /\ Len(str) - k = d
      BY <1>1, <3>1
    <3> QED
      BY <3>1, <3>2, <3>3
  <2>2. {shifted(Len(str) - k) : k \in K} = {{n - k} : k \in K}
    <3> HIDE DEF K, shifted
    <3> QED
      BY <2>1
  <2>3. UNION {{n - k} : k \in K} = Ones(str, n, n)
    BY <1>1 DEF Ones
  <2>4. bin2int(str) = BitSum(UNION {shifted(Len(str) - k) : k \in K})
    BY Zenon DEF bin2int, BitSum
  <2> HIDE DEF K, shifted
  <2> QED
    BY <2>2, <2>3, <2>4
<1> DEFINE D == Ones(str, n, n)
           h == [b \in D |-> Power(2, b)]
<1>6. D \subseteq 0..n /\ IsFiniteSet(D)
  <2>1. D \subseteq 0..n
    BY DEF Ones
  <2>2. IsFiniteSet(0..n)
    BY FS_Interval
  <2> QED
    BY <2>1, <2>2, FS_Subset
<1>7. \A b \in D : b \in Nat /\ h[b] = Power(2, b) /\ h[b] \in Nat
  <2>1. \A b \in D : b \in Nat
    BY <1>6
  <2> HIDE DEF D
  <2> QED
    BY <2>1, PowerIs
<1> HIDE DEF h
<1>8. PICK g : Sums(g, h, D)
  BY <1>6, <1>7, SumsExist
<1>9. BitSum(D) = g[D]
  BY <1>6, <1>7, <1>8, BitSumIs
<1> DEFINE Bad == {k \in 0..n : ~(/\ g[Ones(str, n, k)] = v[k] * Power(2, n - k)
                                  /\ v[k] + 1 <= Power(2, k))}
<1>10. \A k \in Nat : Power(2, k) \in Nat /\ Power(2, k + 1) = 2 * Power(2, k) /\ Power(2, 0) = 1
  BY PowerIs
<1>11. v \in [0..n -> Nat] /\ v[0] = 0
  BY <1>3 DEF Values
<1>12. Bad = {}
  <2> SUFFICES ASSUME Bad # {} PROVE FALSE
    OBVIOUS
  <2>1. PICK k \in Bad : \A j \in Bad : k <= j
    <3>1. Bad \in SUBSET Nat
      OBVIOUS
    <3> QED
      BY <3>1, LeastNat
  <2>2. k # 0
    <3>1. Ones(str, n, 0) = {} /\ n - 0 = n
      BY DEF Ones
    <3>2. g[{}] = 0
      BY <1>8 DEF Sums
    <3>3. Power(2, n) \in Nat /\ Power(2, 0) = 1
      BY <1>10
    <3>4. PICK p \in Nat : p = Power(2, n - 0)
      BY <3>1, <3>3
    <3>5. g[Ones(str, n, 0)] = v[0] * p /\ v[0] + 1 <= Power(2, 0)
      <4>1. g[Ones(str, n, 0)] = 0 /\ v[0] = 0 /\ Power(2, 0) = 1
        BY <1>11, <3>1, <3>2, <3>3
      <4>2. 0 * p = 0 /\ 0 + 1 <= 1
        OBVIOUS
      <4> QED
        BY <4>1, <4>2
    <3>6. 0 \notin Bad
      BY <3>4, <3>5
    <3> HIDE DEF Bad
    <3> QED
      BY <2>1, <3>6
  <2>3. PICK j \in 0..n : k = j + 1 /\ j \notin Bad /\ k \in 1..n /\ k - 1 = j
    <3>1. k - 1 \in 0..n /\ k - 1 \notin Bad
      BY <2>1, <2>2
    <3> QED
      BY <2>2, <3>1
  <2>4. PICK x \in Nat, p \in Nat, r \in Nat :
          x = v[j] /\ p = Power(2, n - k) /\ r = Power(2, j)
    <3>1. n - k \in Nat /\ j \in Nat /\ j \in 0..n
      BY <2>3
    <3>2. v[j] \in Nat /\ Power(2, n - k) \in Nat /\ Power(2, j) \in Nat
      BY <1>10, <1>11, <3>1
    <3> HIDE DEF Bad
    <3> QED
      BY <3>2
  <2>5. Power(2, n - j) = 2 * p /\ Power(2, k) = 2 * r
    <3>1. PICK m \in Nat : m = n - k /\ n - j = m + 1
      BY <2>3
    <3> QED
      BY <1>10, <2>3, <2>4, <3>1
  <2>6. g[Ones(str, n, j)] = x * (2 * p) /\ x + 1 <= r
    BY <2>3, <2>4, <2>5
  <2>7. v[k] = x * 2 + (IF str[k] = "1" THEN 1 ELSE 0)
    <3>1. v[k] = x * 2 + DigitValue[str[k]]
      <4>1. v[k] = IF str[k] = "." THEN v[k - 1] ELSE v[k - 1] * 2 + DigitValue[str[k]]
        BY <1>3, <2>3 DEF Values
      <4> QED
        BY <1>1, <2>3, <2>4, <4>1
    <3>2. DigitValue["0"] = 0 /\ DigitValue["1"] = 1
      BY DigitsAre
    <3> QED
      BY <1>1, <2>3, <3>1, <3>2
  <2>8. v[k] + 1 <= Power(2, k)
    BY <2>5, <2>6, <2>7
  <2>9. g[Ones(str, n, k)] = v[k] * p
    <3>1. CASE str[k] = "1"
      <4>1. /\ Ones(str, n, k) \in SUBSET D /\ n - k \in Ones(str, n, k)
            /\ Ones(str, n, k) \ {n - k} = Ones(str, n, j)
        BY <2>3, <3>1 DEF Ones
      <4>2. g[Ones(str, n, k)] = h[n - k] + g[Ones(str, n, k) \ {n - k}]
        BY <1>8, <4>1, Zenon DEF Sums
      <4>3. h[n - k] = p
        BY <1>7, <2>4, <4>1
      <4>4. (x * 2 + 1) * p = p + x * (2 * p)
        OBVIOUS
      <4> QED
        BY <2>6, <2>7, <3>1, <4>1, <4>2, <4>3, <4>4
    <3>2. CASE str[k] # "1"
      <4>1. Ones(str, n, k) = Ones(str, n, j)
        BY <2>3, <3>2 DEF Ones
      <4>2. (x * 2) * p = x * (2 * p)
        OBVIOUS
      <4> QED
        BY <2>6, <2>7, <3>2, <4>1, <4>2
    <3> QED
      BY <3>1, <3>2
  <2> QED
    BY <2>1, <2>4, <2>8, <2>9
<1>13. g[D] = v[n] * Power(2, 0) /\ v[n] + 1 <= Power(2, n) /\ v[n] \in Nat
  <2>1. n \in 0..n /\ n - n = 0 /\ n \notin Bad
    BY <1>12
  <2> QED
    BY <1>11, <2>1
<1>14. Power(2, n) <= Power(2, WordBits) /\ Power(2, WordBits) \in Nat /\ Power(2, n) \in Nat
  <2>1. n <= WordBits
    BY <1>4
  <2>2. Power(2, n) <= Power(2, WordBits)
    BY <1>4, <2>1, TwoGrows
  <2> QED
    BY <1>4, <1>10, <2>2
<1>15. PICK M \in Nat \ {0} : M = Power(2, WordBits) /\ v[n] < M
  BY <1>13, <1>14, WordIs
<1>16. v[n] % M = v[n]
  BY <1>13, <1>15, ModSmall
<1>17. Positional(str, 2) = v[n] % M
  BY <1>2, <1>3, <1>15, PositionalIs
<1>18. g[D] = v[n]
  BY <1>10, <1>13
<1> QED
  BY <1>5, <1>9, <1>16, <1>17, <1>18

-----------------------------------------------------------------------------
(* The texts of numbers.                                                   *)

\* A text of n characters.
Spelled(str, n) == DOMAIN str = 1..n /\ Len(str) = n /\ \E C : str \in Seq(C)

LEMMA FromIs ==
  ASSUME NEW str, NEW n \in Nat, Spelled(str, n), NEW k \in 1..n + 1
  PROVE  /\ Spelled(From(str, k), n - k + 1)
         /\ \A j \in 1..n - k + 1 : From(str, k)[j] = str[k + j - 1]
         /\ \A S : All(From(str, k), S) <=> \A j \in k..n : str[j] \in S
<1>1. PICK C : str \in Seq(C)
  BY DEF Spelled
<1>2. PICK m \in Nat : m = n - k + 1
  <2>1. n - k + 1 \in Nat
    OBVIOUS
  <2> QED
    BY <2>1
<1>3. PICK r : r = SubSeq(str, k, n)
  OBVIOUS
<1>4. Len(str) = n /\ \A j \in k..n : str[j] \in C
  BY <1>1 DEF Spelled
<1>5. /\ r \in Seq(C) /\ Len(r) = IF k <= n THEN n - k + 1 ELSE 0
      /\ \A j \in 1..n - k + 1 : r[j] = str[k + j - 1]
  BY <1>3, <1>4, SubSeqProperties
<1>6. Len(r) = m /\ DOMAIN r = 1..m
  <2>1. Len(r) = m
    BY <1>2, <1>5
  <2> QED
    BY <1>5, <2>1, LenProperties
<1>7. From(str, k) = r
  BY <1>3, <1>4 DEF From
<1>8. ASSUME NEW S PROVE All(r, S) <=> \A j \in k..n : str[j] \in S
  <2>1. ASSUME All(r, S), NEW j \in k..n PROVE str[j] \in S
    <3>1. PICK u \in 1..m : u = j - k + 1 /\ k + u - 1 = j
      BY <1>2
    <3> QED
      BY <1>2, <1>5, <1>6, <2>1, <3>1 DEF All
  <2>2. ASSUME \A j \in k..n : str[j] \in S, NEW u \in 1..m PROVE r[u] \in S
    <3>1. PICK j \in k..n : j = k + u - 1
      BY <1>2
    <3> QED
      BY <1>2, <1>5, <2>2, <3>1
  <2> QED
    BY <1>6, <2>1, <2>2 DEF All
<1> QED
  BY <1>2, <1>5, <1>6, <1>7, <1>8 DEF Spelled

\* Two texts, one behind the other.
Behind(w, h, k, t, m) == \A j \in 1..m : w[j] = IF j <= k THEN h[j] ELSE t[j - k]

LEMMA Joined ==
  ASSUME NEW h, NEW k \in Nat, Spelled(h, k), NEW t, NEW l \in Nat, Spelled(t, l),
         NEW m \in Nat, m = k + l, NEW w, w = h \o t
  PROVE  Spelled(w, m) /\ Behind(w, h, k, t, m)
<1>1. PICK B, C : h \in Seq(B) /\ t \in Seq(C) /\ Len(h) = k /\ Len(t) = l
  BY DEF Spelled
<1>2. PICK E : E = B \cup C
  OBVIOUS
<1>3. h \in Seq(E) /\ t \in Seq(E)
  <2>1. h \in [1..k -> B] /\ t \in [1..l -> C]
    BY <1>1, LenProperties
  <2>2. h \in [1..k -> E] /\ t \in [1..l -> E]
    BY <1>2, <2>1
  <2> QED
    BY <2>2
<1>4. /\ w \in Seq(E) /\ Len(w) = m
      /\ \A j \in 1..m : w[j] = IF j <= k THEN h[j] ELSE t[j - k]
  BY <1>1, <1>3, ConcatProperties
<1>5. DOMAIN w = 1..m
  BY <1>4, LenProperties
<1> QED
  BY <1>4, <1>5 DEF Spelled, Behind

\* A prefix of two characters, and one of one.
LEMMA PrefixTwo ==
  ASSUME NEW str, NEW n \in Nat, n > 1, Spelled(str, n), NEW a, NEW b, NEW S
  PROVE  Prefixed(str, S, {<<"0", a>>, <<"0", b>>}) =
           IF str[1] = "0" /\ str[2] \in {a, b} /\ \A j \in 3..n : str[j] \in S
             THEN {From(str, 3)} ELSE {}
<1>1. PICK m \in Nat : m = n - 2
  <2>1. n - 2 \in Nat
    OBVIOUS
  <2> QED
    BY <2>1
<1>2. PICK r, r2 : r = From(str, 3) /\ r2 = From(str, 2)
  OBVIOUS
<1>3. /\ 2 \in 1..n + 1 /\ 3 \in 1..n + 1 /\ n - 3 + 1 = m /\ n - 2 + 1 = m + 1
  BY <1>1
<1>4. /\ Spelled(r, m) /\ \A j \in 1..m : r[j] = str[3 + j - 1]
      /\ All(r, S) <=> \A j \in 3..n : str[j] \in S
  BY <1>2, <1>3, FromIs
<1>5. Spelled(r2, m + 1)
  BY <1>2, <1>3, FromIs
<1>6. ASSUME NEW c, NEW t, NEW l \in Nat, Spelled(t, l)
      PROVE  /\ Len(<<"0", c>> \o t) = l + 2
             /\ (<<"0", c>> \o t)[1] = "0" /\ (<<"0", c>> \o t)[2] = c
             /\ \A j \in 3..l + 2 : (<<"0", c>> \o t)[j] = t[j - 2]
             /\ \E C : <<"0", c>> \o t \in Seq(C)
  <2>1. PICK h : h = <<"0", c>>
    OBVIOUS
  <2>2. Spelled(h, 2) /\ h[1] = "0" /\ h[2] = c
    <3>1. h \in Seq({"0", c}) /\ Len(h) = 2 /\ DOMAIN h = 1..2
      BY <2>1
    <3> QED
      BY <2>1, <3>1 DEF Spelled
  <2>3. PICK w : w = h \o t
    OBVIOUS
  <2>4. Spelled(w, 2 + l) /\ \A j \in 1..2 + l : w[j] = IF j <= 2 THEN h[j] ELSE t[j - 2]
    <3>1. PICK k \in Nat, q \in Nat : k = 2 /\ q = k + l
      OBVIOUS
    <3>2. Spelled(h, k)
      BY <2>2, <3>1
    <3>3. Spelled(w, q) /\ Behind(w, h, k, t, q)
      BY <1>6, <2>3, <3>1, <3>2, Joined
    <3> QED
      BY <3>1, <3>3 DEF Behind
  <2>5. Len(w) = l + 2 /\ w[1] = "0" /\ w[2] = c /\ \A j \in 3..l + 2 : w[j] = t[j - 2]
    BY <2>2, <2>4 DEF Spelled
  <2> QED
    BY <2>1, <2>3, <2>4, <2>5 DEF Spelled
<1>7. ASSUME NEW c PROVE str = <<"0", c>> \o r <=> str[1] = "0" /\ str[2] = c
  <2>1. PICK w : w = <<"0", c>> \o r
    OBVIOUS
  <2>2. /\ Len(w) = m + 2 /\ w[1] = "0" /\ w[2] = c
        /\ \A j \in 3..m + 2 : w[j] = r[j - 2]
        /\ \E C : w \in Seq(C)
    BY <1>4, <1>6, <2>1
  <2>3. m + 2 = n /\ \A j \in 3..n : w[j] = str[j]
    <3>1. ASSUME NEW j \in 3..n PROVE w[j] = str[j]
      <4>1. PICK u \in 1..m : u = j - 2 /\ 3 + u - 1 = j
        BY <1>1
      <4> QED
        BY <1>1, <1>4, <2>2, <4>1
    <3> QED
      BY <1>1, <3>1
  <2>4. ASSUME str[1] = "0", str[2] = c PROVE str = w
    <3>1. \A j \in 1..n : str[j] = w[j]
      <4>1. \A j \in 1..n : j = 1 \/ j = 2 \/ j \in 3..n
        OBVIOUS
      <4> QED
        BY <2>2, <2>3, <2>4, <4>1
    <3>2. DOMAIN w = 1..n /\ w = [j \in 1..n |-> w[j]]
      BY <2>2, <2>3, LenProperties
    <3>3. str = [j \in 1..n |-> str[j]]
      BY LenProperties DEF Spelled
    <3> QED
      BY <3>1, <3>2, <3>3
  <2> QED
    BY <2>1, <2>2, <2>4
<1>8. ASSUME NEW c PROVE str # <<"0", c>> \o r2
  <2>1. Len(<<"0", c>> \o r2) = (m + 1) + 2
    <3>1. PICK l \in Nat : l = m + 1
      OBVIOUS
    <3>2. Spelled(r2, l)
      BY <1>5, <3>1
    <3>3. Len(<<"0", c>> \o r2) = l + 2
      BY <1>6, <3>2
    <3> QED
      BY <3>1, <3>3
  <2>2. Len(str) = n
    BY DEF Spelled
  <2> QED
    BY <1>1, <2>1, <2>2
<1>9. {From(str, k) : k \in 2..3} = {r2, r}
  BY <1>2
<1>10. Prefixed(str, S, {<<"0", a>>, <<"0", b>>}) =
         {rest \in {r2, r} : (str = <<"0", a>> \o rest \/ str = <<"0", b>> \o rest) /\ All(rest, S)}
  BY <1>9 DEF Prefixed
<1> QED
  BY <1>2, <1>4, <1>7, <1>8, <1>10

LEMMA PrefixOne ==
  ASSUME NEW str, NEW n \in Nat, n > 1, Spelled(str, n), NEW S
  PROVE  Prefixed(str, S, {<<"0">>}) =
           IF str[1] = "0" /\ \A j \in 2..n : str[j] \in S THEN {From(str, 2)} ELSE {}
<1>1. PICK m \in Nat : m = n - 2
  <2>1. n - 2 \in Nat
    OBVIOUS
  <2> QED
    BY <2>1
<1>2. PICK r3, r : r3 = From(str, 3) /\ r = From(str, 2)
  OBVIOUS
<1>3. /\ 2 \in 1..n + 1 /\ 3 \in 1..n + 1 /\ n - 3 + 1 = m /\ n - 2 + 1 = m + 1
  BY <1>1
<1>4. /\ Spelled(r, m + 1) /\ \A j \in 1..m + 1 : r[j] = str[2 + j - 1]
      /\ All(r, S) <=> \A j \in 2..n : str[j] \in S
  BY <1>2, <1>3, FromIs
<1>5. Spelled(r3, m)
  BY <1>2, <1>3, FromIs
<1>6. ASSUME NEW t, NEW l \in Nat, Spelled(t, l)
      PROVE  /\ Len(<<"0">> \o t) = l + 1
             /\ (<<"0">> \o t)[1] = "0"
             /\ \A j \in 2..l + 1 : (<<"0">> \o t)[j] = t[j - 1]
             /\ \E C : <<"0">> \o t \in Seq(C)
  <2>1. PICK h : h = <<"0">>
    OBVIOUS
  <2>2. Spelled(h, 1) /\ h[1] = "0"
    <3>1. h \in Seq({"0"}) /\ Len(h) = 1 /\ DOMAIN h = 1..1
      BY <2>1
    <3> QED
      BY <2>1, <3>1 DEF Spelled
  <2>3. PICK w : w = h \o t
    OBVIOUS
  <2>4. Spelled(w, 1 + l) /\ \A j \in 1..1 + l : w[j] = IF j <= 1 THEN h[j] ELSE t[j - 1]
    <3>1. PICK k \in Nat, q \in Nat : k = 1 /\ q = k + l
      OBVIOUS
    <3>2. Spelled(h, k)
      BY <2>2, <3>1
    <3>3. Spelled(w, q) /\ Behind(w, h, k, t, q)
      BY <1>6, <2>3, <3>1, <3>2, Joined
    <3> QED
      BY <3>1, <3>3 DEF Behind
  <2>5. Len(w) = l + 1 /\ w[1] = "0" /\ \A j \in 2..l + 1 : w[j] = t[j - 1]
    BY <2>2, <2>4 DEF Spelled
  <2> QED
    BY <2>1, <2>3, <2>4, <2>5 DEF Spelled
<1>7. str = <<"0">> \o r <=> str[1] = "0"
  <2>1. PICK w : w = <<"0">> \o r
    OBVIOUS
  <2>2. /\ Len(w) = (m + 1) + 1 /\ w[1] = "0"
        /\ \A j \in 2..(m + 1) + 1 : w[j] = r[j - 1]
        /\ \E C : w \in Seq(C)
    BY <1>1, <1>4, <1>6, <2>1
  <2>3. (m + 1) + 1 = n /\ \A j \in 2..n : w[j] = str[j]
    <3>1. ASSUME NEW j \in 2..n PROVE w[j] = str[j]
      <4>1. PICK u \in 1..m + 1 : u = j - 1 /\ 2 + u - 1 = j
        BY <1>1
      <4> QED
        BY <1>1, <1>4, <2>2, <4>1
    <3> QED
      BY <1>1, <3>1
  <2>4. ASSUME str[1] = "0" PROVE str = w
    <3>1. \A j \in 1..n : str[j] = w[j]
      <4>1. \A j \in 1..n : j = 1 \/ j \in 2..n
        OBVIOUS
      <4> QED
        BY <2>2, <2>3, <2>4, <4>1
    <3>2. DOMAIN w = 1..n /\ w = [j \in 1..n |-> w[j]]
      BY <2>2, <2>3, LenProperties
    <3>3. str = [j \in 1..n |-> str[j]]
      BY LenProperties DEF Spelled
    <3> QED
      BY <3>1, <3>2, <3>3
  <2> QED
    BY <2>1, <2>2, <2>4
<1>8. str # <<"0">> \o r3
  <2>1. Len(<<"0">> \o r3) = m + 1
    BY <1>5, <1>6
  <2>2. Len(str) = n
    BY DEF Spelled
  <2> QED
    BY <1>1, <2>1, <2>2
<1>9. {From(str, k) : k \in 2..3} = {r, r3}
  BY <1>2
<1>10. Prefixed(str, S, {<<"0">>}) =
         {rest \in {r, r3} : str = <<"0">> \o rest /\ All(rest, S)}
  BY <1>9 DEF Prefixed
<1> QED
  BY <1>2, <1>4, <1>7, <1>8, <1>10

\* The text without its k-th character.
Without(str, k) == SubSeq(str, 1, k - 1) \o From(str, k + 1)

LEMMA WithoutIs ==
  ASSUME NEW str, NEW n \in Nat, Spelled(str, n), NEW k \in 1..n
  PROVE  /\ Spelled(Without(str, k), n - 1)
         /\ \A j \in 1..n - 1 : Without(str, k)[j] = IF j < k THEN str[j] ELSE str[j + 1]
<1>1. PICK C : str \in Seq(C) /\ Len(str) = n
  BY DEF Spelled
<1>2. PICK a \in Nat, b \in Nat, m \in Nat : a = k - 1 /\ b = n - k /\ m = n - 1 /\ m = a + b
  <2>1. k - 1 \in Nat /\ n - k \in Nat /\ n - 1 \in Nat /\ n - 1 = (k - 1) + (n - k)
    OBVIOUS
  <2> QED
    BY <2>1
<1>3. PICK h, t, w : h = SubSeq(str, 1, a) /\ t = From(str, k + 1) /\ w = h \o t
  OBVIOUS
<1>4. Spelled(h, a) /\ \A j \in 1..a : h[j] = str[j]
  <2>1. \A j \in 1..a : str[j] \in C
    BY <1>1, <1>2
  <2>2. /\ h \in Seq(C) /\ Len(h) = IF 1 <= a THEN a - 1 + 1 ELSE 0
        /\ \A j \in 1..a - 1 + 1 : h[j] = str[1 + j - 1]
    BY <1>3, <2>1, SubSeqProperties
  <2>3. Len(h) = a /\ \A j \in 1..a : h[j] = str[j]
    BY <2>2
  <2>4. DOMAIN h = 1..a
    BY <2>2, <2>3, LenProperties
  <2> QED
    BY <2>2, <2>3, <2>4 DEF Spelled
<1>5. Spelled(t, b) /\ \A j \in 1..b : t[j] = str[k + j]
  <2>1. k + 1 \in 1..n + 1 /\ n - (k + 1) + 1 = b /\ \A j \in 1..b : k + 1 + j - 1 = k + j
    BY <1>2
  <2>2. /\ Spelled(t, n - (k + 1) + 1)
        /\ \A j \in 1..n - (k + 1) + 1 : t[j] = str[k + 1 + j - 1]
    BY <1>3, <2>1, FromIs
  <2> QED
    BY <2>1, <2>2
<1>6. Spelled(w, m) /\ Behind(w, h, a, t, m)
  BY <1>2, <1>3, <1>4, <1>5, Joined
<1>7. ASSUME NEW j \in 1..m PROVE w[j] = IF j < k THEN str[j] ELSE str[j + 1]
  <2>1. CASE j < k
    BY <1>2, <1>4, <1>6, <2>1 DEF Behind
  <2>2. CASE ~(j < k)
    <3>1. PICK u \in 1..b : u = j - a /\ k + u = j + 1 /\ ~(j <= a)
      BY <1>2, <2>2
    <3>2. w[j] = t[u]
      BY <1>6, <3>1 DEF Behind
    <3> QED
      BY <1>5, <2>2, <3>1, <3>2
  <2> QED
    BY <2>1, <2>2
<1>8. Without(str, k) = w
  BY <1>2, <1>3 DEF Without
<1> QED
  BY <1>2, <1>6, <1>7, <1>8

LEMMA IsFloatIs ==
  ASSUME NEW str, NEW n \in Nat, Spelled(str, n), NEW k \in 1..n
  PROVE  IsFloat(str, k) <=> /\ str[k] = "." /\ n > 1 /\ str[1] # "0"
                             /\ \A j \in 1..n : j # k => str[j] \in Decimal
<1>1. PICK t : t = Without(str, k)
  OBVIOUS
<1>2. PICK m \in Nat : m = n - 1
  <2>1. n - 1 \in Nat
    OBVIOUS
  <2> QED
    BY <2>1
<1>3. Spelled(t, m) /\ \A j \in 1..m : t[j] = IF j < k THEN str[j] ELSE str[j + 1]
  BY <1>1, <1>2, WithoutIs
<1>4. All(t, Decimal) <=> \A j \in 1..n : j # k => str[j] \in Decimal
  <2>1. All(t, Decimal) <=> \A j \in 1..m : t[j] \in Decimal
    BY <1>3 DEF All, Spelled
  <2>2. ASSUME \A j \in 1..m : t[j] \in Decimal, NEW j \in 1..n, j # k
        PROVE  str[j] \in Decimal
    <3>1. CASE j < k
      <4>1. j \in 1..m
        BY <1>2, <3>1
      <4> QED
        BY <1>3, <2>2, <3>1, <4>1
    <3>2. CASE j > k
      <4>1. PICK u \in 1..m : u = j - 1 /\ ~(u < k) /\ u + 1 = j
        BY <1>2, <3>2
      <4> QED
        BY <1>3, <2>2, <4>1
    <3> QED
      BY <2>2, <3>1, <3>2
  <2>3. ASSUME \A j \in 1..n : j # k => str[j] \in Decimal, NEW j \in 1..m
        PROVE  t[j] \in Decimal
    <3>1. j \in 1..n /\ j + 1 \in 1..n /\ (j < k => j # k) /\ (~(j < k) => j + 1 # k)
      BY <1>2
    <3> QED
      BY <1>3, <2>3, <3>1
  <2> QED
    BY <2>1, <2>2, <2>3
<1>5. IsFloat(str, k) <=> str[k] = "." /\ Len(str) > 1 /\ str[1] # "0" /\ All(t, Decimal)
  BY <1>1, Zenon DEF IsFloat, Without
<1> QED
  BY <1>4, <1>5 DEF Spelled

\* The branch of base 10.
LEMMA DecimalWhole ==
  ASSUME NEW str, NEW n \in Nat, Spelled(str, n), \A k \in 1..n : str[k] \in Decimal
  PROVE  parse_decimal(str) = Whole(Positional(str, 10))
<1>1. Written(str, n, Hex)
  BY DigitsAre DEF Spelled, Written
<1>2. Horner(str, 10) = Positional(str, 10)
  BY <1>1, HornerMeans
<1>3. \A k \in DOMAIN str : str[k] # "." /\ str[k] \in Decimal
  BY DigitsAre DEF Spelled
<1>4. {k \in DOMAIN str : str[k] = "."} = {} /\ All(str, Decimal \cup {"."})
  BY <1>3 DEF All
<1>5. ~(Cardinality({}) > 1)
  BY FS_EmptySet
<1> QED
  BY <1>2, <1>4, <1>5 DEF parse_decimal

LEMMA DecimalFraction ==
  ASSUME NEW str, NEW n \in Nat, Spelled(str, n), NEW d \in 1..n, str[d] = ".",
         \A k \in 1..n : k # d => str[k] \in Decimal
  PROVE  parse_decimal(str) = Fraction(Positional(Without(str, d), 10), n - d)
<1>1. PICK t : t = Without(str, d)
  OBVIOUS
<1>2. PICK m \in Nat : m = n - 1
  <2>1. n - 1 \in Nat
    OBVIOUS
  <2> QED
    BY <2>1
<1>3. Spelled(t, m) /\ \A j \in 1..m : t[j] = IF j < d THEN str[j] ELSE str[j + 1]
  BY <1>1, <1>2, WithoutIs
<1>4. \A j \in 1..n : j # d => str[j] # "." /\ str[j] \in Hex
  BY DigitsAre
<1>5. Written(t, m, Hex)
  <2>1. ASSUME NEW j \in 1..m PROVE t[j] \in Hex
    <3>1. j \in 1..n /\ j + 1 \in 1..n /\ (j < d => j # d) /\ (~(j < d) => j + 1 # d)
      BY <1>2
    <3> QED
      BY <1>3, <1>4, <3>1
  <2> QED
    BY <1>3, <2>1 DEF Spelled, Written
<1>6. Written(str, n, Hex \cup {"."})
  BY <1>4 DEF Spelled, Written
<1>7. Horner(str, 10) = Positional(t, 10)
  BY <1>2, <1>3, <1>4, <1>5, <1>6, DotMeans
<1>8. {k \in DOMAIN str : str[k] = "."} = {d} /\ All(str, Decimal \cup {"."}) /\ Len(str) = n
  BY <1>4 DEF All, Spelled
<1>9. Cardinality({d}) = 1 /\ {d} # {}
  BY FS_Singleton
<1>10. Max({d}) = d
  BY DEF Max
<1>11. PICK dots, num : dots = {k \in DOMAIN str : str[k] = "."} /\ num = Horner(str, 10)
  OBVIOUS
<1>12. parse_decimal(str) = IF ~All(str, Decimal \cup {"."}) \/ Cardinality(dots) > 1 THEN Fail
                           ELSE IF dots = {} THEN Whole(num)
                           ELSE Fraction(num, Len(str) - Max(dots))
  BY <1>11, Zenon DEF parse_decimal
<1>13. dots = {d}
  BY <1>8, <1>11
<1>14. ~(Cardinality({d}) > 1)
  BY <1>9
<1> QED
  BY <1>1, <1>7, <1>8, <1>9, <1>10, <1>11, <1>12, <1>13, <1>14

LEMMA DecimalFail ==
  ASSUME NEW str, NEW n \in Nat, Spelled(str, n),
         \/ \E k \in 1..n : str[k] \notin Decimal \cup {"."}
         \/ \E k, l \in 1..n : k # l /\ str[k] = "." /\ str[l] = "."
  PROVE  parse_decimal(str) = Fail
<1> DEFINE dots == {k \in DOMAIN str : str[k] = "."}
<1>1. CASE \E k \in 1..n : str[k] \notin Decimal \cup {"."}
  BY <1>1 DEF parse_decimal, All, Spelled
<1>2. CASE \E k, l \in 1..n : k # l /\ str[k] = "." /\ str[l] = "."
  <2>1. PICK k \in 1..n, l \in 1..n : k # l /\ {k, l} \subseteq dots
    BY <1>2 DEF Spelled
  <2>2. dots \subseteq 1..n /\ IsFiniteSet(1..n)
    BY FS_Interval DEF Spelled
  <2>3. IsFiniteSet(dots)
    BY <2>2, FS_Subset, Zenon
  <2> HIDE DEF dots
  <2>4. Cardinality({k, l}) <= Cardinality(dots)
    BY <2>1, <2>3, FS_Subset
  <2>5. IsFiniteSet({k}) /\ Cardinality({k}) = 1
    BY FS_Singleton
  <2>6. {k, l} = {k} \cup {l} /\ l \notin {k}
    BY <2>1
  <2>7. Cardinality({k, l}) = 2
    <3>1. Cardinality({k} \cup {l}) = Cardinality({k}) + 1
      BY <2>5, <2>6, FS_AddElement
    <3> QED
      BY <2>5, <2>6, <3>1
  <2>8. Cardinality(dots) > 1
    <3>1. Cardinality(dots) \in Nat
      BY <2>3, FS_CardinalityType
    <3> QED
      BY <2>4, <2>7, <3>1
  <2> QED
    BY <2>8 DEF parse_decimal, dots
<1> QED
  BY <1>1, <1>2

\* The value that parse_number gives is the only one that the text means.
MeansIt(str) ==
  /\ parse_number(str).state \in {"fail", "int", "float"}
  /\ parse_number(str).state = "fail" => Meaning(str) = {}
  /\ /\ parse_number(str).state # "fail"
     /\ \A rest \in BinaryRest(str) : Len(rest) < IntBits
     => Meaning(str) = {parse_number(str)}

\* A digit alone.
LEMMA DigitMeans ==
  ASSUME NEW str, Spelled(str, 1), str[1] \in Decimal
  PROVE  MeansIt(str)
<1>1. PICK M \in Nat \ {0} : M = Power(2, WordBits) /\ 16 <= M
  <2>1. Power(2, WordBits) \in Nat \ {0}
    BY WordIs
  <2> QED
    BY <2>1, WordIs
<1>2. PICK x \in Nat : x = DigitValue[str[1]] /\ x < 10
  BY DigitsAre
<1>3. Written(str, 1, Hex) /\ str[1] # "."
  BY DigitsAre DEF Written, Spelled
<1> DEFINE v == [k \in 0..1 |-> IF k = 0 THEN 0 ELSE x]
<1>4. Values(v, str, 10, 1)
  <2>1. v \in [0..1 -> Nat] /\ v[0] = 0 /\ v[1] = x /\ v[1 - 1] = 0
    OBVIOUS
  <2>2. \A k \in 1..1 : k = 1
    OBVIOUS
  <2> HIDE DEF v
  <2> QED
    BY <1>2, <1>3, <2>1, <2>2 DEF Values
<1>5. v[1] = x
  OBVIOUS
<1> HIDE DEF v
<1>6. Positional(str, 10) = x % M
  BY <1>1, <1>3, <1>4, <1>5, PositionalIs
<1>7. x % M = x
  BY <1>1, <1>2, ModSmall
<1>8. Len(str) = 1 /\ IsInt(str)
  BY DEF IsInt, All, Spelled
<1>9. parse_number(str) = Whole(x)
  BY <1>2, <1>8 DEF parse_number
<1>10. Meaning(str) = {Whole(x)}
  BY <1>6, <1>7, <1>8 DEF Meaning
<1> QED
  BY <1>9, <1>10 DEF MeansIt, Whole

\* The literals with a prefix.
LEMMA RestsAre ==
  ASSUME NEW str, NEW n \in Nat, n > 1, Spelled(str, n)
  PROVE  /\ HexRest(str) = IF str[1] = "0" /\ str[2] \in {"x", "X"} /\ All(From(str, 3), Hex)
                             THEN {From(str, 3)} ELSE {}
         /\ BinaryRest(str) = IF str[1] = "0" /\ str[2] \in {"b", "B"} /\ All(From(str, 3), Binary)
                                THEN {From(str, 3)} ELSE {}
         /\ OctalRest(str) =
              (IF str[1] = "0" /\ str[2] \in {"o", "O"} /\ All(From(str, 3), Octal)
                 THEN {From(str, 3)} ELSE {}) \cup
              (IF str[1] = "0" /\ All(From(str, 2), Octal) THEN {From(str, 2)} ELSE {})
<1>1. 2 \in 1..n + 1 /\ 3 \in 1..n + 1
  OBVIOUS
<1>2. ASSUME NEW S
      PROVE  /\ All(From(str, 3), S) <=> \A j \in 3..n : str[j] \in S
             /\ All(From(str, 2), S) <=> \A j \in 2..n : str[j] \in S
  BY <1>1, FromIs
<1>3. Spelled(From(str, 2), n - 2 + 1)
  BY <1>1, FromIs
<1>4. From(str, 2) # <<>>
  <2>1. Len(From(str, 2)) = n - 2 + 1 /\ n - 2 + 1 # 0
    BY <1>3 DEF Spelled
  <2>2. Len(<<>>) = 0
    OBVIOUS
  <2> QED
    BY <2>1, <2>2
<1>5. HexRest(str) = IF str[1] = "0" /\ str[2] \in {"x", "X"} /\ All(From(str, 3), Hex)
                       THEN {From(str, 3)} ELSE {}
  BY <1>2, PrefixTwo DEF HexRest
<1>6. BinaryRest(str) = IF str[1] = "0" /\ str[2] \in {"b", "B"} /\ All(From(str, 3), Binary)
                          THEN {From(str, 3)} ELSE {}
  BY <1>2, PrefixTwo DEF BinaryRest
<1>7. PICK A, B : /\ A = Prefixed(str, Octal, {<<"0", "o">>, <<"0", "O">>})
                  /\ B = Prefixed(str, Octal, {<<"0">>})
  OBVIOUS
<1>8. A = IF str[1] = "0" /\ str[2] \in {"o", "O"} /\ All(From(str, 3), Octal)
            THEN {From(str, 3)} ELSE {}
  BY <1>2, <1>7, PrefixTwo
<1>9. B = IF str[1] = "0" /\ All(From(str, 2), Octal) THEN {From(str, 2)} ELSE {}
  BY <1>2, <1>7, PrefixOne
<1>10. OctalRest(str) = A \cup {rest \in B : rest # <<>>}
  BY <1>7 DEF OctalRest
<1>11. {rest \in B : rest # <<>>} = B
  BY <1>4, <1>9
<1> QED
  BY <1>5, <1>6, <1>8, <1>9, <1>10, <1>11

\* The parts of the meaning of a text of two characters or more.
LEMMA PartsAre ==
  ASSUME NEW str, NEW n \in Nat, n > 1, Spelled(str, n), str[1] = "0"
  PROVE  Meaning(str) = {Whole(Positional(rest, 16)) : rest \in HexRest(str)}
                          \cup {Whole(Positional(rest, 2)) : rest \in BinaryRest(str)}
                          \cup {Whole(Positional(rest, 8)) : rest \in OctalRest(str)}
<1>1. ~IsInt(str)
  BY DEF IsInt, Spelled
<1>2. {k \in DOMAIN str : IsFloat(str, k)} = {}
  BY DEF IsFloat
<1>3. {Fraction(Positional(SubSeq(str, 1, k - 1) \o From(str, k + 1), 10), Len(str) - k) :
         k \in {k \in DOMAIN str : IsFloat(str, k)}} = {}
  BY <1>2
<1> QED
  BY <1>1, <1>3 DEF Meaning

\* The digits behind a prefix.
LEMMA BasedMeans ==
  ASSUME NEW str, NEW n \in Nat, n > 1, Spelled(str, n), str[1] = "0"
  PROVE  MeansIt(str)
<1>1. PICK a, b, l : a = From(str, 3) /\ b = From(str, 2) /\ l = str[2]
  OBVIOUS
<1>2. 2 \in 1..n + 1 /\ 3 \in 1..n + 1
  OBVIOUS
<1>3. PICK p \in Nat, q \in Nat : p = n - 2 /\ q = n - 1 /\ n - 3 + 1 = p /\ n - 2 + 1 = q
  <2>1. n - 2 \in Nat /\ n - 1 \in Nat /\ n - 3 + 1 = n - 2 /\ n - 2 + 1 = n - 1
    OBVIOUS
  <2> QED
    BY <2>1
<1>4. Spelled(a, p) /\ Spelled(b, q) /\ \A S : All(b, S) => l \in S
  <2>1. 2 \in 2..n
    OBVIOUS
  <2>2. \A S : All(b, S) => str[2] \in S
    BY <1>1, <1>2, <2>1, FromIs
  <2> QED
    BY <1>1, <1>2, <1>3, <2>2, FromIs
<1>5. ASSUME NEW t, NEW k \in Nat, Spelled(t, k), NEW S \in SUBSET Hex, All(t, S), NEW base \in Nat
      PROVE  Horner(t, base) = Positional(t, base)
  <2>1. Written(t, k, Hex)
    BY <1>5 DEF All, Spelled, Written
  <2> QED
    BY <2>1, HornerMeans
<1>6. ASSUME All(a, Binary), p < IntBits PROVE bin2int(a) = Positional(a, 2)
  <2>1. Written(a, p, Binary)
    BY <1>4, <1>6 DEF All, Spelled, Written
  <2> QED
    BY <1>6, <2>1, BitsMean
<1>7. /\ HexRest(str) = IF l \in {"x", "X"} /\ All(a, Hex) THEN {a} ELSE {}
      /\ BinaryRest(str) = IF l \in {"b", "B"} /\ All(a, Binary) THEN {a} ELSE {}
      /\ OctalRest(str) = (IF l \in {"o", "O"} /\ All(a, Octal) THEN {a} ELSE {})
                            \cup (IF All(b, Octal) THEN {b} ELSE {})
  BY <1>1, RestsAre
<1>8. PICK hex, bin, oct : hex = HexRest(str) /\ bin = BinaryRest(str) /\ oct = OctalRest(str)
  OBVIOUS
<1>9. Meaning(str) = {Whole(Positional(rest, 16)) : rest \in hex}
                       \cup {Whole(Positional(rest, 2)) : rest \in bin}
                       \cup {Whole(Positional(rest, 8)) : rest \in oct}
  BY <1>8, PartsAre
<1>10. parse_number(str) = CASE l \in {"x", "X"} -> parse_based(a, Hex, Horner(a, 16))
                             [] l \in {"b", "B"} -> parse_based(a, Binary, bin2int(a))
                             [] l \in {"o", "O"} -> parse_based(a, Octal, Horner(a, 8))
                             [] l \in Decimal -> parse_based(b, Octal, Horner(b, 8))
                             [] OTHER -> Fail
  <2>1. Len(str) # 1 /\ Len(str) > 1
    BY DEF Spelled
  <2> QED
    BY <1>1, <2>1 DEF parse_number
<1>11. Decimal = {"0", "1", "2", "3", "4", "5", "6", "7", "8", "9"} /\ Octal \subseteq Decimal
       /\ Hex \subseteq Hex /\ Octal \subseteq Hex /\ Binary \subseteq Hex
  <2>1. 1..10 = {1, 2, 3, 4, 5, 6, 7, 8, 9, 10}
    OBVIOUS
  <2>2. Decimal = {"0", "1", "2", "3", "4", "5", "6", "7", "8", "9"}
    BY <2>1 DEF Decimal, Digits
  <2> QED
    BY <2>2, DigitsAre
<1>12. ASSUME NEW x PROVE Whole(x).state = "int" /\ Fail.state = "fail"
  BY DEF Whole, Fail
<1>13. CASE l \in {"x", "X"}
  <2>1. parse_number(str) = IF All(a, Hex) THEN Whole(Horner(a, 16)) ELSE Fail
    BY <1>10, <1>11, <1>13 DEF parse_based
  <2>2. l \notin {"b", "B"} /\ l \notin {"o", "O"} /\ l \notin Octal
    BY <1>11, <1>13
  <2>3. bin = {} /\ oct = {} /\ hex = IF All(a, Hex) THEN {a} ELSE {}
    BY <1>4, <1>7, <1>8, <1>13, <2>2
  <2>4. Meaning(str) = IF All(a, Hex) THEN {Whole(Positional(a, 16))} ELSE {}
    BY <1>9, <2>3
  <2>5. All(a, Hex) => Horner(a, 16) = Positional(a, 16)
    BY <1>4, <1>5
  <2> QED
    BY <1>12, <2>1, <2>4, <2>5 DEF MeansIt
<1>14. CASE l \in {"b", "B"}
  <2>1. parse_number(str) = IF All(a, Binary) THEN Whole(bin2int(a)) ELSE Fail
    BY <1>10, <1>11, <1>14 DEF parse_based
  <2>2. l \notin {"x", "X"} /\ l \notin {"o", "O"} /\ l \notin Octal
    BY <1>11, <1>14
  <2>3. hex = {} /\ oct = {} /\ bin = IF All(a, Binary) THEN {a} ELSE {}
    BY <1>4, <1>7, <1>8, <1>14, <2>2
  <2>4. Meaning(str) = IF All(a, Binary) THEN {Whole(Positional(a, 2))} ELSE {}
    BY <1>9, <2>3
  <2>5. All(a, Binary) /\ (\A rest \in bin : Len(rest) < IntBits) => bin2int(a) = Positional(a, 2)
    BY <1>4, <1>6, <2>3 DEF Spelled
  <2> QED
    BY <1>8, <1>12, <2>1, <2>4, <2>5 DEF MeansIt
<1>15. CASE l \in {"o", "O"}
  <2>1. parse_number(str) = IF All(a, Octal) THEN Whole(Horner(a, 8)) ELSE Fail
    BY <1>10, <1>11, <1>15 DEF parse_based
  <2>2. l \notin {"x", "X"} /\ l \notin {"b", "B"} /\ l \notin Octal
    BY <1>11, <1>15
  <2>3. hex = {} /\ bin = {} /\ oct = IF All(a, Octal) THEN {a} ELSE {}
    BY <1>4, <1>7, <1>8, <1>15, <2>2
  <2>4. Meaning(str) = IF All(a, Octal) THEN {Whole(Positional(a, 8))} ELSE {}
    BY <1>9, <2>3
  <2>5. All(a, Octal) => Horner(a, 8) = Positional(a, 8)
    BY <1>4, <1>5, <1>11
  <2> QED
    BY <1>12, <2>1, <2>4, <2>5 DEF MeansIt
<1>16. CASE l \in Decimal
  <2>1. parse_number(str) = IF All(b, Octal) THEN Whole(Horner(b, 8)) ELSE Fail
    BY <1>10, <1>11, <1>16 DEF parse_based
  <2>2. l \notin {"x", "X"} /\ l \notin {"b", "B"} /\ l \notin {"o", "O"}
    BY <1>11, <1>16
  <2>3. hex = {} /\ bin = {} /\ oct = IF All(b, Octal) THEN {b} ELSE {}
    BY <1>7, <1>8, <2>2
  <2>4. Meaning(str) = IF All(b, Octal) THEN {Whole(Positional(b, 8))} ELSE {}
    BY <1>9, <2>3
  <2>5. All(b, Octal) => Horner(b, 8) = Positional(b, 8)
    BY <1>4, <1>5, <1>11
  <2> QED
    BY <1>12, <2>1, <2>4, <2>5 DEF MeansIt
<1>17. CASE l \notin {"x", "X"} /\ l \notin {"b", "B"} /\ l \notin {"o", "O"} /\ l \notin Decimal
  <2>1. parse_number(str) = Fail
    BY <1>10, <1>17
  <2>2. hex = {} /\ bin = {} /\ oct = {}
    BY <1>4, <1>7, <1>8, <1>11, <1>17
  <2>3. Meaning(str) = {}
    BY <1>9, <2>2
  <2> QED
    BY <1>12, <2>1, <2>3 DEF MeansIt
<1> QED
  BY <1>13, <1>14, <1>15, <1>16, <1>17

\* Digits only, one dot among them, or something that is no number.
DigitsOnly(str, n) == \A k \in 1..n : str[k] \in Decimal
OneDot(str, n, d) == d \in 1..n /\ str[d] = "." /\ \A k \in 1..n : k # d => str[k] \in Decimal
NoDecimal(str, n) ==
  \/ \E k \in 1..n : str[k] \notin Decimal \cup {"."}
  \/ \E k, l \in 1..n : k # l /\ str[k] = "." /\ str[l] = "."

LEMMA DecimalCases ==
  ASSUME NEW str, NEW n \in Nat
  PROVE  /\ DigitsOnly(str, n) \/ (\E d : OneDot(str, n, d)) \/ NoDecimal(str, n)
         /\ NoDecimal(str, n) => ~DigitsOnly(str, n) /\ \A d : ~OneDot(str, n, d)
         /\ \A d : OneDot(str, n, d) => ~DigitsOnly(str, n)
<1>1. "." \notin Decimal
  BY DigitsAre
<1>2. ASSUME ~DigitsOnly(str, n), ~NoDecimal(str, n) PROVE \E d : OneDot(str, n, d)
  <2>1. PICK d \in 1..n : str[d] \notin Decimal
    BY <1>2 DEF DigitsOnly
  <2>2. str[d] = "." /\ \A k \in 1..n : k # d => str[k] \in Decimal
    BY <1>2, <2>1 DEF NoDecimal
  <2> QED
    BY <2>2 DEF OneDot
<1> QED
  BY <1>1, <1>2 DEF DigitsOnly, OneDot, NoDecimal

\* The meaning of a text that does not start with 0.
LEMMA PlainMeaning ==
  ASSUME NEW str, NEW n \in Nat, n > 1, Spelled(str, n), str[1] # "0"
  PROVE  /\ DigitsOnly(str, n) => Meaning(str) = {Whole(Positional(str, 10))}
         /\ \A d : OneDot(str, n, d) =>
              Meaning(str) = {Fraction(Positional(Without(str, d), 10), n - d)}
         /\ NoDecimal(str, n) => Meaning(str) = {}
<1>1. HexRest(str) = {} /\ BinaryRest(str) = {} /\ OctalRest(str) = {}
  BY RestsAre
<1>2. IsInt(str) <=> DigitsOnly(str, n)
  BY DEF IsInt, All, DigitsOnly, Spelled
<1>3. PICK K : K = {k \in DOMAIN str : IsFloat(str, k)}
  OBVIOUS
<1>4. \A k : k \in K <=> OneDot(str, n, k)
  <2>1. DOMAIN str = 1..n
    BY DEF Spelled
  <2> QED
    BY <1>3, <2>1, IsFloatIs DEF OneDot
<1>5. PICK F : F = {Fraction(Positional(Without(str, k), 10), Len(str) - k) : k \in K}
  OBVIOUS
<1>6. Meaning(str) = IF IsInt(str) THEN {Whole(Positional(str, 10))} ELSE F
  <2>1. F = {Fraction(Positional(SubSeq(str, 1, k - 1) \o From(str, k + 1), 10), Len(str) - k) :
               k \in {k \in DOMAIN str : IsFloat(str, k)}}
    BY <1>3, <1>5, Zenon DEF Without
  <2>2. PICK W, X, Y : /\ W = {Whole(Positional(rest, 16)) : rest \in HexRest(str)}
                       /\ X = {Whole(Positional(rest, 2)) : rest \in BinaryRest(str)}
                       /\ Y = {Whole(Positional(rest, 8)) : rest \in OctalRest(str)}
    OBVIOUS
  <2>3. W = {} /\ X = {} /\ Y = {}
    BY <1>1, <2>2
  <2>4. Meaning(str) = IF IsInt(str) THEN {Whole(Positional(str, 10))} ELSE W \cup X \cup Y \cup F
    BY <2>1, <2>2, Zenon DEF Meaning
  <2> QED
    BY <2>3, <2>4
<1>7. ASSUME NEW d, OneDot(str, n, d)
      PROVE  Meaning(str) = {Fraction(Positional(Without(str, d), 10), n - d)}
  <2>1. d \in 1..n /\ str[d] = "." /\ \A k \in 1..n : k # d => str[k] \in Decimal
    BY <1>7 DEF OneDot
  <2>2. \A k : OneDot(str, n, k) => k = d
    BY <2>1, DigitsAre DEF OneDot
  <2>3. K = {d} /\ Len(str) = n
    BY <1>4, <1>7, <2>2 DEF Spelled
  <2>4. F = {Fraction(Positional(Without(str, d), 10), n - d)}
    BY <1>5, <2>3
  <2>5. ~DigitsOnly(str, n)
    BY <1>7, DecimalCases
  <2> QED
    BY <1>2, <1>6, <2>4, <2>5
<1>8. ASSUME NoDecimal(str, n) PROVE Meaning(str) = {}
  <2>1. ~DigitsOnly(str, n) /\ K = {}
    BY <1>4, <1>8, DecimalCases
  <2>2. F = {}
    BY <1>5, <2>1
  <2> QED
    BY <1>2, <1>6, <2>1, <2>2
<1> QED
  BY <1>2, <1>6, <1>7, <1>8

\* What parse_decimal gives in the three cases.
LEMMA ParseDecimalIs ==
  ASSUME NEW str, NEW n \in Nat, Spelled(str, n)
  PROVE  /\ DigitsOnly(str, n) => parse_decimal(str) = Whole(Positional(str, 10))
         /\ \A d : OneDot(str, n, d) =>
              parse_decimal(str) = Fraction(Positional(Without(str, d), 10), n - d)
         /\ NoDecimal(str, n) => parse_decimal(str) = Fail
<1>1. DigitsOnly(str, n) => parse_decimal(str) = Whole(Positional(str, 10))
  BY DecimalWhole DEF DigitsOnly
<1>2. ASSUME NEW d, OneDot(str, n, d)
      PROVE  parse_decimal(str) = Fraction(Positional(Without(str, d), 10), n - d)
  BY <1>2, DecimalFraction DEF OneDot
<1>3. NoDecimal(str, n) => parse_decimal(str) = Fail
  BY DecimalFail DEF NoDecimal
<1> QED
  BY <1>1, <1>2, <1>3

LEMMA StatesAre ==
  /\ Fail.state = "fail"
  /\ \A x : Whole(x).state = "int" /\ Whole(x).num = x
  /\ \A x, y : Fraction(x, y).state = "float"
BY DEF Fail, Whole, Fraction

\* Base 10, with a digit in front.
LEMMA PlainMeans ==
  ASSUME NEW str, NEW n \in Nat, n > 1, Spelled(str, n), str[1] # "0", str[1] # "."
  PROVE  MeansIt(str)
<1>1. parse_number(str) = parse_decimal(str)
  <2>1. Len(str) # 1 /\ Len(str) > 1
    BY DEF Spelled
  <2> QED
    BY <2>1 DEF parse_number
<1>2. CASE DigitsOnly(str, n)
  <2>1. parse_decimal(str) = Whole(Positional(str, 10)) /\ Meaning(str) = {parse_decimal(str)}
    BY <1>2, ParseDecimalIs, PlainMeaning
  <2> QED
    BY <1>1, <2>1, StatesAre DEF MeansIt
<1>3. CASE \E d : OneDot(str, n, d)
  <2>1. PICK d : OneDot(str, n, d)
    BY <1>3
  <2>2. /\ parse_decimal(str) = Fraction(Positional(Without(str, d), 10), n - d)
        /\ Meaning(str) = {parse_decimal(str)}
    BY <2>1, ParseDecimalIs, PlainMeaning
  <2> QED
    BY <1>1, <2>2, StatesAre DEF MeansIt
<1>4. CASE NoDecimal(str, n)
  <2>1. parse_decimal(str) = Fail /\ Meaning(str) = {}
    BY <1>4, ParseDecimalIs, PlainMeaning
  <2> QED
    BY <1>1, <2>1, StatesAre DEF MeansIt
<1> QED
  BY <1>2, <1>3, <1>4, DecimalCases

\* Base 10, with a dot in front.
LEMMA DotFirstMeans ==
  ASSUME NEW str, NEW n \in Nat, n > 1, Spelled(str, n), str[1] = "."
  PROVE  MeansIt(str)
<1>1. PICK b : b = From(str, 2)
  OBVIOUS
<1>2. PICK m \in Nat : m = n - 1 /\ n - 2 + 1 = m
  <2>1. n - 1 \in Nat /\ n - 2 + 1 = n - 1
    OBVIOUS
  <2> QED
    BY <2>1
<1>3. Spelled(b, m) /\ \A j \in 1..m : b[j] = str[j + 1]
  <2>1. 2 \in 1..n + 1 /\ \A j \in 1..m : 2 + j - 1 = j + 1
    BY <1>2
  <2>2. Spelled(b, n - 2 + 1) /\ \A j \in 1..n - 2 + 1 : b[j] = str[2 + j - 1]
    BY <1>1, <2>1, FromIs
  <2> QED
    BY <1>2, <2>1, <2>2
<1>4. PICK rest : rest = parse_decimal(b)
  OBVIOUS
<1>5. parse_number(str) = IF rest.state = "int" THEN Fraction(rest.num, n - 1) ELSE Fail
  <2>1. Len(str) # 1 /\ Len(str) > 1 /\ Len(str) = n
    BY DEF Spelled
  <2> QED
    BY <1>1, <1>4, <2>1 DEF parse_number
<1>6. 1 \in 1..n /\ str[1] # "0"
  OBVIOUS
<1>7. ASSUME NEW j \in 2..n PROVE \E u \in 1..m : b[u] = str[j]
  <2>1. j - 1 \in 1..m /\ j - 1 + 1 = j
    BY <1>2
  <2> QED
    BY <1>3, <2>1
<1>8. CASE DigitsOnly(b, m)
  <2>1. rest = Whole(Positional(b, 10))
    BY <1>3, <1>4, <1>8, ParseDecimalIs
  <2>2. OneDot(str, n, 1)
    <3>1. \A j \in 1..n : j # 1 => j \in 2..n
      OBVIOUS
    <3> QED
      BY <1>6, <1>7, <1>8, <3>1 DEF OneDot, DigitsOnly
  <2>3. Without(str, 1) = b
    <3>1. PICK w : w = Without(str, 1)
      OBVIOUS
    <3>2. Spelled(w, m) /\ \A j \in 1..m : w[j] = IF j < 1 THEN str[j] ELSE str[j + 1]
      BY <1>2, <1>6, <3>1, WithoutIs
    <3>3. \A j \in 1..m : w[j] = b[j]
      BY <1>3, <3>2
    <3>4. w = [j \in 1..m |-> w[j]] /\ b = [j \in 1..m |-> b[j]]
      BY <1>3, <3>2, LenProperties DEF Spelled
    <3> QED
      BY <3>1, <3>3, <3>4
  <2>4. Meaning(str) = {Fraction(Positional(b, 10), n - 1)}
    BY <1>6, <2>2, <2>3, PlainMeaning
  <2>5. parse_number(str) = Fraction(Positional(b, 10), n - 1)
    BY <1>5, <2>1, StatesAre
  <2> QED
    BY <2>4, <2>5, StatesAre DEF MeansIt
<1>9. CASE ~DigitsOnly(b, m)
  <2>1. rest.state # "int"
    <3>1. CASE \E d : OneDot(b, m, d)
      <4>1. PICK d : OneDot(b, m, d)
        BY <3>1
      <4>2. rest = Fraction(Positional(Without(b, d), 10), m - d)
        BY <1>3, <1>4, <4>1, ParseDecimalIs
      <4> QED
        BY <4>2, StatesAre
    <3>2. CASE NoDecimal(b, m)
      <4>1. rest = Fail
        BY <1>3, <1>4, <3>2, ParseDecimalIs
      <4> QED
        BY <4>1, StatesAre
    <3> QED
      BY <1>9, <3>1, <3>2, DecimalCases
  <2>2. NoDecimal(str, n)
    <3>1. PICK u \in 1..m : b[u] \notin Decimal
      BY <1>9 DEF DigitsOnly
    <3>2. str[u + 1] \notin Decimal /\ u + 1 \in 1..n /\ u + 1 # 1
      BY <1>2, <1>3, <3>1
    <3> QED
      BY <1>6, <3>2 DEF NoDecimal
  <2>3. parse_number(str) = Fail /\ Meaning(str) = {}
    BY <1>5, <1>6, <2>1, <2>2, PlainMeaning
  <2> QED
    BY <2>3, StatesAre DEF MeansIt
<1> QED
  BY <1>8, <1>9

\* A text that starts the way the lexer asks of a number.
NumberText(str, n) == Spelled(str, n) /\ n >= 1 /\ (str[1] \in Decimal \/ (str[1] = "." /\ n > 1))

LEMMA ParseMeans ==
  ASSUME NEW str, NEW n \in Nat, NumberText(str, n)
  PROVE  MeansIt(str)
<1>1. Spelled(str, n) /\ (n = 1 \/ n > 1)
  BY DEF NumberText
<1>2. n = 1 => str[1] \in Decimal
  BY DEF NumberText
<1>3. n > 1 /\ str[1] = "0" => MeansIt(str)
  BY <1>1, BasedMeans
<1>4. n > 1 /\ str[1] = "." => MeansIt(str)
  BY <1>1, DotFirstMeans
<1>5. n > 1 /\ str[1] # "0" /\ str[1] # "." => MeansIt(str)
  BY <1>1, PlainMeans
<1>6. n = 1 => MeansIt(str)
  BY <1>1, <1>2, DigitMeans
<1> QED
  BY <1>1, <1>3, <1>4, <1>5, <1>6

-----------------------------------------------------------------------------
(* The numbers of the source.                                              *)

\* The characters of the source s from a to b are the text of a number.
NumberAt(s, a, b) == NumberText(SubSeq(s, a, b), b - a + 1)

\* A token of a number has the value of its text.
Valued(s, t) ==
  t.type \in {"int", "float"} =>
    /\ NumberAt(s, t.from, t.to)
    /\ t.value = parse_number(SubSeq(s, t.from, t.to)) /\ t.value.state = t.type

\* From a on the word goes to b and no further.
Extends(s, a, b) ==
  \A p \in a..Len(s) :
    p <= b <=> \A q \in a..p : s[q] = "." \/ identifierType(s[q]) # "none"

\* The word that an error is about has no value.
Rejected(s, a) ==
  \E to \in a..Len(s) :
    /\ Extends(s, a, to) /\ NumberAt(s, a, to)
    /\ parse_number(SubSeq(s, a, to)).state = "fail"

NumInv ==
  /\ \A k \in DOMAIN tokens : Valued(source, tokens[k])
  /\ pc = "error" /\ source[i] \notin Quotes => Rejected(source, i)

\* What the lexer hands to parse_number.
LEMMA HandedOver ==
  ASSUME LexInv, i <= Len(source), StartsNumber(source[i])
  PROVE  LET end == lexer_parse_identifier_with_extra_ids(i, {"."})
         IN  /\ clone_string(i, (end - i + 1) - 1) = SubSeq(source, i, end - 1)
             /\ end - 1 \in i..Len(source) /\ Extends(source, i, end - 1)
             /\ NumberAt(source, i, end - 1)
<1> DEFINE end == lexer_parse_identifier_with_extra_ids(i, {"."})
<1>1. i \in Nat /\ 1 <= i /\ Len(source) \in Nat /\ SourceInv
  BY SourceFacts DEF LexInv, SourceInv
<1>2. /\ end \in Nat /\ end >= i
      /\ end <= Len(source) => ~InWord(source, end, {"."})
      /\ \A p \in i..end - 1 : p <= Len(source) /\ InWord(source, p, {"."})
  BY <1>1, WordEnds
<1> HIDE DEF end
<1>3. end # i
  <2>1. InWord(source, i, {"."})
    BY DEF InWord, StartsNumber
  <2> QED
    BY <1>1, <1>2, <2>1
<1>4. PICK b \in Nat : b = end - 1 /\ i <= b /\ b <= Len(source) /\ end = b + 1
  <2>1. end - 1 \in Nat /\ i <= end - 1 /\ end - 1 \in i..end - 1 /\ end = (end - 1) + 1
    BY <1>1, <1>2, <1>3
  <2>2. end - 1 <= Len(source)
    BY <1>2, <2>1
  <2> QED
    BY <2>1, <2>2
<1>5. clone_string(i, (end - i + 1) - 1) = SubSeq(source, i, end - 1)
  <2>1. i + ((end - i + 1) - 1) - 1 = end - 1
    BY <1>1, <1>2
  <2> QED
    BY <2>1 DEF clone_string
<1>6. Extends(source, i, b)
  <2>1. ASSUME NEW p \in i..Len(source), p <= b, NEW q \in i..p
        PROVE  source[q] = "." \/ identifierType(source[q]) # "none"
    <3>1. q \in i..end - 1
      BY <1>1, <1>4, <2>1
    <3> QED
      BY <1>2, <3>1 DEF InWord
  <2>2. ASSUME NEW p \in i..Len(source), ~(p <= b),
               \A q \in i..p : source[q] = "." \/ identifierType(source[q]) # "none"
        PROVE  FALSE
    <3>1. end \in i..p /\ end <= Len(source)
      BY <1>1, <1>4, <2>2
    <3> QED
      BY <1>2, <2>2, <3>1 DEF InWord
  <2> QED
    BY <2>1, <2>2 DEF Extends
<1>7. PICK n \in Nat : n = b - i + 1
  <2>1. b - i + 1 \in Nat
    BY <1>1, <1>4
  <2> QED
    BY <2>1
<1>8. PICK w : w = SubSeq(source, i, b)
  OBVIOUS
<1>9. NumberText(w, n)
  <2>1. PICK S : source \in Seq(S)
    BY <1>1 DEF SourceInv
  <2>2. \A j \in i..b : source[j] \in S
    BY <1>1, <1>4, <2>1
  <2>3. /\ w \in Seq(S) /\ Len(w) = n
        /\ \A j \in 1..n : w[j] = source[i + j - 1]
    BY <1>1, <1>4, <1>7, <1>8, <2>2, SubSeqProperties
  <2>4. n >= 1 /\ n \in Nat /\ i + 1 - 1 = i /\ i + 2 - 1 = i + 1
    BY <1>1, <1>4, <1>7
  <2>5. Spelled(w, n)
    BY <2>3, <2>4, LenProperties DEF Spelled
  <2>6. w[1] = source[i]
    BY <2>3, <2>4
  <2>7. CASE source[i] \in Decimal
    BY <2>4, <2>5, <2>6, <2>7 DEF NumberText
  <2>8. CASE source[i] \notin Decimal
    <3>1. source[i] = "." /\ i # Len(source) /\ source[i + 1] \in Decimal
      BY <2>8 DEF StartsNumber, identifierType
    <3>2. i + 1 \in i..Len(source)
      BY <1>1, <1>4, <3>1
    <3>3. \A q \in i..i + 1 : source[q] = "." \/ identifierType(source[q]) # "none"
      <4>1. \A q \in i..i + 1 : q = i \/ q = i + 1
        BY <1>1
      <4> QED
        BY <3>1, <4>1, IdentifierTypes
    <3>4. i + 1 <= b
      BY <1>6, <3>2, <3>3 DEF Extends
    <3>5. n > 1
      BY <1>1, <1>7, <3>4
    <3> QED
      BY <2>4, <2>5, <2>6, <3>1, <3>5 DEF NumberText
  <2> QED
    BY <2>7, <2>8
<1>10. NumberAt(source, i, b) /\ b \in i..Len(source)
  BY <1>1, <1>4, <1>7, <1>8, <1>9 DEF NumberAt
<1> QED
  BY <1>4, <1>5, <1>6, <1>10 DEF end

LEMMA PushValued ==
  ASSUME IInv, NumInv, pc = "lexer_parse", NEW token, NEW objects,
         Push(token, objects), Valued(source, token)
  PROVE  NumInv'
<1>1. PICK S : tokens \in Seq(S)
  BY DEF IInv, TokensOK
<1>2. /\ DOMAIN tokens' = DOMAIN tokens \cup {Len(tokens) + 1}
      /\ \A k \in DOMAIN tokens : tokens'[k] = tokens[k]
      /\ tokens'[Len(tokens) + 1] = token
  BY <1>1, AppendFacts DEF Push
<1>3. source' = source /\ pc' = pc
  BY DEF Push
<1> QED
  BY <1>2, <1>3 DEF NumInv

\* Steps that leave the tokens alone.
LEMMA PassValued ==
  ASSUME NumInv, UNCHANGED <<source, tokens>>, pc' = "error" => pc = "error" /\ i' = i
  PROVE  NumInv'
BY DEF NumInv

LEMMA NumberValued == ASSUME IInv, LexInv, NumInv, LexerTurn, Number(source[i]) PROVE NumInv'
<1> DEFINE end == lexer_parse_identifier_with_extra_ids(i, {"."})
<1>1. PICK b, result : b = end - 1 /\ result = parse_number(SubSeq(source, i, b))
  OBVIOUS
<1>2. pc = "lexer_parse" /\ i <= Len(source) /\ StartsNumber(source[i])
  BY DEF LexerTurn, lexer_parse, Number
<1>3. /\ clone_string(i, (end - i + 1) - 1) = SubSeq(source, i, end - 1)
      /\ end - 1 \in i..Len(source) /\ Extends(source, i, end - 1)
      /\ NumberAt(source, i, end - 1)
  BY <1>2, HandedOver
<1>4. \/ result.state = "fail" /\ RetError
      \/ /\ result.state \in {"int", "float"}
         /\ Push(Token(result.state, i, b, result), {})
  BY <1>1, <1>3 DEF Number
<1> HIDE DEF end
<1>5. CASE result.state = "fail" /\ RetError
  <2>1. UNCHANGED <<source, i, tokens>>
    BY <1>5 DEF RetError
  <2>2. Rejected(source, i)
    BY <1>1, <1>3, <1>5 DEF Rejected
  <2> QED
    BY <2>1, <2>2 DEF NumInv
<1>6. CASE result.state \in {"int", "float"} /\ Push(Token(result.state, i, b, result), {})
  <2>1. PICK t : t = Token(result.state, i, b, result)
    OBVIOUS
  <2>2. t.type = result.state /\ t.from = i /\ t.to = b /\ t.value = result
    BY <2>1, TokenFields
  <2>3. Valued(source, t)
    BY <1>1, <1>3, <2>2 DEF Valued
  <2> QED
    BY <1>2, <1>6, <2>1, <2>3, PushValued
<1> QED
  BY <1>4, <1>5, <1>6

LEMMA NextValued == ASSUME IInv, LexInv, NumInv, [Next]_vars PROVE NumInv'
<1>1. ASSUME pc = "lexer_parse", NEW type, NEW to, NEW value, NEW objects,
             Push(Token(type, i, to, value), objects), type \notin {"int", "float"}
      PROVE  NumInv'
  <2>1. Valued(source, Token(type, i, to, value))
    <3>1. Token(type, i, to, value).type = type
      BY TokenFields
    <3> QED
      BY <1>1, <3>1 DEF Valued
  <2> QED
    BY <1>1, <2>1, PushValued
<1>2. CASE LexerTurn
  <2>1. /\ pc = "lexer_parse"
        /\ Skip(source[i]) \/ Mark(source[i]) \/ Operator(source[i]) \/ String(source[i])
           \/ Word(source[i]) \/ Number(source[i]) \/ Dot(source[i])
    BY <1>2 DEF LexerTurn, lexer_parse
  <2>2. CASE Skip(source[i])
    BY <2>1, <2>2, PassValued DEF Skip
  <2>3. CASE Mark(source[i])
    BY <1>1, <2>1, <2>3 DEF Mark, Marks
  <2>4. CASE Operator(source[i])
    BY <1>1, <2>1, <2>4 DEF Operator
  <2>5. CASE Dot(source[i])
    BY <1>1, <2>1, <2>5 DEF Dot
  <2>6. CASE Word(source[i])
    <3>1. PICK to, value, objects : Push(Token("identifier", i, to, value), objects)
      BY <2>6 DEF Word
    <3> QED
      BY <1>1, <2>1, <3>1
  <2>7. CASE String(source[i])
    <3>1. source[i] \in Quotes /\ \/ RetError
                                  \/ \E to, value, objects :
                                       Push(Token("string", i, to, value), objects)
      BY <2>7 DEF String
    <3>2. CASE RetError
      BY <3>1, <3>2 DEF RetError, NumInv
    <3> QED
      BY <1>1, <2>1, <3>1, <3>2
  <2> QED
    BY <1>2, <2>1, <2>2, <2>3, <2>4, <2>5, <2>6, <2>7, NumberValued
<1>3. CASE read_file
  <2>1. tokens' = <<>> /\ pc' = "lexer_new"
    BY <1>3 DEF read_file, IInv
  <2> QED
    BY <2>1 DEF NumInv
<1>4. CASE UNCHANGED vars
  BY <1>4, PassValued DEF vars, lexing
<1>5. CASE \/ lexer_new \/ LexerError \/ LexerDone \/ ast_from_lexer \/ ast_node_destroy
           \/ lexer_free \/ FreeSource \/ JContext_destroy
  <2>1. UNCHANGED <<source, tokens>> /\ pc' # "error"
    BY <1>5 DEF lexer_new, LexerError, LexerDone, ast_from_lexer, ast_node_destroy,
                lexer_free, FreeItem, FreeList, FreeSource, JContext_destroy, Deallocate
  <2> QED
    BY <2>1, PassValued
<1> QED
  BY <1>2, <1>3, <1>4, <1>5 DEF Next

LEMMA InitValued == ASSUME Init PROVE NumInv
<1>1. tokens = <<>> /\ pc = "main"
  BY DEF Init
<1>2. DOMAIN tokens = {}
  BY <1>1
<1> QED
  BY <1>1, <1>2 DEF NumInv

LEMMA NumbersRight == ASSUME LexInv, NumInv PROVE NumbersMean
<1>1. ASSUME NEW k \in DOMAIN tokens, tokens[k].type \in {"int", "float"},
             \A rest \in BinaryRest(Text(k)) : Len(rest) < IntBits
      PROVE  NumberRight(k)
  <2>1. PICK a, b, w, v : /\ a = tokens[k].from /\ b = tokens[k].to
                          /\ w = Text(k) /\ v = tokens[k].value
    OBVIOUS
  <2>2. a \in Nat /\ b \in Nat /\ a <= b
    BY <2>1 DEF LexInv, TokenRight, Typed
  <2>3. NumberText(w, b - a + 1) /\ v = parse_number(w) /\ v.state \in {"int", "float"}
    BY <1>1, <2>1 DEF NumInv, Valued, NumberAt, Text
  <2>4. PICK n \in Nat : n = b - a + 1
    <3>1. b - a + 1 \in Nat
      BY <2>2
    <3> QED
      BY <3>1
  <2>5. MeansIt(w)
    BY <2>3, <2>4, ParseMeans
  <2>6. Meaning(w) = {v}
    BY <1>1, <2>1, <2>3, <2>5 DEF MeansIt
  <2> QED
    BY <2>1, <2>6 DEF NumberRight
<1>2. ASSUME pc = "error", source[i] \notin Quotes
      PROVE  \E to \in i..Len(source) :
               Extends(source, i, to) /\ Meaning(SubSeq(source, i, to)) = {}
  <2>1. PICK to \in i..Len(source) : /\ Extends(source, i, to) /\ NumberAt(source, i, to)
                                     /\ parse_number(SubSeq(source, i, to)).state = "fail"
    BY <1>2 DEF NumInv, Rejected
  <2>2. i \in Nat /\ Len(source) \in Nat
    BY SourceFacts DEF LexInv, SourceInv
  <2>3. PICK n \in Nat : n = to - i + 1
    <3>1. to - i + 1 \in Nat
      BY <2>1, <2>2
    <3> QED
      BY <3>1
  <2>4. MeansIt(SubSeq(source, i, to))
    BY <2>1, <2>3, ParseMeans DEF NumberAt
  <2> QED
    BY <2>1, <2>4 DEF MeansIt
<1>3. \A to : Extends(source, i, to) <=>
        \A p \in i..Len(source) :
          p <= to <=> \A q \in i..p : source[q] = "." \/ identifierType(source[q]) # "none"
  BY DEF Extends
<1> QED
  BY <1>1, <1>2, <1>3 DEF NumbersMean

-----------------------------------------------------------------------------
(* The theorems.                                                           *)

LEMMA IInvAlways == Spec => []IInv
<1>1. Init => IInv
  BY InitHolds
<1>2. IInv /\ [Next]_vars => IInv'
  BY NextKeeps
<1> QED
  BY <1>1, <1>2, PTL DEF Spec

LEMMA LexInvAlways == Spec => []LexInv
<1>1. IInv /\ LexInv /\ [Next]_vars => LexInv'
  BY NextRight
<1>2. Init => LexInv
  BY InitRight
<1> QED
  BY <1>1, <1>2, IInvAlways, PTL DEF Spec

LEMMA NumInvAlways == Spec => []NumInv
<1>1. IInv /\ LexInv /\ NumInv /\ [Next]_vars => NumInv'
  BY NextValued
<1>2. Init => NumInv
  BY InitValued
<1> QED
  BY <1>1, <1>2, IInvAlways, LexInvAlways, PTL DEF Spec

\* For every file the parser starts with the memory that it relies on
\* (lexer.c:336-355): HandOver.
THEOREM TextsHandedOver == Spec => []HandOver
<1>1. IInv => HandOver
  BY DEF IInv, Accounted, HandOver
<1> QED
  BY <1>1, IInvAlways, PTL

\* For every file with a lexical error, what main leaves allocated is known
\* exactly (jacv.c:42-47): ErrorLeak.
THEOREM ErrorLeaksExactly == Spec => []ErrorLeak
<1>1. IInv => ErrorLeak
  BY DEF IInv, Accounted, ErrorLeak
<1> QED
  BY <1>1, IInvAlways, PTL

\* For every file and whatever the parser takes, main frees everything once and
\* its assertions hold, unless there is no file (jacv.c:50-67): ExitClean.
THEOREM ExitsClean == Spec => []ExitClean
<1>1. IInv => ExitClean
  BY DEF IInv, Accounted, ExitClean, PCs
<1> QED
  BY <1>1, IInvAlways, PTL

\* For every file the cursor of the lexer stays in the source, or right behind it,
\* whatever the scans for the end of a string or word return, and the loop of
\* lexer_free in the list (lexer.c:61-76, 176-380): TypeOK.
THEOREM TypeCorrect == Spec => []TypeOK
<1>1. ASSUME IInv, LexInv, file \in BOOLEAN PROVE TypeOK
  <2>1. DOMAIN source = 1..Len(source) /\ Len(source) \in Nat
    BY <1>1, SourceFacts DEF LexInv
  <2>2. i \in 1..Len(source) + 1
    BY <1>1, <2>1 DEF LexInv, SourceInv
  <2>3. \A k \in DOMAIN tokens : DOMAIN tokens[k] = {"type", "from", "to", "value"}
    BY <1>1 DEF LexInv, TokenRight, Typed
  <2>4. Len(tokens) \in Nat /\ DOMAIN tokens = 1..Len(tokens)
    BY <1>1, TokensDomain DEF IInv
  <2>5. item \in 1..Len(tokens) + 1
    <3>1. item \in Nat /\ item >= 1 /\ item <= Len(tokens) + 1
      BY <1>1 DEF IInv, LexInv
    <3> QED
      BY <2>4, <3>1
  <2> QED
    BY <1>1, <2>1, <2>2, <2>3, <2>5 DEF TypeOK, IInv
<1>2. Init => file \in BOOLEAN
  BY DEF Init
<1>3. file \in BOOLEAN /\ [Next]_vars => (file \in BOOLEAN)'
  BY DEF Next, vars, read_file, lexer_new, LexerTurn, LexerError, LexerDone, ast_from_lexer,
         ast_node_destroy, lexer_free, FreeSource, JContext_destroy
<1> QED
  BY <1>1, <1>2, <1>3, IInvAlways, LexInvAlways, PTL DEF Spec

\* For every file, no character is read into two tokens and only blanks and
\* characters that the lexer does not know are dropped (lexer.c:339, 378):
\* Covered.
THEOREM NothingIsPassedOver == Spec => []Covered
<1>1. LexInv => Covered
  BY DEF LexInv
<1> QED
  BY <1>1, LexInvAlways, PTL

\* For every file, a word or number ends where no character of it follows, and
\* a dot before a digit is part of a number (lexer.c:307-317, 431): MaximalMunch.
THEOREM WordsAreWhole == Spec => []MaximalMunch
<1>1. ASSUME LexInv PROVE MaximalMunch
  <2> SUFFICES ASSUME NEW k \in DOMAIN tokens
               PROVE  LET after == tokens[k].to + 1
                          GoesOn(S) == after <= Len(source) /\ InWord(source, after, S)
                      IN  /\ tokens[k].type = "identifier" =>
                               /\ ~GoesOn({}) /\ tokens[k].value = Text(k)
                               /\ \A j \in DOMAIN Text(k) : identifierType(Text(k)[j]) # "none"
                               /\ Text(k)[1] \notin Decimal
                          /\ tokens[k].type \in {"int", "float"} => ~GoesOn({"."})
                          /\ tokens[k].type = "dot" =>
                               ~(after <= Len(source) /\ source[after] \in Decimal)
    BY DEF MaximalMunch, InWord
  <2> DEFINE t == tokens[k]
  <2>1. TokenRight(source, t) /\ SourceInv
    BY <1>1 DEF LexInv
  <2>2. t.type = "identifier" =>
          /\ \A j \in DOMAIN Text(k) : identifierType(Text(k)[j]) # "none"
          /\ Text(k)[1] \notin Decimal
    <3> SUFFICES ASSUME t.type = "identifier"
                 PROVE  /\ \A j \in DOMAIN Text(k) : identifierType(Text(k)[j]) # "none"
                        /\ Text(k)[1] \notin Decimal
      OBVIOUS
    <3>1. /\ t.from \in Nat /\ t.to \in Nat /\ 1 <= t.from /\ t.from <= t.to /\ t.to <= Len(source)
          /\ \A p \in t.from..t.to : identifierType(source[p]) # "none"
          /\ source[t.from] \notin Decimal
      BY <2>1 DEF TokenRight, WordRight, Typed
    <3> HIDE DEF t
    <3>2. t.from \in 1..Len(source) /\ t.to \in 1..Len(source)
      BY <2>1, <3>1, SourceFacts
    <3>3. /\ DOMAIN Text(k) = 1..t.to - t.from + 1
          /\ \A j \in 1..t.to - t.from + 1 : Text(k)[j] = source[t.from + j - 1]
      BY <2>1, <3>1, <3>2, SourceFacts DEF Text, t
    <3>4. \A j \in 1..t.to - t.from + 1 : t.from + j - 1 \in t.from..t.to
      BY <3>1
    <3>5. 1 \in 1..t.to - t.from + 1 /\ t.from + 1 - 1 = t.from
      BY <3>1
    <3> QED
      BY <3>1, <3>3, <3>4, <3>5
  <2> QED
    BY <2>1, <2>2 DEF TokenRight, WordRight, Ended, Text
<1> QED
  BY <1>1, LexInvAlways, PTL

\* For every file, a string ends at the first quote of its kind that no
\* backslash stands before, in its own line between double quotes
\* (lexer.c:271-303, 395): StringsClosed.
THEOREM StringsAreClosed == Spec => []StringsClosed
<1>1. LexInv => StringsClosed
  BY DEF LexInv, TokenRight, StringRight, ClosesIn, Closes, StringsClosed
<1> QED
  BY <1>1, LexInvAlways, PTL

\* For every file and every width of the words, a number has the value that its
\* text means in its base, overflow included, as long as a binary literal has
\* less digits than an int has bits, and only what means no number stops the
\* lexer (jutils.c:60-201): NumbersMean.
THEOREM NumbersMeanWhatTheySay == Spec => []NumbersMean
<1>1. LexInv /\ NumInv => NumbersMean
  BY NumbersRight
<1> QED
  BY <1>1, LexInvAlways, NumInvAlways, PTL

=============================================================================
