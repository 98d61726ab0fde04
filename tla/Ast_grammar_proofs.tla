------------------------ MODULE Ast_grammar_proofs --------------------------
(***************************************************************************)
(* Proofs about what the parser accepts in module Ast, for every set of    *)
(* token lists and every content of the uninitialized local.               *)
(*                                                                         *)
(* AcceptsExpressions compares the parser, which reads a list once and     *)
(* never goes back, with IsExpressionList, which looks at every token of   *)
(* the whole list.  The invariant that joins them: either the parser is on *)
(* course (OnCourse: every token it has read is in a right place, and the  *)
(* stack counts the open parentheses), or the list is none and the parser  *)
(* is bound to fail (Lost).                                                *)
(*                                                                         *)
(* AcceptsStatements is about declarations and functions.  A grammar of    *)
(* them gives every token a label (Labels), and the invariant says that    *)
(* each call of the parser has come to a token with the label it expects   *)
(* (StatementInv): so every check it makes succeeds, nothing it needs is   *)
(* missing, and the node of every declaration and operation gets what it   *)
(* must have before it is printed.                                         *)
(***************************************************************************)
EXTENDS Ast_order_proofs

-----------------------------------------------------------------------------
(* The tokens: what the grammar says up to a token, and around it.         *)

\* The lists AcceptsExpressions is about.
Plain ==
  \A k \in DOMAIN tokens :
    /\ tokens[k] \in Operators \cup {"num", "lparen", "rparen", "newline", "semicolon"}
    /\ tokens[k] = "lparen" => After(k) # "rparen"

\* No token before the p-th is next to one that it may not be next to.
RightBefore(p) == \A k \in 1..Len(tokens) : k < p => Grammatical(k)

\* Between two expressions: an operator that is next has no left operand.
Between(p) ==
  /\ RightBefore(p)
  /\ p <= Len(tokens) /\ tokens[p] \in Operators => Before(p) \notin {"num", "rparen"}

\* Behind an operator or a "(": an operand is next, or the list is wrong.
Expected(p) ==
  /\ tokens[p] # "newline"
  /\ \E j \in 1..Len(tokens) : tokens[j] \in Operators \cup {"lparen"} /\ After(j) = tokens[p]
  /\ tokens[p] \in {"num", "lparen"} => RightBefore(p)

\* Just behind an operand: if its last token is right, so are those before.
Past(p) ==
  /\ p - 1 \in 1..Len(tokens) /\ tokens[p - 1] \in {"num", "rparen"}
  /\ \/ Depth(p) = 0
     \/ p <= Len(tokens) /\ tokens[p] \in Operators
     \/ After(p - 1) = "rparen"
     => RightBefore(p)

\* The operand is the last of its expression.
Ended(p) == Past(p) /\ (p <= Len(tokens) => tokens[p] \notin Operators)

\* How a token changes the number of open parentheses.
LEMMA DepthNext ==
  ASSUME tokens \in Seq(TokenKinds), NEW k \in 1..Len(tokens)
  PROVE  /\ Depth(1) = 0 /\ Depth(k) \in Int
         /\ tokens[k] = "lparen" => Depth(k + 1) = Depth(k) + 1
         /\ tokens[k] = "rparen" => Depth(k + 1) = Depth(k) - 1
         /\ tokens[k] \notin {"lparen", "rparen"} => Depth(k + 1) = Depth(k)
<1> DEFINE In(kind, m) == {j \in 1..m - 1 : tokens[j] = kind}
<1>0. k \in Nat \ {0} /\ Len(tokens) \in Nat
  BY LenProperties
<1>1. ASSUME NEW kind, NEW m \in Nat \ {0}
      PROVE  IsFiniteSet(In(kind, m)) /\ Cardinality(In(kind, m)) \in Nat
  <2>1. IsFiniteSet(1..m - 1) /\ In(kind, m) \in SUBSET (1..m - 1)
    BY <1>1, FS_Interval
  <2> QED
    BY <2>1, FS_Subset, FS_CardinalityType
<1>2. ASSUME NEW kind
      PROVE  /\ tokens[k] = kind => Cardinality(In(kind, k + 1)) = Cardinality(In(kind, k)) + 1
             /\ tokens[k] # kind => In(kind, k + 1) = In(kind, k)
             /\ In(kind, 1) = {}
  <2>1. tokens[k] = kind => In(kind, k + 1) = In(kind, k) \cup {k}
    BY <1>0
  <2>2. k \notin In(kind, k)
    BY <1>0
  <2>3. tokens[k] = kind => Cardinality(In(kind, k + 1)) = Cardinality(In(kind, k)) + 1
    <3>1. IsFiniteSet(In(kind, k))
      BY <1>0, <1>1
    <3> HIDE DEF In
    <3>2. Cardinality(In(kind, k) \cup {k}) = Cardinality(In(kind, k)) + 1
      BY <2>2, <3>1, FS_AddElement
    <3> QED
      BY <2>1, <3>2
  <2>4. tokens[k] # kind => In(kind, k + 1) = In(kind, k)
    BY <1>0
  <2>5. In(kind, 1) = {}
    BY <1>0
  <2> QED
    BY <2>3, <2>4, <2>5
<1>3. \A m : Depth(m) = Cardinality(In("lparen", m)) - Cardinality(In("rparen", m))
  BY DEF Depth
<1>4. /\ \A kind : Cardinality(In(kind, k)) \in Nat
      /\ \A kind : Cardinality(In(kind, 1)) = 0
  <2>1. \A kind : In(kind, 1) = {}
    BY <1>2
  <2> HIDE DEF In
  <2> QED
    BY <1>0, <1>1, <2>1, FS_EmptySet
<1>5. /\ tokens[k] = "lparen" =>
           /\ Cardinality(In("lparen", k + 1)) = Cardinality(In("lparen", k)) + 1
           /\ Cardinality(In("rparen", k + 1)) = Cardinality(In("rparen", k))
      /\ tokens[k] = "rparen" =>
           /\ Cardinality(In("rparen", k + 1)) = Cardinality(In("rparen", k)) + 1
           /\ Cardinality(In("lparen", k + 1)) = Cardinality(In("lparen", k))
      /\ tokens[k] \notin {"lparen", "rparen"} =>
           /\ Cardinality(In("rparen", k + 1)) = Cardinality(In("rparen", k))
           /\ Cardinality(In("lparen", k + 1)) = Cardinality(In("lparen", k))
  BY <1>2
<1> HIDE DEF In
<1> QED
  BY <1>3, <1>4, <1>5

\* Line breaks open and close nothing, and are always right.
LEMMA LineBreaks ==
  ASSUME tokens \in Seq(TokenKinds), NEW p \in Nat \ {0}, NEW q \in Nat, p <= q,
         \A j \in p..q - 1 : tokens[j] = "newline"
  PROVE  Depth(q) = Depth(p) /\ (RightBefore(p) => RightBefore(q))
<1>1. \A kind \in {"lparen", "rparen"} :
        {j \in 1..q - 1 : tokens[j] = kind} = {j \in 1..p - 1 : tokens[j] = kind}
  <2> SUFFICES ASSUME NEW kind \in {"lparen", "rparen"}
               PROVE  {j \in 1..q - 1 : tokens[j] = kind} = {j \in 1..p - 1 : tokens[j] = kind}
    OBVIOUS
  <2>1. \A j \in 1..q - 1 : tokens[j] = kind => j \in 1..p - 1
    OBVIOUS
  <2> QED
    BY <2>1
<1>2. Depth(q) = Depth(p)
  BY <1>1 DEF Depth
<1>3. ASSUME NEW k, tokens[k] = "newline" PROVE Grammatical(k)
  BY <1>3 DEF Grammatical, Operators
<1>4. RightBefore(p) => RightBefore(q)
  BY <1>3 DEF RightBefore
<1> QED
  BY <1>2, <1>4

\* NEXT_TOKEN finds what After names.
LEMMA NextIsAfter ==
  ASSUME tokens \in Seq(TokenKinds), NEW k \in 1..Len(tokens),
         NEW q, q = NextToken(k + 1, Len(tokens))
  PROVE  /\ q \in k + 1..Len(tokens) + 1
         /\ \A j \in k + 1..q - 1 : tokens[j] = "newline"
         /\ q <= Len(tokens) => tokens[q] # "newline" /\ After(k) = tokens[q]
         /\ q > Len(tokens) => After(k) = "end"
<1> DEFINE Later == {j \in k + 1..Len(tokens) : tokens[j] # "newline"}
<1>0. k \in Nat /\ Len(tokens) \in Nat /\ k + 1 \in Nat /\ k + 1 <= Len(tokens) + 1
  BY LenProperties
<1>1. /\ q \in k + 1..Len(tokens) + 1
      /\ q = Len(tokens) + 1 \/ tokens[q] # "newline"
      /\ \A j \in k + 1..q - 1 : tokens[j] = "newline"
  BY <1>0, NextTokenStops
<1>2. After(k) = IF Later = {} THEN "end" ELSE tokens[CHOOSE j \in Later : \A m \in Later : j <= m]
  BY DEF After
<1>3. \A j \in Later : q <= j
  BY <1>0, <1>1
<1>4. CASE q <= Len(tokens)
  <2>1. q \in Later
    BY <1>0, <1>1, <1>4
  <2>2. (CHOOSE j \in Later : \A m \in Later : j <= m) = q
    <3>1. \A j \in Later : (\A m \in Later : j <= m) => j = q
      BY <1>0, <1>1, <1>3, <2>1
    <3> QED
      BY <1>3, <2>1, <3>1
  <2>3. Later # {} /\ q \in Nat /\ ~(q > Len(tokens)) /\ tokens[q] # "newline"
    BY <1>0, <1>1, <1>4, <2>1
  <2> DEFINE first == CHOOSE j \in Later : \A m \in Later : j <= m
  <2>4. After(k) = tokens[first]
    BY <1>2, <2>3
  <2> HIDE DEF first
  <2>5. After(k) = tokens[q]
    BY <2>2, <2>4 DEF first
  <2> QED
    BY <1>1, <2>3, <2>5
<1>5. CASE q > Len(tokens)
  <2>1. Later = {}
    BY <1>0, <1>1, <1>3, <1>5
  <2> QED
    BY <1>0, <1>1, <1>2, <1>5, <2>1
<1> QED
  BY <1>0, <1>1, <1>4, <1>5

\* A token that is not right makes the list none.
LEMMA Ungrammatical ==
  ASSUME NEW k \in 1..Len(tokens), ~Grammatical(k), tokens \in Seq(TokenKinds)
  PROVE  ~IsExpressionList
<1>1. k \in DOMAIN tokens
  OBVIOUS
<1> QED
  BY <1>1 DEF IsExpressionList

\* One token more is right.
LEMMA OneMore ==
  ASSUME NEW p \in Nat, RightBefore(p), Grammatical(p)
  PROVE  RightBefore(p + 1)
BY DEF RightBefore

\* An operand of one token, and one in parentheses.
LEMMA PastNum ==
  ASSUME tokens \in Seq(TokenKinds), NEW k \in 1..Len(tokens), tokens[k] = "num", RightBefore(k)
  PROVE  Past(k + 1) /\ Depth(k + 1) = Depth(k)
<1>0. k \in Nat /\ k + 1 - 1 = k /\ Len(tokens) \in Nat
  BY LenProperties
<1>1. Depth(k + 1) = Depth(k)
  BY DepthNext
<1>2. ASSUME \/ Depth(k + 1) = 0
             \/ k + 1 <= Len(tokens) /\ tokens[k + 1] \in Operators
             \/ After(k) = "rparen"
      PROVE  Grammatical(k)
  <2>1. k + 1 <= Len(tokens) => Behind(k) = tokens[k + 1]
    BY <1>0 DEF Behind
  <2>2. Depth(k + 1) > 0 => Behind(k) \in Operators \/ After(k) = "rparen"
    BY <1>2, <2>1
  <2> QED
    BY <2>2 DEF Grammatical, Operators
<1> QED
  BY <1>0, <1>1, <1>2, OneMore DEF Past

LEMMA PastParen ==
  ASSUME tokens \in Seq(TokenKinds), NEW k \in 1..Len(tokens), tokens[k] = "rparen",
         RightBefore(k), Depth(k) > 0
  PROVE  Past(k + 1) /\ Depth(k + 1) = Depth(k) - 1
<1>0. k \in Nat /\ k + 1 - 1 = k /\ Len(tokens) \in Nat
  BY LenProperties
<1>1. Depth(k + 1) = Depth(k) - 1
  BY DepthNext
<1>2. ASSUME \/ Depth(k + 1) = 0
             \/ k + 1 <= Len(tokens) /\ tokens[k + 1] \in Operators
             \/ After(k) = "rparen"
      PROVE  Grammatical(k)
  <2>1. k + 1 <= Len(tokens) => Behind(k) = tokens[k + 1]
    BY <1>0 DEF Behind
  <2>2. Depth(k + 1) > 0 => Behind(k) \in Operators \/ After(k) = "rparen"
    BY <1>2, <2>1
  <2> QED
    BY <2>2 DEF Grammatical, Operators
<1> QED
  BY <1>0, <1>1, <1>2, OneMore DEF Past

\* The end of an expression outside parentheses.
LEMMA EndedOutside ==
  ASSUME NEW p, Ended(p), Depth(p) = 0
  PROVE  Between(p)
BY DEF Ended, Past, Between

\* An operator or a "(" is right if an operand follows.
LEMMA ExpectedNext ==
  ASSUME tokens \in Seq(TokenKinds), NEW k \in 1..Len(tokens), RightBefore(k),
         \/ tokens[k] = "lparen"
         \/ tokens[k] \in Operators /\ Before(k) \in {"num", "rparen"},
         NEW q, q = NextToken(k + 1, Len(tokens)), q <= Len(tokens)
  PROVE  Expected(q) /\ Depth(q) = Depth(k + 1)
<1>0. k \in Nat /\ Len(tokens) \in Nat
  BY LenProperties
<1>1. /\ q \in k + 1..Len(tokens) + 1
      /\ \A j \in k + 1..q - 1 : tokens[j] = "newline"
      /\ tokens[q] # "newline" /\ After(k) = tokens[q]
  BY NextIsAfter
<1>2. q \in Nat /\ k + 1 \in Nat \ {0} /\ k + 1 <= q
  BY <1>0, <1>1
<1>3. Depth(q) = Depth(k + 1) /\ (RightBefore(k + 1) => RightBefore(q))
  BY <1>1, <1>2, LineBreaks
<1>4. ASSUME tokens[q] \in {"num", "lparen"} PROVE RightBefore(q)
  <2>1. Grammatical(k)
    BY <1>1, <1>4 DEF Grammatical, Operators
  <2> QED
    BY <1>0, <1>3, <2>1, OneMore
<1> QED
  BY <1>1, <1>3, <1>4 DEF Expected

\* What is in the place of an operand is none.
LEMMA Unexpected ==
  ASSUME tokens \in Seq(TokenKinds), NEW p, Expected(p), tokens[p] \notin {"num", "lparen"}
  PROVE  ~IsExpressionList
<1>1. PICK j \in 1..Len(tokens) : tokens[j] \in Operators \cup {"lparen"} /\ After(j) = tokens[p]
  BY DEF Expected
<1>2. ~Grammatical(j)
  BY <1>1 DEF Grammatical
<1> QED
  BY <1>2, Ungrammatical

\* The list of tokens stays the same.
LEMMA SameTokens ==
  ASSUME UNCHANGED tokens
  PROVE  /\ \A p : Depth(p)' = Depth(p) /\ After(p)' = After(p)
         /\ \A p : Grammatical(p)' <=> Grammatical(p)
         /\ \A p : RightBefore(p)' <=> RightBefore(p)
         /\ IsExpressionList' <=> IsExpressionList
         /\ Plain' <=> Plain
<1>1. ASSUME NEW p PROVE Depth(p)' = Depth(p)
  <2>1. \A kind : {j \in 1..p - 1 : tokens'[j] = kind} = {j \in 1..p - 1 : tokens[j] = kind}
    OBVIOUS
  <2> QED
    BY <2>1 DEF Depth
<1>2. ASSUME NEW p PROVE After(p)' = After(p)
  <2>1. {j \in p + 1..Len(tokens') : tokens'[j] # "newline"}
          = {j \in p + 1..Len(tokens) : tokens[j] # "newline"}
    OBVIOUS
  <2> QED
    BY <2>1 DEF After
<1>3. ASSUME NEW p PROVE Before(p)' = Before(p) /\ Behind(p)' = Behind(p)
  BY DEF Before, Behind
<1>4. ASSUME NEW p PROVE Grammatical(p)' <=> Grammatical(p)
  BY <1>1, <1>2, <1>3 DEF Grammatical
<1>5. ASSUME NEW p PROVE RightBefore(p)' <=> RightBefore(p)
  BY <1>4 DEF RightBefore
<1>6. IsExpressionList' <=> IsExpressionList
  <2>1. Depth(Len(tokens) + 1)' = Depth(Len(tokens) + 1)
    BY <1>1
  <2> QED
    BY <1>4, <2>1 DEF IsExpressionList
<1>7. Plain' <=> Plain
  BY <1>2 DEF Plain
<1> QED
  BY <1>1, <1>2, <1>4, <1>5, <1>6, <1>7

-----------------------------------------------------------------------------
(* The stack: ast_from_lexer, the expression it called for, its parts.     *)

\* The points at which the d-th of n calls may be.
Level(d, n) ==
  IF d = 1 THEN Loops
  ELSE IF d < n THEN {"paren", "operand"}
  ELSE {"start", "next", "settle", "paren", "operand"}

\* All of them read the whole list, of m tokens.
Layered(s, m) == \A d \in 1..Len(s) : s[d].hi = m /\ s[d].pc \in Level(d, Len(s))

\* How many "(" the calls have read, and the operations whose right operand is
\* being parsed; and those of the calls below the one on top.
Opened(s) == Cardinality({d \in 1..Len(s) : s[d].pc = "paren"})
OpenedBelow(s) == Cardinality({d \in 1..Len(s) - 1 : s[d].pc = "paren"})
Awaited(s) == {s[d].res : d \in {d \in 1..Len(s) : s[d].pc = "operand"}}
AwaitedBelow(s) == {s[d].res : d \in {d \in 1..Len(s) - 1 : s[d].pc = "operand"}}

\* The call on top goes on at another point, calls, returns.
Replaced(s, f) == [s EXCEPT ![Len(s)] = f]
Extended(s, f) == Append(s, f)
Popped(s) == SubSeq(s, 1, Len(s) - 1)

\* What the call on top adds to those below.
LEMMA TopLayer ==
  ASSUME NEW s \in Seq(FrameRecord), s # <<>>
  PROVE  LET f == s[Len(s)]
         IN  /\ Len(s) \in Nat \ {0} /\ OpenedBelow(s) \in Nat
             /\ Opened(s) = IF f.pc = "paren" THEN OpenedBelow(s) + 1 ELSE OpenedBelow(s)
             /\ Awaited(s) = AwaitedBelow(s) \cup IF f.pc = "operand" THEN {f.res} ELSE {}
<1> DEFINE In == {d \in 1..Len(s) : s[d].pc = "paren"}
           Under == {d \in 1..Len(s) - 1 : s[d].pc = "paren"}
           f == s[Len(s)]
<1>1. Len(s) \in Nat \ {0}
  BY EmptySeq, ElementOfSeq
<1>2. \A d : d \in 1..Len(s) <=> d \in 1..Len(s) - 1 \/ d = Len(s)
  BY <1>1
<1>3. /\ f.pc = "paren" => In = Under \cup {Len(s)}
      /\ f.pc # "paren" => In = Under
      /\ Len(s) \notin Under
  BY <1>1, <1>2
<1>4. IsFiniteSet(Under) /\ Cardinality(Under) \in Nat
  <2>1. IsFiniteSet(1..Len(s) - 1) /\ Under \in SUBSET (1..Len(s) - 1)
    BY <1>1, FS_Interval
  <2> QED
    BY <2>1, FS_Subset, FS_CardinalityType
<1>5. OpenedBelow(s) = Cardinality(Under) /\ Opened(s) = Cardinality(In)
  BY DEF OpenedBelow, Opened
<1> HIDE DEF In, Under
<1>6. Cardinality(Under \cup {Len(s)}) = Cardinality(Under) + 1
  BY <1>3, <1>4, FS_AddElement
<1>7. Opened(s) = IF f.pc = "paren" THEN OpenedBelow(s) + 1 ELSE OpenedBelow(s)
  BY <1>3, <1>5, <1>6
<1>8. Awaited(s) = AwaitedBelow(s) \cup IF f.pc = "operand" THEN {f.res} ELSE {}
  BY <1>2 DEF Awaited, AwaitedBelow
<1> QED
  BY <1>1, <1>4, <1>5, <1>7, <1>8

\* The call on top goes on at another point.
LEMMA ReplaceStack ==
  ASSUME NEW s \in Seq(FrameRecord), s # <<>>, NEW f \in FrameRecord, NEW t, t = Replaced(s, f)
  PROVE  /\ t \in Seq(FrameRecord) /\ t # <<>> /\ Len(t) = Len(s) /\ t[Len(t)] = f
         /\ \A d \in 1..Len(s) : t[d] = IF d = Len(s) THEN f ELSE s[d]
         /\ OpenedBelow(t) = OpenedBelow(s) /\ AwaitedBelow(t) = AwaitedBelow(s)
<1>1. Len(s) \in Nat \ {0} /\ \A d \in 1..Len(s) : s[d] \in FrameRecord
  BY EmptySeq, ElementOfSeq
<1>2. /\ t \in Seq(FrameRecord) /\ Len(t) = Len(s)
      /\ \A d \in 1..Len(s) : t[d] = IF d = Len(s) THEN f ELSE s[d]
  BY <1>1, ExceptSeq DEF Replaced
<1>3. t # <<>> /\ t[Len(t)] = f
  BY <1>1, <1>2, EmptySeq
<1>4. \A d \in 1..Len(s) - 1 : d \in 1..Len(s) /\ d # Len(s) /\ t[d] = s[d]
  <2>1. \A d \in 1..Len(s) - 1 : d \in 1..Len(s) /\ d # Len(s)
    BY <1>1
  <2> QED
    BY <1>2, <2>1
<1>5. /\ {d \in 1..Len(t) - 1 : t[d].pc = "paren"} = {d \in 1..Len(s) - 1 : s[d].pc = "paren"}
      /\ {d \in 1..Len(t) - 1 : t[d].pc = "operand"} = {d \in 1..Len(s) - 1 : s[d].pc = "operand"}
  BY <1>2, <1>4
<1>6. OpenedBelow(t) = OpenedBelow(s)
  BY <1>5 DEF OpenedBelow
<1>7. AwaitedBelow(t) = AwaitedBelow(s)
  BY <1>2, <1>4 DEF AwaitedBelow
<1> QED
  BY <1>2, <1>3, <1>6, <1>7

LEMMA ReplaceLayer ==
  ASSUME NEW s \in Seq(FrameRecord), s # <<>>, NEW m, Layered(s, m),
         NEW f \in FrameRecord, f.hi = m, f.pc \in Level(Len(s), Len(s)),
         NEW t, t = Replaced(s, f)
  PROVE  /\ t \in Seq(FrameRecord) /\ t # <<>> /\ Len(t) = Len(s) /\ t[Len(t)] = f
         /\ OpenedBelow(t) = OpenedBelow(s) /\ AwaitedBelow(t) = AwaitedBelow(s)
         /\ \A d \in 1..Len(s) - 1 : t[d] = s[d]
         /\ Layered(t, m)
<1>1. t # <<>> /\ OpenedBelow(t) = OpenedBelow(s) /\ AwaitedBelow(t) = AwaitedBelow(s)
  BY ReplaceStack
<1>2. Len(s) \in Nat \ {0} /\ \A d \in 1..Len(s) : s[d] \in FrameRecord
  BY EmptySeq, ElementOfSeq
<1>3. /\ t \in Seq(FrameRecord) /\ Len(t) = Len(s)
      /\ \A d \in 1..Len(s) : t[d] = IF d = Len(s) THEN f ELSE s[d]
  BY <1>2, ExceptSeq DEF Replaced
<1>4. t[Len(t)] = f
  BY <1>2, <1>3
<1>5. Layered(t, m)
  BY <1>3 DEF Layered
<1>6. \A d \in 1..Len(s) - 1 : d \in 1..Len(s) /\ d # Len(s)
  BY <1>2
<1>7. \A d \in 1..Len(s) - 1 : t[d] = s[d]
  BY <1>3, <1>6
<1> QED
  BY <1>1, <1>3, <1>4, <1>5, <1>7

\* It calls.
LEMMA AppendStack ==
  ASSUME NEW s \in Seq(FrameRecord), s # <<>>, NEW g \in FrameRecord, NEW t, t = Extended(s, g)
  PROVE  /\ t \in Seq(FrameRecord) /\ t # <<>> /\ Len(t) = Len(s) + 1 /\ t[Len(t)] = g
         /\ \A d \in 1..Len(s) : t[d] = s[d]
         /\ \A d \in 1..Len(t) : d \in 1..Len(s) \/ d = Len(s) + 1
         /\ OpenedBelow(t) = Opened(s) /\ AwaitedBelow(t) = Awaited(s)
<1>1. Len(s) \in Nat \ {0}
  BY EmptySeq, ElementOfSeq
<1>2. /\ t \in Seq(FrameRecord) /\ Len(t) = Len(s) + 1 /\ t[Len(s) + 1] = g
      /\ \A d \in 1..Len(s) : t[d] = s[d]
  BY <1>1, AppendProperties DEF Extended
<1>3. t # <<>>
  BY <1>1, <1>2, EmptySeq
<1>4. 1..Len(t) - 1 = 1..Len(s) /\ \A d \in 1..Len(t) : d \in 1..Len(s) \/ d = Len(s) + 1
  BY <1>1, <1>2
<1>5. {d \in 1..Len(t) - 1 : t[d].pc = "paren"} = {d \in 1..Len(s) : s[d].pc = "paren"}
  BY <1>2, <1>4
<1>6. OpenedBelow(t) = Opened(s)
  BY <1>5 DEF OpenedBelow, Opened
<1>7. AwaitedBelow(t) = Awaited(s)
  BY <1>2, <1>4 DEF AwaitedBelow, Awaited
<1> QED
  BY <1>2, <1>3, <1>4, <1>6, <1>7

LEMMA AppendLayer ==
  ASSUME NEW s \in Seq(FrameRecord), s # <<>>, NEW m, Layered(s, m),
         s[Len(s)].pc \in Level(Len(s), Len(s) + 1),
         NEW g \in FrameRecord, g.hi = m, g.pc = "start",
         NEW t, t = Extended(s, g)
  PROVE  /\ t \in Seq(FrameRecord) /\ t # <<>> /\ Len(t) = Len(s) + 1 /\ t[Len(t)] = g
         /\ OpenedBelow(t) = Opened(s) /\ AwaitedBelow(t) = Awaited(s)
         /\ Layered(t, m)
<1>1. Len(s) \in Nat \ {0}
  BY EmptySeq, ElementOfSeq
<1>2. /\ t \in Seq(FrameRecord) /\ Len(t) = Len(s) + 1 /\ t[Len(s) + 1] = g
      /\ \A d \in 1..Len(s) : t[d] = s[d]
      /\ \A d \in 1..Len(t) : d \in 1..Len(s) \/ d = Len(s) + 1
  BY <1>1, AppendProperties DEF Extended
<1>6. t # <<>> /\ OpenedBelow(t) = Opened(s) /\ AwaitedBelow(t) = Awaited(s)
  BY AppendStack
<1>3. "start" \in Level(Len(s) + 1, Len(s) + 1)
  BY <1>1 DEF Level
<1>4. ASSUME NEW d \in 1..Len(s) PROVE s[d].hi = m /\ s[d].pc \in Level(d, Len(s) + 1)
  <2>1. s[d].hi = m /\ s[d].pc \in Level(d, Len(s))
    BY DEF Layered
  <2>2. CASE d = Len(s)
    BY <2>1, <2>2
  <2>3. CASE d # Len(s)
    BY <1>1, <2>1, <2>3 DEF Level
  <2> QED
    BY <2>1, <2>2, <2>3
<1>5. Layered(t, m)
  BY <1>2, <1>3, <1>4 DEF Layered
<1> QED
  BY <1>2, <1>5, <1>6

\* It returns.
LEMMA PopStack ==
  ASSUME NEW s \in Seq(FrameRecord), s # <<>>, NEW t, t = Popped(s)
  PROVE  /\ t \in Seq(FrameRecord) /\ Len(t) = Len(s) - 1 /\ Len(s) \in Nat \ {0}
         /\ t = <<>> <=> Len(s) = 1
         /\ \A d \in 1..Len(t) : t[d] = s[d] /\ d \in 1..Len(s) - 1
         /\ Opened(t) = OpenedBelow(s) /\ Awaited(t) = AwaitedBelow(s)
<1>1. Len(s) \in Nat \ {0} /\ \A d \in 1..Len(s) : s[d] \in FrameRecord
  BY EmptySeq, ElementOfSeq
<1>2. /\ t \in Seq(FrameRecord) /\ Len(t) = Len(s) - 1
      /\ \A d \in 1..Len(s) - 1 : t[d] = s[d]
  <2>1. \A d \in 1..Len(s) - 1 : s[d] \in FrameRecord
    BY <1>1
  <2>2. /\ t \in Seq(FrameRecord)
        /\ Len(t) = IF 1 <= Len(s) - 1 THEN Len(s) - 1 - 1 + 1 ELSE 0
        /\ \A d \in 1..Len(s) - 1 - 1 + 1 : t[d] = s[1 + d - 1]
    BY <1>1, <2>1, SubSeqProperties DEF Popped
  <2>3. ASSUME NEW k \in Nat \ {0}
        PROVE  /\ (IF 1 <= k - 1 THEN k - 1 - 1 + 1 ELSE 0) = k - 1
               /\ k - 1 - 1 + 1 = k - 1
               /\ \A d \in 1..k - 1 : 1 + d - 1 = d
    OBVIOUS
  <2>4. /\ Len(s) - 1 - 1 + 1 = Len(s) - 1
        /\ \A d \in 1..Len(s) - 1 : 1 + d - 1 = d
        /\ Len(t) = Len(s) - 1
    BY <1>1, <2>2, <2>3
  <2> QED
    BY <2>2, <2>4
<1>3. t = <<>> <=> Len(s) = 1
  <2>1. t = <<>> <=> Len(t) = 0
    BY <1>2, EmptySeq
  <2> QED
    BY <1>1, <1>2, <2>1
<1>4. {d \in 1..Len(t) : t[d].pc = "paren"} = {d \in 1..Len(s) - 1 : s[d].pc = "paren"}
  BY <1>2
<1>5. Opened(t) = OpenedBelow(s)
  BY <1>4 DEF OpenedBelow, Opened
<1>6. Awaited(t) = AwaitedBelow(s)
  BY <1>2 DEF AwaitedBelow, Awaited
<1> QED
  BY <1>1, <1>2, <1>3, <1>5, <1>6

LEMMA PopLayer ==
  ASSUME NEW s \in Seq(FrameRecord), s # <<>>, NEW m, Layered(s, m), NEW n, Nested(s, n),
         NEW t, t = Popped(s)
  PROVE  /\ t \in Seq(FrameRecord) /\ Len(t) = Len(s) - 1
         /\ t = <<>> <=> Len(s) = 1
         /\ \A d \in 1..Len(t) :
              t[d] = s[d] /\ t[d].pc \in IF d = 1 THEN {"item"} ELSE {"paren", "operand"}
         /\ Opened(t) = OpenedBelow(s) /\ Awaited(t) = AwaitedBelow(s)
         /\ Layered(t, m)
<1>1. /\ t \in Seq(FrameRecord) /\ Len(t) = Len(s) - 1 /\ Len(s) \in Nat \ {0}
      /\ t = <<>> <=> Len(s) = 1
      /\ \A d \in 1..Len(t) : t[d] = s[d] /\ d \in 1..Len(s) - 1
      /\ Opened(t) = OpenedBelow(s) /\ Awaited(t) = AwaitedBelow(s)
  BY PopStack
<1>2. ASSUME NEW d \in 1..Len(t)
      PROVE  /\ t[d] = s[d] /\ t[d].hi = m /\ t[d].pc \in Level(d, Len(t))
             /\ t[d].pc \in IF d = 1 THEN {"item"} ELSE {"paren", "operand"}
  <2>1. d \in 1..Len(s) /\ d < Len(s) /\ d \in 1..Len(s) - 1 /\ t[d] = s[d]
    BY <1>1
  <2>2. s[d].hi = m /\ s[d].pc \in Level(d, Len(s)) /\ s[d].pc \in Waiting
    BY <2>1 DEF Layered, Nested
  <2>3. s[d].pc \in IF d = 1 THEN {"item"} ELSE {"paren", "operand"}
    BY <2>1, <2>2 DEF Level, Loops, Waiting
  <2> QED
    BY <2>1, <2>2, <2>3 DEF Level, Loops
<1> QED
  BY <1>1, <1>2 DEF Layered

-----------------------------------------------------------------------------
(* The nodes: bodies, numbers and operations.                              *)

\* An operation has a left operand, and a right one too unless it is one of S,
\* those whose right operand is being parsed.
Complete(ns, S) ==
  /\ S \subseteq DOMAIN ns
  /\ \A n \in S : ns[n].type = "oper" /\ ~ns[n].wrapped
  /\ \A n \in DOMAIN ns :
       ns[n].type = "oper" => ns[n].left # NULL /\ (ns[n].right # NULL \/ n \in S)

\* The nodes ms are those there are, which keep their kind and lose no operand,
\* and at most one more.
Grown(ms) ==
  /\ \A n \in DOMAIN ms : n \in DOMAIN nodes \/ n = nextId
  /\ \A n \in DOMAIN nodes :
       /\ n \in DOMAIN ms
       /\ ms[n].type = nodes[n].type /\ ms[n].wrapped = nodes[n].wrapped
       /\ nodes[n].left # NULL => ms[n].left # NULL
       /\ nodes[n].right # NULL => ms[n].right # NULL

\* That, and there are no other nodes.
Built(ns, S) == Complete(ns, S) /\ \A n \in DOMAIN ns : ns[n].type \in {"body", "num", "oper"}

LEMMA CompleteNew ==
  ASSUME NEW S, Complete(nodes, S), nextId \notin DOMAIN nodes, NEW rec, New(nodes, rec)
  PROVE  /\ rec.type # "oper" => Complete(nodes', S)
         /\ rec.type = "oper" /\ rec.left # NULL /\ ~rec.wrapped =>
              Complete(nodes', S \cup {nextId})
         /\ \A m \in DOMAIN nodes' :
              nodes'[m].type = rec.type \/ (m \in DOMAIN nodes /\ nodes'[m] = nodes[m])
<1>1. /\ DOMAIN nodes' = DOMAIN nodes \cup {nextId} /\ nodes'[nextId] = rec
      /\ \A m \in DOMAIN nodes : nodes'[m] = nodes[m]
  BY AddedNode
<1>2. nextId \notin S
  BY DEF Complete
<1> QED
  BY <1>1, <1>2 DEF Complete

LEMMA BuiltNew ==
  ASSUME NEW S, Built(nodes, S), nextId \notin DOMAIN nodes, NEW rec, New(nodes, rec)
  PROVE  /\ rec.type = "num" => Built(nodes', S)
         /\ rec.type = "oper" /\ rec.left # NULL /\ ~rec.wrapped =>
              Built(nodes', S \cup {nextId})
BY CompleteNew DEF Built

LEMMA NodeUpdate ==
  ASSUME NodesTyped(nodes), NEW n \in DOMAIN nodes, NEW e
  PROVE  /\ LET t == [nodes EXCEPT ![n].right = e]
             IN  /\ t[n].type = nodes[n].type /\ t[n].left = nodes[n].left /\ t[n].right = e
                 /\ t[n].wrapped = nodes[n].wrapped
         /\ LET t == [nodes EXCEPT ![n].wrapped = e]
             IN  /\ t[n].type = nodes[n].type /\ t[n].left = nodes[n].left
                 /\ t[n].right = nodes[n].right
<1> DEFINE r == [nodes EXCEPT ![n].right = e]
           w == [nodes EXCEPT ![n].wrapped = e]
<1>1. nodes[n] \in NodeRecord
  BY DEF NodesTyped
<1>2. r[n] = [nodes[n] EXCEPT !.right = e] /\ w[n] = [nodes[n] EXCEPT !.wrapped = e]
  OBVIOUS
<1> HIDE DEF r, w
<1>3. /\ r[n].type = nodes[n].type /\ r[n].left = nodes[n].left /\ r[n].right = e
      /\ r[n].wrapped = nodes[n].wrapped
      /\ w[n].type = nodes[n].type /\ w[n].left = nodes[n].left /\ w[n].right = nodes[n].right
  BY <1>1, <1>2 DEF NodeRecord
<1> QED
  BY <1>3 DEF r, w

LEMMA CompleteUpdate ==
  ASSUME NodesTyped(nodes), NEW S, NEW n \in Nat, NEW e
  PROVE  /\ Complete(nodes, S \cup {n}) /\ n \notin S /\ e # NULL =>
              Complete([nodes EXCEPT ![n].right = e], S)
         /\ Complete(nodes, S) /\ n \notin S => Complete([nodes EXCEPT ![n].wrapped = e], S)
         /\ DOMAIN [nodes EXCEPT ![n].right = e] = DOMAIN nodes
         /\ DOMAIN [nodes EXCEPT ![n].wrapped = e] = DOMAIN nodes
         /\ \A m \in DOMAIN nodes : /\ [nodes EXCEPT ![n].right = e][m].type = nodes[m].type
                                    /\ [nodes EXCEPT ![n].wrapped = e][m].type = nodes[m].type
<1> DEFINE r == [nodes EXCEPT ![n].right = e]
           w == [nodes EXCEPT ![n].wrapped = e]
<1>1. /\ DOMAIN r = DOMAIN nodes /\ DOMAIN w = DOMAIN nodes
      /\ \A m \in DOMAIN nodes : m # n => r[m] = nodes[m] /\ w[m] = nodes[m]
  OBVIOUS
<1>2. ASSUME n \in DOMAIN nodes
      PROVE  /\ r[n].type = nodes[n].type /\ r[n].left = nodes[n].left /\ r[n].right = e
             /\ r[n].wrapped = nodes[n].wrapped
             /\ w[n].type = nodes[n].type /\ w[n].left = nodes[n].left
             /\ w[n].right = nodes[n].right
  BY <1>2, NodeUpdate
<1> HIDE DEF r, w
<1>3. Complete(nodes, S \cup {n}) /\ n \notin S /\ e # NULL => Complete(r, S)
  BY <1>1, <1>2 DEF Complete
<1>4. Complete(nodes, S) /\ n \notin S => Complete(w, S)
  BY <1>1, <1>2 DEF Complete
<1>5. \A m \in DOMAIN nodes : r[m].type = nodes[m].type /\ w[m].type = nodes[m].type
  BY <1>1, <1>2
<1> QED
  BY <1>1, <1>3, <1>4, <1>5 DEF r, w

LEMMA BuiltUpdate ==
  ASSUME NodesTyped(nodes), NEW S, NEW n \in Nat, NEW e
  PROVE  /\ Built(nodes, S \cup {n}) /\ n \notin S /\ e # NULL =>
              Built([nodes EXCEPT ![n].right = e], S)
         /\ Built(nodes, S) /\ n \notin S => Built([nodes EXCEPT ![n].wrapped = e], S)
<1> DEFINE r == [nodes EXCEPT ![n].right = e]
           w == [nodes EXCEPT ![n].wrapped = e]
<1>1. /\ Complete(nodes, S \cup {n}) /\ n \notin S /\ e # NULL => Complete(r, S)
      /\ Complete(nodes, S) /\ n \notin S => Complete(w, S)
      /\ DOMAIN r = DOMAIN nodes /\ DOMAIN w = DOMAIN nodes
      /\ \A m \in DOMAIN nodes : r[m].type = nodes[m].type /\ w[m].type = nodes[m].type
  BY CompleteUpdate, Zenon
<1> HIDE DEF r, w
<1>2. /\ Built(nodes, S \cup {n}) /\ n \notin S /\ e # NULL => Built(r, S)
      /\ Built(nodes, S) /\ n \notin S => Built(w, S)
  BY <1>1 DEF Built
<1> QED
  BY <1>2 DEF r, w

\* The regrouping of an operation and its right operand, that both are complete.
LEMMA CompleteRotate ==
  ASSUME NodesTyped(nodes), Forest(nodes), NEW S, Complete(nodes, S),
         NEW n \in DOMAIN nodes \ S, nodes[n].type = "oper",
         NEW r \in DOMAIN nodes \ S, nodes[r].type = "oper", r = nodes[n].right,
         NEW t, t = Rotate(n, r)
  PROVE  Complete(t, S) /\ DOMAIN t = DOMAIN nodes /\ Grown(t)
<1>1. /\ r # n /\ DOMAIN t = DOMAIN nodes
      /\ \A m \in DOMAIN nodes : m # n /\ m # r => t[m] = nodes[m]
      /\ t[n].type = nodes[n].type /\ t[n].left = r /\ t[n].right = nodes[r].right
      /\ t[r].type = nodes[r].type /\ t[r].left = nodes[n].left /\ t[r].right = nodes[r].left
  BY RotateFacts
<1>2. NULL \notin DOMAIN nodes
  BY DEF NodesTyped
<1>3. Complete(t, S)
  BY <1>1, <1>2 DEF Complete
<1>4. t[n].wrapped = nodes[n].wrapped /\ t[r].wrapped = nodes[r].wrapped
  BY RotateFacts
<1>5. /\ nodes[n].left # NULL /\ nodes[r].left # NULL /\ nodes[r].right # NULL
      /\ n \in DOMAIN nodes /\ r \in DOMAIN nodes /\ r # NULL
  BY <1>2 DEF Complete
<1>6. Grown(t)
  BY <1>1, <1>4, <1>5 DEF Grown
<1> QED
  BY <1>1, <1>3, <1>6

-----------------------------------------------------------------------------
(* The invariant: the parser has understood what it has read, or the list  *)
(* is none and the parser has given up or is about to.                     *)

\* What a call f, on top of n - 1 others, knows of the tokens around p, and that
\* it has been answered with an expression e.
Reads(f, n, e, p) ==
  /\ f.pc \in Loops => Between(p)
  /\ f.pc = "start" => IF n = 2 THEN Between(p) ELSE Expected(p)
  /\ f.pc = "next" => f.res # NULL /\ Past(p)
  /\ f.pc \in {"paren", "operand"} => e # NULL /\ Ended(p)
  /\ f.pc = "settle" => Ended(p)

\* process_operation is at work on operations that are complete.
Regrouping(s, cl, ns) ==
  cl # <<>> =>
    /\ s # <<>> /\ s[Len(s)].pc = "settle"
    /\ \A j \in 1..Len(cl) : /\ cl[j].fn = "process_operation"
                             /\ cl[j].node \in DOMAIN ns \ Below(s)

Course(ns, s, r, cl, ft, p) ==
  /\ ft = "none" /\ ~r.error
  /\ Built(ns, Awaited(s))
  /\ Layered(s, Len(tokens))
  /\ Regrouping(s, cl, ns)
  /\ s # <<>> => Depth(p) = Opened(s) /\ Reads(s[Len(s)], Len(s), r.expr, p)
  /\ s = <<>> => r.expr # NULL /\ IsExpressionList

OnCourse == NodesInv /\ Course(nodes, stack, ret, calls, fault, pos)

\* The program has died, or an error or no tree is on its way to main, or there
\* is no expression where "(" or an operator needs one.
Lost(ns, s, r, cl, ft) ==
  \/ ft # "none"
  \/ /\ r.expr = NULL /\ (s = <<>> \/ r.error)
     /\ \A d \in 1..Len(s) : s[d].pc \in IF d = 1 THEN {"item"} ELSE {"paren", "operand"}
  \/ /\ r.expr = NULL /\ ~r.error /\ cl = <<>> /\ s # <<>>
     /\ \/ s[Len(s)].pc = "paren"
        \/ s[Len(s)].pc = "operand" /\ Open(ns, s[Len(s)].res)
  \/ /\ cl # <<>> /\ Head(cl).fn = "process_operation"
     /\ Open(ns, Head(cl).node) /\ ns[Head(cl).node].right = NULL

ExprInv ==
  Plain /\ phase = "parse" =>
    OnCourse \/ (Lost(nodes, stack, ret, calls, fault) /\ ~IsExpressionList)

LEMMA CourseLater ==
  ASSUME UNCHANGED tokens, NodesInv', Course(nodes', stack', ret', calls', fault', pos')
  PROVE  OnCourse'
<1>1. /\ \A p : Depth(p)' = Depth(p) /\ After(p)' = After(p)
      /\ \A p : RightBefore(p)' <=> RightBefore(p)
      /\ IsExpressionList' <=> IsExpressionList
  BY SameTokens
<1>2. \A p : Before(p)' = Before(p)
  BY DEF Before
<1>3. \A p : /\ Between(p)' <=> Between(p)
             /\ Past(p)' <=> Past(p)
  BY <1>1, <1>2 DEF Between, Past
<1>4. \A p : /\ Expected(p)' <=> Expected(p)
             /\ Ended(p)' <=> Ended(p)
  BY <1>1, <1>3 DEF Expected, Ended
<1>5. \A f, n, e, p : Reads(f, n, e, p)' <=> Reads(f, n, e, p)
  BY <1>3, <1>4 DEF Reads
<1>6. Course(nodes, stack, ret, calls, fault, pos)'
  BY <1>1, <1>5 DEF Course
<1> QED
  BY <1>6 DEF OnCourse

\* What an action of the call on top starts from.
LEMMA AtCourse ==
  ASSUME IInv, OnCourse, NEW pc, At(pc)
  PROVE  /\ tokens \in Seq(TokenKinds) /\ Len(tokens) \in Nat /\ UNCHANGED tokens
         /\ pos \in Nat \ {0} /\ pos <= Len(tokens) + 1
         /\ pc \in Reading => pos \in 1..Len(tokens)
         /\ calls = <<>> /\ fault = "none" /\ ~ret.error
         /\ stack \in Seq(FrameRecord) /\ stack # <<>> /\ Len(stack) \in Nat \ {0}
         /\ Layered(stack, Len(tokens)) /\ Nested(stack, Len(tokens))
         /\ Top = stack[Len(stack)] /\ Top \in FrameRecord /\ Top.res \in Nat
         /\ Top.pc = pc /\ Top.hi = Len(tokens) /\ pc \in Level(Len(stack), Len(stack))
         /\ OpenedBelow(stack) \in Nat /\ (Len(stack) <= 2 => OpenedBelow(stack) = 0)
         /\ Depth(pos) = IF pc = "paren" THEN OpenedBelow(stack) + 1 ELSE OpenedBelow(stack)
         /\ AwaitedBelow(stack) \subseteq Below(stack)
         /\ Built(nodes, AwaitedBelow(stack) \cup IF pc = "operand" THEN {Top.res} ELSE {})
         /\ Reads(Top, Len(stack), ret.expr, pos)
<1>1. /\ calls = <<>> /\ fault = "none" /\ UNCHANGED tokens /\ stack # <<>> /\ Top.pc = pc
      /\ StackInv /\ Top = stack[Len(stack)]
  BY DEF At, IInv, Top
<1>2. /\ tokens \in Seq(TokenKinds) /\ stack \in Seq(FrameRecord) /\ pos \in Nat \ {0}
      /\ Nested(stack, Len(tokens))
  BY <1>1 DEF StackInv
<1>3. /\ Len(stack) \in Nat \ {0} /\ Top \in FrameRecord /\ Top.res \in Nat
      /\ Len(tokens) \in Nat /\ pos <= Top.hi + 1 /\ Top.hi <= Len(tokens)
      /\ pc \in Reading => pos \in 1..Len(tokens)
  BY <1>1, TopFacts
<1>4. /\ ~ret.error /\ Built(nodes, Awaited(stack)) /\ Layered(stack, Len(tokens))
      /\ Depth(pos) = Opened(stack) /\ Reads(Top, Len(stack), ret.expr, pos)
      /\ NodesInv
  BY <1>1 DEF OnCourse, Course
<1>5. Top.hi = Len(tokens) /\ pc \in Level(Len(stack), Len(stack))
  <2>1. Len(stack) \in 1..Len(stack)
    BY <1>3
  <2> QED
    BY <1>1, <1>4, <2>1 DEF Layered
<1>6. /\ OpenedBelow(stack) \in Nat
      /\ Opened(stack) = IF pc = "paren" THEN OpenedBelow(stack) + 1 ELSE OpenedBelow(stack)
      /\ Awaited(stack) = AwaitedBelow(stack) \cup IF pc = "operand" THEN {Top.res} ELSE {}
  BY <1>1, <1>2, TopLayer
<1>7. Len(stack) <= 2 => OpenedBelow(stack) = 0
  <2> SUFFICES ASSUME Len(stack) <= 2 PROVE OpenedBelow(stack) = 0
    OBVIOUS
  <2>1. \A d \in 1..Len(stack) - 1 : d = 1 /\ d \in 1..Len(stack)
    BY <1>3
  <2>2. \A d \in 1..Len(stack) - 1 : stack[d].pc # "paren"
    BY <1>4, <2>1 DEF Layered, Level, Loops
  <2>3. {d \in 1..Len(stack) - 1 : stack[d].pc = "paren"} = {}
    BY <2>2
  <2> QED
    BY <2>3, FS_EmptySet DEF OpenedBelow
<1>8. AwaitedBelow(stack) \subseteq Below(stack)
  <2>1. \A d \in 1..Len(stack) - 1 : d \in 1..Len(stack)
    BY <1>3
  <2>2. \A d \in 1..Len(stack) - 1 : stack[d].pc = "operand" => stack[d].res # NULL
    BY <1>4, <2>1 DEF NodesInv, FramesOK, FrameOK
  <2> QED
    BY <2>2 DEF AwaitedBelow, Below
<1> QED
  BY <1>1, <1>2, <1>3, <1>4, <1>5, <1>6, <1>7, <1>8

\* The call on top goes on.
LEMMA ContinueCourse ==
  ASSUME IInv, OnCourse, NEW pc, At(pc), NEW f \in FrameRecord, NEW p, Continue(f, p),
         f.hi = Len(tokens), f.pc \in Level(Len(stack), Len(stack)) \ {"paren", "operand"},
         Built(nodes', AwaitedBelow(stack)), Depth(p) = OpenedBelow(stack),
         Reads(f, Len(stack), NULL, p)
  PROVE  Course(nodes', stack', ret', calls', fault', pos')
<1>1. /\ stack \in Seq(FrameRecord) /\ stack # <<>> /\ Layered(stack, Len(tokens))
      /\ calls = <<>> /\ fault = "none"
  BY AtCourse
<1>2. /\ stack' = Replaced(stack, f) /\ pos' = p /\ ret' = Nothing
      /\ calls' = <<>> /\ fault' = "none"
  BY <1>1 DEF Continue, Replaced
<1>3. /\ stack' \in Seq(FrameRecord) /\ stack' # <<>> /\ Len(stack') = Len(stack)
      /\ stack'[Len(stack')] = f /\ Layered(stack', Len(tokens))
      /\ OpenedBelow(stack') = OpenedBelow(stack) /\ AwaitedBelow(stack') = AwaitedBelow(stack)
  BY <1>1, <1>2, ReplaceLayer
<1>4. /\ Opened(stack') = OpenedBelow(stack) /\ Awaited(stack') = AwaitedBelow(stack)
  <2>1. f.pc # "paren" /\ f.pc # "operand"
    OBVIOUS
  <2>2. /\ Opened(stack') = IF f.pc = "paren" THEN OpenedBelow(stack') + 1 ELSE OpenedBelow(stack')
        /\ Awaited(stack') = AwaitedBelow(stack') \cup IF f.pc = "operand" THEN {f.res} ELSE {}
    BY <1>3, TopLayer
  <2> QED
    BY <1>3, <2>1, <2>2
<1>5. ret'.expr = NULL /\ ~ret'.error
  BY <1>2 DEF Nothing
<1> QED
  BY <1>2, <1>3, <1>4, <1>5 DEF Course, Regrouping

\* It calls.
LEMMA CallCourse ==
  ASSUME IInv, OnCourse, NEW pc, At(pc), NEW f \in FrameRecord, NEW p, Call(f, p),
         f.hi = Len(tokens), f.pc \in IF Len(stack) = 1 THEN {"item"} ELSE {"paren", "operand"},
         Built(nodes', AwaitedBelow(stack) \cup IF f.pc = "operand" THEN {f.res} ELSE {}),
         Depth(p) = IF f.pc = "paren" THEN OpenedBelow(stack) + 1 ELSE OpenedBelow(stack),
         IF Len(stack) = 1 THEN Between(p) ELSE Expected(p)
  PROVE  Course(nodes', stack', ret', calls', fault', pos')
<1> DEFINE r == Replaced(stack, f)
           g == Frame("start", f.pc = "item", NULL, f.hi)
<1>1. /\ stack \in Seq(FrameRecord) /\ stack # <<>> /\ Layered(stack, Len(tokens))
      /\ calls = <<>> /\ fault = "none" /\ Len(stack) \in Nat \ {0}
  BY AtCourse
<1>2. /\ stack' = Extended(r, g) /\ pos' = p /\ ret' = Nothing
      /\ calls' = <<>> /\ fault' = "none"
  BY <1>1 DEF Call, Replaced, Extended
<1>3. g \in FrameRecord /\ g.pc = "start" /\ g.hi = Len(tokens)
  BY FrameFields DEF Frame, FrameRecord, PCs, NULL
<1>4. f.pc \in Level(Len(stack), Len(stack))
  BY DEF Level, Loops
<1>5. /\ r \in Seq(FrameRecord) /\ r # <<>> /\ Len(r) = Len(stack) /\ r[Len(r)] = f
      /\ OpenedBelow(r) = OpenedBelow(stack) /\ AwaitedBelow(r) = AwaitedBelow(stack)
      /\ Layered(r, Len(tokens))
  BY <1>1, <1>4, ReplaceLayer
<1>6. /\ Opened(r) = IF f.pc = "paren" THEN OpenedBelow(r) + 1 ELSE OpenedBelow(r)
      /\ Awaited(r) = AwaitedBelow(r) \cup IF f.pc = "operand" THEN {f.res} ELSE {}
  BY <1>5, TopLayer
<1> HIDE DEF r, g
<1>7. r[Len(r)].pc \in Level(Len(r), Len(r) + 1)
  BY <1>1, <1>5 DEF Level, Loops
<1>8. /\ stack' \in Seq(FrameRecord) /\ stack' # <<>> /\ Len(stack') = Len(r) + 1
      /\ stack'[Len(stack')] = g
      /\ OpenedBelow(stack') = Opened(r) /\ AwaitedBelow(stack') = Awaited(r)
      /\ Layered(stack', Len(tokens))
  <2>1. /\ r \in Seq(FrameRecord) /\ r # <<>> /\ Layered(r, Len(tokens))
        /\ stack' = Extended(r, g)
    BY <1>2, <1>5
  <2> QED
    BY <1>3, <1>7, <2>1, AppendLayer
<1>9. /\ Opened(stack') = Opened(r) /\ Awaited(stack') = Awaited(r)
  <2>1. /\ Opened(stack') = IF g.pc = "paren" THEN OpenedBelow(stack') + 1 ELSE OpenedBelow(stack')
        /\ Awaited(stack') = AwaitedBelow(stack') \cup IF g.pc = "operand" THEN {g.res} ELSE {}
    BY <1>8, TopLayer
  <2>2. g.pc # "paren" /\ g.pc # "operand"
    BY <1>3
  <2> QED
    BY <1>8, <2>1, <2>2
<1>10. ret'.expr = NULL /\ ~ret'.error
  BY <1>2 DEF Nothing
<1>11. Len(stack') = 2 <=> Len(stack) = 1
  BY <1>1, <1>5, <1>8
<1>12. Reads(g, Len(stack'), NULL, p)
  BY <1>3, <1>11 DEF Reads, Loops
<1> QED
  BY <1>2, <1>5, <1>6, <1>8, <1>9, <1>10, <1>12 DEF Course, Regrouping

\* It returns.
LEMMA ReturnCourse ==
  ASSUME IInv, OnCourse, NEW pc, At(pc), NEW e, NEW p, Return(e, p),
         Built(nodes', AwaitedBelow(stack)), Depth(p) = OpenedBelow(stack),
         Len(stack) = 1 => e # NULL /\ IsExpressionList,
         Len(stack) = 2 => Between(p),
         Len(stack) > 2 => e # NULL /\ Ended(p)
  PROVE  Course(nodes', stack', ret', calls', fault', pos')
<1>1. /\ stack \in Seq(FrameRecord) /\ stack # <<>> /\ Layered(stack, Len(tokens))
      /\ calls = <<>> /\ fault = "none" /\ Len(stack) \in Nat \ {0}
      /\ Nested(stack, Len(tokens))
  BY AtCourse
<1>2. /\ stack' = Popped(stack) /\ pos' = p
      /\ ret' = [expr |-> e, error |-> FALSE] /\ calls' = <<>> /\ fault' = "none"
  BY <1>1 DEF Return, Pop, Popped
<1>3. /\ stack' \in Seq(FrameRecord) /\ Len(stack') = Len(stack) - 1
      /\ stack' = <<>> <=> Len(stack) = 1
      /\ \A d \in 1..Len(stack') : stack'[d].pc \in IF d = 1 THEN {"item"} ELSE {"paren", "operand"}
      /\ Opened(stack') = OpenedBelow(stack) /\ Awaited(stack') = AwaitedBelow(stack)
      /\ Layered(stack', Len(tokens))
  BY <1>1, <1>2, PopLayer
<1>4. ret'.expr = e /\ ~ret'.error
  BY <1>2
<1>5. stack' # <<>> => Reads(stack'[Len(stack')], Len(stack'), e, p)
  <2> SUFFICES ASSUME stack' # <<>> PROVE Reads(stack'[Len(stack')], Len(stack'), e, p)
    OBVIOUS
  <2>1. /\ Len(stack') \in 1..Len(stack')
        /\ Len(stack') = 1 => Len(stack) = 2
        /\ Len(stack') # 1 => Len(stack) > 2
    BY <1>1, <1>3
  <2>2. CASE Len(stack') = 1
    <3>1. stack'[Len(stack')].pc = "item"
      BY <1>3, <2>1, <2>2
    <3> QED
      BY <2>1, <2>2, <3>1 DEF Reads
  <2>3. CASE Len(stack') # 1
    <3>1. stack'[Len(stack')].pc \in {"paren", "operand"}
      BY <1>3, <2>1, <2>3
    <3> QED
      BY <2>1, <2>3, <3>1 DEF Reads, Loops
  <2> QED
    BY <2>2, <2>3
<1> QED
  BY <1>1, <1>2, <1>3, <1>4, <1>5 DEF Course, Regrouping

\* It has read an operand.
LEMMA ThenNextCourse ==
  ASSUME IInv, OnCourse, NEW pc \in {"start", "paren"}, At(pc), NEW x \in Nat \ {NULL},
         NEW p \in Nat, ThenNext(x, p),
         Built(nodes', AwaitedBelow(stack)), Depth(p) = OpenedBelow(stack), Past(p)
  PROVE  Course(nodes', stack', ret', calls', fault', pos')
<1>1. /\ Top \in FrameRecord /\ Top.hi = Len(tokens) /\ Len(tokens) \in Nat
      /\ Len(stack) \in Nat \ {0} /\ pc \in Level(Len(stack), Len(stack))
      /\ Len(stack) <= 2 => OpenedBelow(stack) = 0
  BY AtCourse
<1>2. Len(stack) # 1 /\ "next" \in Level(Len(stack), Len(stack))
  BY <1>1 DEF Level, Loops
<1>3. CASE p > Len(tokens)
  <2>1. Return(x, p)
    BY <1>1, <1>3 DEF ThenNext
  <2>2. Ended(p)
    BY <1>1, <1>3 DEF Ended
  <2>3. Len(stack) = 2 => Between(p)
    BY <1>1, <2>2, EndedOutside
  <2> QED
    BY <1>2, <2>1, <2>2, <2>3, ReturnCourse
<1>4. CASE ~(p > Len(tokens))
  <2> DEFINE f == [Top EXCEPT !.pc = "next", !.res = x]
  <2>1. Continue(f, p)
    BY <1>1, <1>4 DEF ThenNext
  <2>2. f \in FrameRecord /\ f.pc = "next" /\ f.hi = Len(tokens) /\ f.res = x
    BY <1>1 DEF FrameRecord, PCs
  <2> HIDE DEF f
  <2>3. Reads(f, Len(stack), NULL, p)
    BY <2>2 DEF Reads, Loops
  <2> QED
    BY <1>2, <2>1, <2>2, <2>3, ContinueCourse
<1> QED
  BY <1>3, <1>4

\* It fails: an error is on its way.
LEMMA FailLost ==
  ASSUME IInv, NEW pc, At(pc), Layered(stack, Len(tokens)), NEW x, Fail(x) \/ FailAgain(x)
  PROVE  Lost(nodes', stack', ret', calls', fault')
<1>1. /\ stack \in Seq(FrameRecord) /\ stack # <<>> /\ Nested(stack, Len(tokens))
  BY DEF At, IInv, StackInv
<1>2. /\ stack' = Popped(stack) /\ ret' = [expr |-> NULL, error |-> TRUE]
  BY DEF Fail, FailAgain, Abort, Pop, Popped
<1>3. \A d \in 1..Len(stack') : stack'[d].pc \in IF d = 1 THEN {"item"} ELSE {"paren", "operand"}
  BY <1>1, <1>2, PopLayer
<1>4. ret'.expr = NULL /\ ret'.error
  BY <1>2
<1> QED
  BY <1>3, <1>4 DEF Lost

\* The program dies.
LEMMA CrashLost ==
  ASSUME NEW site, site # "none", Crash(site)
  PROVE  Lost(nodes', stack', ret', calls', fault')
BY DEF Crash, Lost

-----------------------------------------------------------------------------
(* The actions on a list that is understood so far.                        *)

\* The step shows that the list is none.
GoesWrong ==
  UNCHANGED tokens /\ Lost(nodes', stack', ret', calls', fault') /\ ~IsExpressionList

\* At the beginning of ast_parse_expr: what it was called for, and what is known.
LEMMA StartCourse ==
  ASSUME IInv, OnCourse, At("start")
  PROVE  /\ Len(stack) \in Nat \ {0, 1} /\ Built(nodes, AwaitedBelow(stack))
         /\ Depth(pos) = OpenedBelow(stack) /\ pos \in 1..Len(tokens)
         /\ Len(stack) = 2 => Between(pos) /\ Depth(pos) = 0
         /\ Len(stack) # 2 => Expected(pos)
         /\ Token \in {"num", "lparen"} => RightBefore(pos)
<1>1. /\ Len(stack) \in Nat \ {0} /\ "start" \in Level(Len(stack), Len(stack))
      /\ Len(stack) <= 2 => OpenedBelow(stack) = 0
      /\ Depth(pos) = OpenedBelow(stack) /\ Built(nodes, AwaitedBelow(stack))
      /\ Top.pc = "start" /\ Reads(Top, Len(stack), ret.expr, pos)
      /\ pos \in 1..Len(tokens)
  BY AtCourse, Points
<1>2. Len(stack) # 1
  BY <1>1 DEF Level, Loops
<1>3. IF Len(stack) = 2 THEN Between(pos) ELSE Expected(pos)
  BY <1>1 DEF Reads
<1>4. Token \in {"num", "lparen"} => RightBefore(pos)
  BY <1>3 DEF Between, Expected, Token
<1>5. Len(stack) \in Nat \ {0, 1}
  BY <1>1, <1>2
<1>6. Len(stack) = 2 => Depth(pos) = 0
  BY <1>1
<1> QED
  BY <1>1, <1>3, <1>4, <1>5, <1>6

\* A separator: between expressions it is right, in the place of an operand
\* there may only be none.
LEMMA SkipTokenExpr == IInv /\ OnCourse /\ Plain /\ SkipToken => OnCourse' \/ GoesWrong
<1> SUFFICES ASSUME IInv, OnCourse, Plain, SkipToken PROVE OnCourse' \/ GoesWrong
  OBVIOUS
<1>1. /\ At("start") /\ Return(NULL, pos + 1) /\ UNCHANGED heap /\ UNCHANGED nodes
      /\ Token \in {"newline", "semicolon", "rbrace", "comma", "other"}
  BY DEF SkipToken, heap
<1>2. /\ tokens \in Seq(TokenKinds) /\ Len(tokens) \in Nat /\ UNCHANGED tokens
      /\ stack \in Seq(FrameRecord) /\ stack # <<>> /\ Layered(stack, Len(tokens))
      /\ Nested(stack, Len(tokens)) /\ calls = <<>> /\ Token = tokens[pos]
  BY <1>1, AtCourse DEF Token
<1>3. /\ Len(stack) \in Nat \ {0, 1} /\ Built(nodes, AwaitedBelow(stack))
      /\ Depth(pos) = OpenedBelow(stack) /\ pos \in 1..Len(tokens)
      /\ Len(stack) = 2 => Between(pos) /\ Depth(pos) = 0
      /\ Len(stack) # 2 => Expected(pos)
  BY <1>1, StartCourse
<1>4. tokens[pos] \in {"newline", "semicolon"}
  BY <1>1, <1>2, <1>3 DEF Plain, Operators
<1>5. CASE Len(stack) = 2
  <2>1. Grammatical(pos)
    BY <1>3, <1>4, <1>5 DEF Grammatical, Operators
  <2>2. RightBefore(pos + 1)
    BY <1>2, <1>3, <1>5, <2>1, OneMore DEF Between
  <2>3. Before(pos + 1) = tokens[pos]
    BY <1>2, <1>3 DEF Before
  <2>4. Between(pos + 1)
    BY <1>4, <2>2, <2>3 DEF Between
  <2>5. Depth(pos + 1) = OpenedBelow(stack)
    BY <1>2, <1>3, <1>4, DepthNext
  <2>6. Course(nodes', stack', ret', calls', fault', pos')
    BY <1>1, <1>3, <1>5, <2>4, <2>5, ReturnCourse
  <2>7. NodesInv'
    BY SkipTokenNodes DEF OnCourse
  <2> QED
    BY <1>2, <2>6, <2>7, CourseLater
<1>6. CASE Len(stack) # 2
  <2>1. ~IsExpressionList
    BY <1>2, <1>3, <1>4, <1>6, Unexpected
  <2>2. stack' = Popped(stack) /\ ret' = [expr |-> NULL, error |-> FALSE] /\ calls' = <<>>
    BY <1>1, <1>2 DEF Return, Pop, Popped
  <2>3. /\ Len(stack') = Len(stack) - 1 /\ (stack' = <<>> <=> Len(stack) = 1)
        /\ \A d \in 1..Len(stack') :
             stack'[d].pc \in IF d = 1 THEN {"item"} ELSE {"paren", "operand"}
        /\ Awaited(stack') = AwaitedBelow(stack)
    BY <1>2, <2>2, PopLayer
  <2>4. Len(stack') \in 1..Len(stack') /\ Len(stack') # 1 /\ stack' # <<>>
    BY <1>3, <1>6, <2>3
  <2> DEFINE f == stack'[Len(stack')]
  <2>5. f.pc \in {"paren", "operand"}
    BY <2>3, <2>4
  <2>6. f.pc = "operand" => f.res \in Awaited(stack')
    BY <2>4 DEF Awaited
  <2>7. f.pc = "operand" => Open(nodes', f.res)
    BY <1>1, <1>3, <2>3, <2>6 DEF Built, Complete, Open
  <2>8. ret'.expr = NULL /\ ~ret'.error
    BY <2>2
  <2>9. Lost(nodes', stack', ret', calls', fault')
    BY <2>2, <2>4, <2>5, <2>7, <2>8 DEF Lost
  <2> QED
    BY <1>2, <2>1, <2>9 DEF GoesWrong
<1> QED
  BY <1>5, <1>6

\* No expression begins with an operator or a ")".
LEMMA RejectTokenExpr == IInv /\ OnCourse /\ Plain /\ RejectToken => OnCourse' \/ GoesWrong
<1> SUFFICES ASSUME IInv, OnCourse, Plain, RejectToken PROVE GoesWrong
  OBVIOUS
<1>1. At("start") /\ Fail(NULL) /\ Token \in Operators \cup {"keyword", "rparen"}
  BY DEF RejectToken
<1>2. /\ tokens \in Seq(TokenKinds) /\ UNCHANGED tokens /\ Layered(stack, Len(tokens))
      /\ Token = tokens[pos]
  BY <1>1, AtCourse DEF Token
<1>3. /\ pos \in 1..Len(tokens)
      /\ Len(stack) = 2 => Between(pos) /\ Depth(pos) = 0
      /\ Len(stack) # 2 => Expected(pos)
  BY <1>1, StartCourse
<1>4. tokens[pos] \in Operators \/ tokens[pos] = "rparen"
  BY <1>1, <1>2, <1>3 DEF Plain, Operators
<1>5. ~IsExpressionList
  <2>1. CASE Len(stack) = 2
    <3>1. ~Grammatical(pos)
      BY <1>3, <1>4, <2>1 DEF Between, Grammatical
    <3> QED
      BY <1>2, <1>3, <3>1, Ungrammatical
  <2>2. CASE Len(stack) # 2
    BY <1>2, <1>3, <1>4, <2>2, Unexpected DEF Operators
  <2> QED
    BY <2>1, <2>2
<1> QED
  BY <1>1, <1>2, <1>5, FailLost DEF GoesWrong

\* A number is an operand.
LEMMA LiteralExpr == IInv /\ OnCourse /\ Plain /\ Literal => OnCourse' \/ GoesWrong
<1> SUFFICES ASSUME IInv, OnCourse, Plain, Literal PROVE OnCourse'
  OBVIOUS
<1>1. /\ At("start") /\ Token \in {"string", "num"} /\ ThenNext(nextId, pos + 1)
      /\ New(nodes, Node(Token, pos, IF Token = "string" THEN {ptr[pos]} ELSE {}))
  BY DEF Literal
<1>2. /\ tokens \in Seq(TokenKinds) /\ UNCHANGED tokens /\ Token = tokens[pos]
  BY <1>1, AtCourse DEF Token
<1>3. /\ pos \in 1..Len(tokens) /\ Built(nodes, AwaitedBelow(stack))
      /\ Depth(pos) = OpenedBelow(stack) /\ (Token \in {"num", "lparen"} => RightBefore(pos))
  BY <1>1, StartCourse
<1>4. Token = "num"
  BY <1>1, <1>2, <1>3 DEF Plain, Operators
<1>5. New(nodes, Node("num", pos, {}))
  BY <1>1, <1>4
<1>6. nextId \notin DOMAIN nodes /\ nextId \in Nat \ {NULL}
  BY <1>1, AtNodes DEF OnCourse, IInv, NodeInv
<1>7. Built(nodes', AwaitedBelow(stack))
  BY <1>3, <1>5, <1>6, BuiltNew, FreshNode
<1>8. Past(pos + 1) /\ Depth(pos + 1) = OpenedBelow(stack)
  BY <1>2, <1>3, <1>4, PastNum
<1>9. Course(nodes', stack', ret', calls', fault', pos')
  BY <1>1, <1>3, <1>6, <1>7, <1>8, ThenNextCourse
<1>10. NodesInv'
  BY LiteralNodes DEF OnCourse
<1> QED
  BY <1>2, <1>9, <1>10, CourseLater

\* A "(" is right if an operand follows; the list is none if it does not.
LEMMA ParenOpenExpr == IInv /\ OnCourse /\ Plain /\ ParenOpen => OnCourse' \/ GoesWrong
<1> SUFFICES ASSUME IInv, OnCourse, Plain, ParenOpen PROVE OnCourse' \/ GoesWrong
  OBVIOUS
<1> DEFINE q == NextToken(pos + 1, Len(tokens))
           f == [Top EXCEPT !.pc = "paren"]
<1>1. /\ At("start") /\ Token = "lparen" /\ UNCHANGED nodes
      /\ IF NextToken(pos + 1, Top.hi) > Top.hi THEN Fail(NULL)
         ELSE IF tokens[NextToken(pos + 1, Top.hi)] = "rparen"
                THEN ThenNext(NULL, NextToken(pos + 1, Top.hi) + 1)
         ELSE Call([Top EXCEPT !.pc = "paren"], NextToken(pos + 1, Top.hi))
  BY DEF ParenOpen, heap
<1>2. /\ tokens \in Seq(TokenKinds) /\ UNCHANGED tokens /\ Layered(stack, Len(tokens))
      /\ Token = tokens[pos] /\ Top.hi = Len(tokens) /\ Top \in FrameRecord
      /\ Len(tokens) \in Nat /\ OpenedBelow(stack) \in Nat
  BY <1>1, AtCourse DEF Token
<1>3. /\ Len(stack) \in Nat \ {0, 1} /\ Built(nodes, AwaitedBelow(stack))
      /\ Depth(pos) = OpenedBelow(stack) /\ pos \in 1..Len(tokens)
      /\ RightBefore(pos)
  BY <1>1, StartCourse
<1>4. /\ q \in pos + 1..Len(tokens) + 1
      /\ q <= Len(tokens) => After(pos) = tokens[q]
      /\ q > Len(tokens) => After(pos) = "end"
  BY <1>2, <1>3, NextIsAfter
<1>5. IF q > Len(tokens) THEN Fail(NULL)
      ELSE IF tokens[q] = "rparen" THEN ThenNext(NULL, q + 1) ELSE Call(f, q)
  BY <1>1, <1>2
<1>6. f \in FrameRecord /\ f.pc = "paren" /\ f.hi = Len(tokens)
  BY <1>2 DEF FrameRecord, PCs
<1> HIDE DEF q, f
<1>7. CASE q > Len(tokens)
  <2>1. ~Grammatical(pos)
    BY <1>1, <1>2, <1>4, <1>7 DEF Grammatical
  <2>2. ~IsExpressionList
    BY <1>2, <1>3, <2>1, Ungrammatical
  <2> QED
    BY <1>1, <1>2, <1>5, <1>7, <2>2, FailLost DEF GoesWrong
<1>8. CASE ~(q > Len(tokens))
  <2>1. q <= Len(tokens) /\ q \in Nat
    BY <1>2, <1>3, <1>4, <1>8
  <2>2. tokens[q] # "rparen"
    BY <1>1, <1>2, <1>3, <1>4, <2>1 DEF Plain
  <2>3. Call(f, q)
    BY <1>5, <1>8, <2>2
  <2>4. Expected(q) /\ Depth(q) = Depth(pos + 1)
    BY <1>1, <1>2, <1>3, <2>1, ExpectedNext DEF q
  <2>5. Depth(q) = OpenedBelow(stack) + 1
    BY <1>1, <1>2, <1>3, <2>4, DepthNext
  <2>6. Built(nodes', AwaitedBelow(stack) \cup IF f.pc = "operand" THEN {f.res} ELSE {})
    BY <1>1, <1>3, <1>6
  <2>7. /\ f.pc \in IF Len(stack) = 1 THEN {"item"} ELSE {"paren", "operand"}
        /\ Depth(q) = IF f.pc = "paren" THEN OpenedBelow(stack) + 1 ELSE OpenedBelow(stack)
        /\ IF Len(stack) = 1 THEN Between(q) ELSE Expected(q)
    <3>1. Len(stack) # 1
      BY <1>3
    <3> QED
      BY <1>6, <2>4, <2>5, <3>1
  <2>8. Course(nodes', stack', ret', calls', fault', pos')
    BY <1>1, <1>6, <2>3, <2>6, <2>7, CallCourse
  <2>9. NodesInv'
    BY ParenOpenNodes DEF OnCourse
  <2> QED
    BY <1>2, <2>8, <2>9, CourseLater
<1> QED
  BY <1>7, <1>8

\* Inside parentheses an operand that no operator follows ends at a ")".
LEMMA Unclosed ==
  ASSUME tokens \in Seq(TokenKinds), NEW p \in Nat, Ended(p), Depth(p) > 0,
         After(p - 1) # "rparen"
  PROVE  ~IsExpressionList
<1>1. PICK k \in 1..Len(tokens) : k = p - 1 /\ tokens[k] \in {"num", "rparen"}
  BY DEF Ended, Past
<1>2. k + 1 = p /\ k \in Nat /\ Len(tokens) \in Nat
  BY <1>1, LenProperties
<1>3. Depth(k + 1) > 0 /\ (k + 1 <= Len(tokens) => tokens[k + 1] \notin Operators)
  BY <1>2 DEF Ended
<1>4. Behind(k) \notin Operators
  BY <1>2, <1>3 DEF Behind, Operators
<1>5. ~Grammatical(k)
  BY <1>1, <1>3, <1>4 DEF Grammatical
<1> QED
  BY <1>1, <1>5, Ungrammatical

\* The expression in parentheses has been read.
LEMMA ParenCloseExpr == IInv /\ OnCourse /\ Plain /\ ParenClose => OnCourse' \/ GoesWrong
<1> SUFFICES ASSUME IInv, OnCourse, Plain, ParenClose PROVE OnCourse' \/ GoesWrong
  OBVIOUS
<1> DEFINE q == NextToken(pos, Len(tokens))
           b == nodes[ret.expr].type = "oper"
<1>1. At("paren")
  BY DEF ParenClose
<1>2. /\ tokens \in Seq(TokenKinds) /\ UNCHANGED tokens /\ Layered(stack, Len(tokens))
      /\ Top.hi = Len(tokens) /\ Len(tokens) \in Nat /\ pos \in Nat \ {0} /\ ~ret.error
      /\ OpenedBelow(stack) \in Nat /\ Depth(pos) = OpenedBelow(stack) + 1
      /\ AwaitedBelow(stack) \subseteq Below(stack)
      /\ Built(nodes, AwaitedBelow(stack) \cup {})
      /\ ret.expr # NULL /\ Ended(pos)
  <2>1. /\ Top.pc = "paren" /\ Reads(Top, Len(stack), ret.expr, pos) /\ "paren" # "operand"
        /\ Built(nodes, AwaitedBelow(stack) \cup IF "paren" = "operand" THEN {Top.res} ELSE {})
        /\ Depth(pos) = IF "paren" = "paren" THEN OpenedBelow(stack) + 1 ELSE OpenedBelow(stack)
    BY <1>1, AtCourse
  <2>2. ret.expr # NULL /\ Ended(pos)
    BY <2>1 DEF Reads
  <2> QED
    BY <1>1, <2>1, <2>2, AtCourse
<1>3. /\ nodes' = [nodes EXCEPT ![ret.expr].wrapped = b]
      /\ IF q > Len(tokens) THEN Crash("paren_close")
         ELSE IF tokens[q] # "rparen" THEN Fail(ret.expr)
         ELSE ThenNext(ret.expr, q + 1)
  BY <1>2 DEF ParenClose
<1>4. NodesTyped(nodes) /\ ret.expr \in Nat /\ ret.expr \notin Below(stack)
  BY <1>1, AtNodes DEF OnCourse
<1>5. Built(nodes', AwaitedBelow(stack))
  <2>1. ret.expr \notin AwaitedBelow(stack) /\ Built(nodes, AwaitedBelow(stack))
    BY <1>2, <1>4
  <2> HIDE DEF b
  <2> QED
    BY <1>3, <1>4, <2>1, BuiltUpdate
<1>6. /\ pos - 1 \in 1..Len(tokens) /\ pos - 1 + 1 = pos
      /\ After(pos - 1) = "rparen" => RightBefore(pos)
  BY <1>2 DEF Ended, Past
<1>7. /\ q \in pos..Len(tokens) + 1
      /\ \A j \in pos..q - 1 : tokens[j] = "newline"
      /\ q <= Len(tokens) => After(pos - 1) = tokens[q]
      /\ q > Len(tokens) => After(pos - 1) = "end"
  BY <1>2, <1>6, NextIsAfter
<1> HIDE DEF q, b
<1>8. CASE q > Len(tokens)
  <2>1. ~IsExpressionList
    BY <1>2, <1>7, <1>8, Unclosed
  <2> QED
    BY <1>2, <1>3, <1>8, <2>1, CrashLost DEF GoesWrong
<1>9. CASE ~(q > Len(tokens)) /\ tokens[q] # "rparen"
  <2>1. q <= Len(tokens)
    BY <1>2, <1>7, <1>9
  <2>2. ~IsExpressionList
    BY <1>2, <1>7, <1>9, <2>1, Unclosed
  <2> QED
    BY <1>1, <1>2, <1>3, <1>9, <2>2, FailLost DEF GoesWrong
<1>10. CASE ~(q > Len(tokens)) /\ tokens[q] = "rparen"
  <2>1. q <= Len(tokens) /\ q \in Nat /\ pos <= q /\ q \in 1..Len(tokens)
    BY <1>2, <1>7, <1>10
  <2>2. RightBefore(pos)
    BY <1>6, <1>7, <1>10, <2>1
  <2>3. Depth(q) = OpenedBelow(stack) + 1 /\ RightBefore(q)
    BY <1>2, <1>7, <2>1, <2>2, LineBreaks
  <2>4. Past(q + 1) /\ Depth(q + 1) = OpenedBelow(stack)
    BY <1>2, <1>10, <2>1, <2>3, PastParen
  <2>5. ret.expr \in Nat \ {NULL} /\ q + 1 \in Nat /\ ThenNext(ret.expr, q + 1)
    BY <1>2, <1>3, <1>4, <1>10, <2>1
  <2>6. Course(nodes', stack', ret', calls', fault', pos')
    BY <1>1, <1>5, <2>4, <2>5, ThenNextCourse
  <2>7. NodesInv'
    BY ParenCloseNodes DEF OnCourse
  <2> QED
    BY <1>2, <2>6, <2>7, CourseLater
<1> QED
  BY <1>8, <1>9, <1>10

\* Behind an operand: an operator, or the end of the expression.
LEMMA NextLabelExpr == IInv /\ OnCourse /\ Plain /\ NextLabel => OnCourse' \/ GoesWrong
<1> SUFFICES ASSUME IInv, OnCourse, Plain, NextLabel PROVE OnCourse' \/ GoesWrong
  OBVIOUS
<1> DEFINE q == NextToken(pos + 1, Len(tokens))
           f == [Top EXCEPT !.pc = "operand", !.res = nextId]
           x == [Node("oper", pos, {}) EXCEPT !.op = Token, !.left = Top.res]
<1>1. At("next")
  BY DEF NextLabel
<1>2. /\ tokens \in Seq(TokenKinds) /\ UNCHANGED tokens /\ Layered(stack, Len(tokens))
      /\ Top.hi = Len(tokens) /\ Len(tokens) \in Nat /\ pos \in 1..Len(tokens)
      /\ Top \in FrameRecord /\ Len(stack) \in Nat \ {0, 1}
      /\ OpenedBelow(stack) \in Nat /\ Depth(pos) = OpenedBelow(stack)
      /\ Len(stack) = 2 => Depth(pos) = 0
      /\ Built(nodes, AwaitedBelow(stack)) /\ Top.res # NULL /\ Past(pos)
  <2>1. /\ Top.pc = "next" /\ Reads(Top, Len(stack), ret.expr, pos)
        /\ Built(nodes, AwaitedBelow(stack) \cup IF "next" = "operand" THEN {Top.res} ELSE {})
        /\ Depth(pos) = IF "next" = "paren" THEN OpenedBelow(stack) + 1 ELSE OpenedBelow(stack)
        /\ Len(stack) \in Nat \ {0} /\ "next" \in Level(Len(stack), Len(stack))
        /\ Len(stack) <= 2 => OpenedBelow(stack) = 0
        /\ pos \in 1..Len(tokens)
    BY <1>1, AtCourse, Points
  <2>2. Top.res # NULL /\ Past(pos)
    BY <2>1 DEF Reads
  <2>3. Len(stack) # 1
    BY <2>1 DEF Level, Loops
  <2>4. Built(nodes, AwaitedBelow(stack)) /\ Depth(pos) = OpenedBelow(stack)
    BY <2>1
  <2>5. Len(stack) = 2 => Depth(pos) = 0
    BY <2>1, <2>4
  <2> QED
    BY <1>1, <2>1, <2>2, <2>3, <2>4, <2>5, AtCourse
<1>3. \/ tokens[pos] \notin Operators /\ Return(Top.res, pos) /\ UNCHANGED nodes
      \/ /\ tokens[pos] \in Operators /\ New(nodes, x)
         /\ IF q > Len(tokens) THEN Fail(nextId) ELSE Call(f, q)
  BY <1>2 DEF NextLabel, heap, Token
<1>4. NodesInv'
  BY NextLabelNodes DEF OnCourse
<1>5. x.type = "oper" /\ x.left = Top.res /\ ~x.wrapped
  BY DEF Node
<1>6. f.pc = "operand" /\ f.res = nextId /\ f.hi = Len(tokens)
  BY <1>2 DEF FrameRecord
<1>7. f \in FrameRecord /\ nextId \notin DOMAIN nodes
  <2>1. nextId \in Nat /\ nextId \notin DOMAIN nodes
    BY <1>1, AtNodes DEF OnCourse
  <2> QED
    BY <1>2, <2>1 DEF FrameRecord, PCs
<1>8. /\ q \in pos + 1..Len(tokens) + 1
      /\ q <= Len(tokens) => After(pos) = tokens[q]
      /\ q > Len(tokens) => After(pos) = "end"
  BY <1>2, NextIsAfter
<1>9. ASSUME q <= Len(tokens), tokens[pos] \in Operators, RightBefore(pos),
             Before(pos) \in {"num", "rparen"}
      PROVE  Expected(q) /\ Depth(q) = Depth(pos + 1)
  BY <1>2, <1>9, ExpectedNext
<1> HIDE DEF q, f, x
<1>10. CASE tokens[pos] \notin Operators /\ Return(Top.res, pos) /\ UNCHANGED nodes
  <2>1. Ended(pos)
    BY <1>2, <1>10 DEF Ended
  <2>2. Len(stack) = 2 => Between(pos)
    BY <1>2, <2>1, EndedOutside
  <2>3. Len(stack) # 1 /\ Built(nodes', AwaitedBelow(stack))
    BY <1>2, <1>10
  <2>4. Course(nodes', stack', ret', calls', fault', pos')
    BY <1>1, <1>2, <1>10, <2>1, <2>2, <2>3, ReturnCourse
  <2> QED
    BY <1>2, <1>4, <2>4, CourseLater
<1>11. CASE /\ tokens[pos] \in Operators /\ New(nodes, x)
            /\ IF q > Len(tokens) THEN Fail(nextId) ELSE Call(f, q)
  <2>1. RightBefore(pos)
    BY <1>2, <1>11 DEF Past
  <2>2. Before(pos) \in {"num", "rparen"}
    BY <1>2 DEF Past, Before
  <2>3. CASE q > Len(tokens)
    <3>1. ~Grammatical(pos)
      BY <1>8, <1>11, <2>3 DEF Grammatical
    <3>2. ~IsExpressionList
      BY <1>2, <3>1, Ungrammatical
    <3> QED
      BY <1>1, <1>2, <1>11, <2>3, <3>2, FailLost DEF GoesWrong
  <2>4. CASE ~(q > Len(tokens))
    <3>1. q <= Len(tokens) /\ Call(f, q)
      BY <1>2, <1>8, <1>11, <2>4
    <3>2. Expected(q) /\ Depth(q) = Depth(pos + 1)
      BY <1>9, <1>11, <2>1, <2>2, <3>1
    <3>3. Depth(q) = OpenedBelow(stack)
      BY <1>2, <1>11, <3>2, DepthNext DEF Operators
    <3>4. Built(nodes', AwaitedBelow(stack) \cup {nextId})
      BY <1>2, <1>5, <1>7, <1>11, BuiltNew
    <3>5. /\ f.pc \in IF Len(stack) = 1 THEN {"item"} ELSE {"paren", "operand"}
          /\ Built(nodes', AwaitedBelow(stack) \cup IF f.pc = "operand" THEN {f.res} ELSE {})
          /\ Depth(q) = IF f.pc = "paren" THEN OpenedBelow(stack) + 1 ELSE OpenedBelow(stack)
          /\ IF Len(stack) = 1 THEN Between(q) ELSE Expected(q)
      <4>1. Len(stack) # 1
        BY <1>2
      <4> QED
        BY <1>6, <3>2, <3>3, <3>4, <4>1
    <3>6. Course(nodes', stack', ret', calls', fault', pos')
      BY <1>1, <1>6, <1>7, <3>1, <3>5, CallCourse
    <3> QED
      BY <1>2, <1>4, <3>6, CourseLater
  <2> QED
    BY <2>3, <2>4
<1> QED
  BY <1>3, <1>10, <1>11

\* The right operand has been read: the operation is complete.
LEMMA OperandExpr == IInv /\ OnCourse /\ Plain /\ Operand => OnCourse' \/ GoesWrong
<1> SUFFICES ASSUME IInv, OnCourse, Plain, Operand PROVE OnCourse'
  OBVIOUS
<1> DEFINE f == [Top EXCEPT !.pc = "settle"]
<1>1. At("operand")
  BY DEF Operand
<1>2. /\ UNCHANGED tokens /\ stack \in Seq(FrameRecord) /\ stack # <<>>
      /\ Layered(stack, Len(tokens)) /\ Top.hi = Len(tokens) /\ Top \in FrameRecord
      /\ Len(stack) \in Nat \ {0} /\ Top.res \in Nat
      /\ calls = <<>> /\ fault = "none" /\ ~ret.error /\ Top = stack[Len(stack)]
      /\ "operand" \in Level(Len(stack), Len(stack))
      /\ AwaitedBelow(stack) \subseteq Below(stack)
  BY <1>1, AtCourse
<1>3. /\ Built(nodes, AwaitedBelow(stack) \cup {Top.res})
      /\ Depth(pos) = OpenedBelow(stack) /\ ret.expr # NULL /\ Ended(pos)
  <2>1. /\ Top.pc = "operand" /\ Reads(Top, Len(stack), ret.expr, pos)
        /\ Built(nodes, AwaitedBelow(stack) \cup IF "operand" = "operand" THEN {Top.res} ELSE {})
        /\ Depth(pos) = IF "operand" = "paren" THEN OpenedBelow(stack) + 1
                        ELSE OpenedBelow(stack)
    BY <1>1, AtCourse
  <2>2. ret.expr # NULL /\ Ended(pos)
    BY <2>1 DEF Reads
  <2> QED
    BY <2>1, <2>2
<1>4. /\ nodes' = [nodes EXCEPT ![Top.res].right = ret.expr]
      /\ stack' = Replaced(stack, f) /\ calls' = Calls("process_operation", <<Top.res>>)
      /\ ret' = Nothing /\ pos' = pos /\ fault' = "none"
  <2>1. stack' = [stack EXCEPT ![Len(stack)].pc = "settle"]
    BY <1>2 DEF Operand
  <2>2. stack' = Replaced(stack, f)
    BY <1>2, <2>1 DEF Replaced
  <2> QED
    BY <1>2, <2>2 DEF Operand
<1>5. NodesTyped(nodes) /\ Top.res \notin Below(stack) /\ Top.res \in DOMAIN nodes
  <2>1. FrameOK(Top, nodes) /\ Top.pc = "operand" /\ Top.res \in DOMAIN nodes \cup {NULL}
        /\ NodesTyped(nodes) /\ Top.res \notin Below(stack)
    BY <1>1, AtNodes DEF OnCourse
  <2> QED
    BY <2>1 DEF FrameOK
<1>6. Built(nodes', AwaitedBelow(stack)) /\ DOMAIN nodes' = DOMAIN nodes
  <2>1. Top.res \notin AwaitedBelow(stack)
    BY <1>2, <1>5
  <2> QED
    BY <1>2, <1>3, <1>4, <1>5, <2>1, BuiltUpdate
<1>7. f \in FrameRecord /\ f.pc = "settle" /\ f.hi = Len(tokens)
  BY <1>2 DEF FrameRecord, PCs
<1>8. f.pc \in Level(Len(stack), Len(stack))
  BY <1>2, <1>7 DEF Level, Loops
<1> HIDE DEF f
<1>9. /\ stack' \in Seq(FrameRecord) /\ stack' # <<>> /\ Len(stack') = Len(stack)
      /\ stack'[Len(stack')] = f /\ Layered(stack', Len(tokens))
      /\ OpenedBelow(stack') = OpenedBelow(stack) /\ AwaitedBelow(stack') = AwaitedBelow(stack)
      /\ \A d \in 1..Len(stack) - 1 : stack'[d] = stack[d]
  BY <1>2, <1>4, <1>7, <1>8, ReplaceLayer
<1>10. /\ Opened(stack') = OpenedBelow(stack) /\ Awaited(stack') = AwaitedBelow(stack)
  <2>1. /\ Opened(stack') = IF f.pc = "paren" THEN OpenedBelow(stack') + 1 ELSE OpenedBelow(stack')
        /\ Awaited(stack') = AwaitedBelow(stack') \cup IF f.pc = "operand" THEN {f.res} ELSE {}
    BY <1>9, TopLayer
  <2>2. f.pc # "paren" /\ f.pc # "operand"
    BY <1>7
  <2> QED
    BY <1>9, <2>1, <2>2
<1>11. Below(stack') = Below(stack)
  BY <1>9 DEF Below
<1>12. /\ \A j \in 1..Len(calls') : /\ calls'[j].fn = "process_operation"
                                    /\ calls'[j].node = Top.res
  <2>1. <<Top.res>> \in Seq(Nat) /\ DOMAIN <<Top.res>> = 1..1 /\ <<Top.res>>[1] = Top.res
    BY <1>2
  <2>2. calls' \in Seq(CallRecord)
    BY <1>4, <2>1, CallsTyped
  <2>3. DOMAIN calls' = 1..Len(calls')
    BY <2>2, LenProperties
  <2>4. calls' = [j \in 1..1 |-> [fn |-> "process_operation", node |-> <<Top.res>>[j]]]
    BY <1>4, <2>1 DEF Calls
  <2>5. 1..Len(calls') = 1..1
    BY <2>3, <2>4
  <2>6. \A j \in 1..1 : j = 1
    OBVIOUS
  <2> QED
    BY <2>1, <2>4, <2>5, <2>6
<1>13. Regrouping(stack', calls', nodes')
  BY <1>5, <1>6, <1>7, <1>9, <1>11, <1>12 DEF Regrouping
<1>14. Reads(f, Len(stack'), NULL, pos)
  BY <1>3, <1>7 DEF Reads, Loops
<1>15. ret'.expr = NULL /\ ~ret'.error
  BY <1>4 DEF Nothing
<1>16. Course(nodes', stack', ret', calls', fault', pos')
  BY <1>3, <1>4, <1>6, <1>9, <1>10, <1>13, <1>14, <1>15 DEF Course
<1>17. NodesInv'
  BY OperandNodes DEF OnCourse
<1> QED
  BY <1>2, <1>16, <1>17, CourseLater

\* The operation is regrouped.
LEMMA SettleExpr == IInv /\ OnCourse /\ Plain /\ Settle => OnCourse' \/ GoesWrong
<1> SUFFICES ASSUME IInv, OnCourse, Plain, Settle PROVE OnCourse'
  OBVIOUS
<1>1. At("settle") /\ Return(Top.res, pos) /\ UNCHANGED nodes
  BY DEF Settle, heap
<1>2. /\ UNCHANGED tokens /\ Len(stack) \in Nat \ {0, 1}
      /\ Depth(pos) = OpenedBelow(stack) /\ Built(nodes, AwaitedBelow(stack))
      /\ Len(stack) = 2 => Depth(pos) = 0
      /\ Ended(pos)
  <2>1. /\ Top.pc = "settle" /\ Reads(Top, Len(stack), ret.expr, pos)
        /\ Built(nodes, AwaitedBelow(stack) \cup IF "settle" = "operand" THEN {Top.res} ELSE {})
        /\ Depth(pos) = IF "settle" = "paren" THEN OpenedBelow(stack) + 1
                        ELSE OpenedBelow(stack)
        /\ Len(stack) \in Nat \ {0} /\ "settle" \in Level(Len(stack), Len(stack))
        /\ Len(stack) <= 2 => OpenedBelow(stack) = 0
    BY <1>1, AtCourse
  <2>2. Ended(pos)
    BY <2>1 DEF Reads
  <2>3. Len(stack) # 1
    BY <2>1 DEF Level, Loops
  <2>4. Built(nodes, AwaitedBelow(stack)) /\ Depth(pos) = OpenedBelow(stack)
    BY <2>1
  <2>5. Len(stack) = 2 => Depth(pos) = 0
    BY <2>1, <2>4
  <2> QED
    BY <1>1, <2>1, <2>2, <2>3, <2>4, <2>5, AtCourse
<1>3. Top.res # NULL
  <2>1. FrameOK(Top, nodes) /\ Top.pc = "settle"
    BY <1>1, AtNodes DEF OnCourse
  <2> QED
    BY <2>1 DEF FrameOK
<1>4. Len(stack) = 2 => Between(pos)
  BY <1>2, EndedOutside
<1>5. Len(stack) # 1 /\ Built(nodes', AwaitedBelow(stack))
  BY <1>1, <1>2
<1>6. Course(nodes', stack', ret', calls', fault', pos')
  BY <1>1, <1>2, <1>3, <1>4, <1>5, ReturnCourse
<1>7. NodesInv'
  BY SettleNodes DEF OnCourse
<1> QED
  BY <1>2, <1>6, <1>7, CourseLater

\* ast_from_lexer: the next expression, or the end of the list.
LEMMA BodyNextExpr == IInv /\ OnCourse /\ Plain /\ BodyNext => OnCourse' \/ GoesWrong
<1> SUFFICES ASSUME IInv, OnCourse, Plain, BodyNext PROVE OnCourse'
  OBVIOUS
<1> DEFINE f == [Top EXCEPT !.pc = "item"]
<1>1. At("loop") /\ UNCHANGED nodes
  BY DEF BodyNext, heap
<1>2. /\ UNCHANGED tokens /\ Len(tokens) \in Nat /\ Len(stack) \in Nat \ {0}
      /\ pos \in Nat \ {0} /\ pos <= Len(tokens) + 1
      /\ Top \in FrameRecord /\ Top.hi = Len(tokens) /\ Top.pc = "loop"
      /\ "loop" \in Level(Len(stack), Len(stack)) /\ Reads(Top, Len(stack), ret.expr, pos)
      /\ Len(stack) <= 2 => OpenedBelow(stack) = 0
  BY <1>1, AtCourse
<1>3. Len(stack) = 1
  BY <1>2 DEF Level
<1>4. Between(pos)
  BY <1>2 DEF Reads, Loops
<1>5. /\ Depth(pos) = OpenedBelow(stack) /\ Built(nodes, AwaitedBelow(stack))
      /\ OpenedBelow(stack) = 0
  <2>1. /\ Built(nodes, AwaitedBelow(stack) \cup IF "loop" = "operand" THEN {Top.res} ELSE {})
        /\ Depth(pos) = IF "loop" = "paren" THEN OpenedBelow(stack) + 1 ELSE OpenedBelow(stack)
    BY <1>1, AtCourse
  <2> QED
    BY <1>2, <1>3, <2>1
<1>6. /\ f \in FrameRecord /\ f.pc = "item" /\ f.hi = Len(tokens)
      /\ IF pos > Len(tokens) THEN Return(Top.res, pos) ELSE Call(f, pos)
  BY <1>2 DEF FrameRecord, PCs, BodyNext
<1>7. NodesInv'
  BY BodyNextNodes DEF OnCourse
<1> HIDE DEF f
<1>8. CASE pos > Len(tokens)
  <2>1. pos = Len(tokens) + 1
    BY <1>2, <1>8
  <2>2. DOMAIN tokens = 1..Len(tokens)
    BY <1>1, AtCourse, LenProperties
  <2>3. \A k \in DOMAIN tokens : Grammatical(k)
    BY <1>2, <1>4, <2>1, <2>2 DEF Between, RightBefore
  <2>4. Depth(Len(tokens) + 1) = 0
    BY <1>5, <2>1
  <2>5. IsExpressionList
    BY <2>3, <2>4 DEF IsExpressionList
  <2>6. Top.res # NULL
    <3>1. FrameOK(Top, nodes)
      BY <1>1, AtNodes DEF OnCourse
    <3> QED
      BY <1>2, <3>1 DEF FrameOK
  <2>7. Built(nodes', AwaitedBelow(stack))
    BY <1>1, <1>5
  <2>8. Course(nodes', stack', ret', calls', fault', pos')
    BY <1>1, <1>3, <1>5, <1>6, <1>8, <2>5, <2>6, <2>7, ReturnCourse
  <2> QED
    BY <1>2, <1>7, <2>8, CourseLater
<1>9. CASE ~(pos > Len(tokens))
  <2>1. /\ f.pc \in IF Len(stack) = 1 THEN {"item"} ELSE {"paren", "operand"}
        /\ Built(nodes', AwaitedBelow(stack) \cup IF f.pc = "operand" THEN {f.res} ELSE {})
        /\ Depth(pos) = IF f.pc = "paren" THEN OpenedBelow(stack) + 1 ELSE OpenedBelow(stack)
        /\ IF Len(stack) = 1 THEN Between(pos) ELSE Expected(pos)
    BY <1>1, <1>3, <1>4, <1>5, <1>6
  <2>2. Call(f, pos)
    BY <1>6, <1>9
  <2>3. Course(nodes', stack', ret', calls', fault', pos')
    BY <1>1, <1>6, <2>1, <2>2, CallCourse
  <2> QED
    BY <1>2, <1>7, <2>3, CourseLater
<1> QED
  BY <1>8, <1>9

\* ast_from_lexer: the expression becomes an item of the body.
LEMMA BodyItemExpr == IInv /\ OnCourse /\ Plain /\ BodyItem => OnCourse' \/ GoesWrong
<1> SUFFICES ASSUME IInv, OnCourse, Plain, BodyItem PROVE OnCourse'
  OBVIOUS
<1> DEFINE f == [Top EXCEPT !.pc = "loop"]
<1>1. At("item")
  BY DEF BodyItem
<1>2. /\ UNCHANGED tokens /\ Len(stack) \in Nat \ {0} /\ ~ret.error
      /\ Top \in FrameRecord /\ Top.hi = Len(tokens) /\ Top.pc = "item" /\ Top.res \in Nat
      /\ "item" \in Level(Len(stack), Len(stack)) /\ Reads(Top, Len(stack), ret.expr, pos)
  BY <1>1, AtCourse
<1>3. Len(stack) = 1
  BY <1>2 DEF Level
<1>4. Between(pos)
  BY <1>2 DEF Reads, Loops
<1>5. Depth(pos) = OpenedBelow(stack) /\ Built(nodes, AwaitedBelow(stack))
  <2>1. /\ Built(nodes, AwaitedBelow(stack) \cup IF "item" = "operand" THEN {Top.res} ELSE {})
        /\ Depth(pos) = IF "item" = "paren" THEN OpenedBelow(stack) + 1 ELSE OpenedBelow(stack)
    BY <1>1, AtCourse
  <2> QED
    BY <2>1
<1>6. /\ nodes' = nodes \/ nodes' = [nodes EXCEPT ![Top.res].items = Append(@, ret.expr)]
      /\ Continue(f, pos)
  BY <1>2 DEF BodyItem
<1>7. f \in FrameRecord /\ f.pc = "loop" /\ f.hi = Len(tokens)
  BY <1>2 DEF FrameRecord, PCs
<1> HIDE DEF f
<1>8. f.pc \in Level(Len(stack), Len(stack)) \ {"paren", "operand"}
  BY <1>3, <1>7 DEF Level, Loops
<1>9. Built(nodes', AwaitedBelow(stack))
  <2>1. NodesTyped(nodes)
    BY <1>1, AtNodes DEF OnCourse
  <2>2. CASE nodes' = nodes
    BY <1>5, <2>2
  <2>3. CASE nodes' = [nodes EXCEPT ![Top.res].items = Append(@, ret.expr)]
    <3>1. DOMAIN nodes' = DOMAIN nodes
      BY <2>3
    <3>2. \A m \in DOMAIN nodes :
            /\ nodes'[m].type = nodes[m].type /\ nodes'[m].wrapped = nodes[m].wrapped
            /\ nodes'[m].left = nodes[m].left /\ nodes'[m].right = nodes[m].right
      <4> SUFFICES ASSUME NEW m \in DOMAIN nodes
                   PROVE  /\ nodes'[m].type = nodes[m].type
                          /\ nodes'[m].wrapped = nodes[m].wrapped
                          /\ nodes'[m].left = nodes[m].left /\ nodes'[m].right = nodes[m].right
        OBVIOUS
      <4>1. nodes[m] \in NodeRecord
        BY <2>1 DEF NodesTyped
      <4>2. \/ nodes'[m] = nodes[m]
            \/ nodes'[m] = [nodes[m] EXCEPT !.items = Append(@, ret.expr)]
        BY <2>3
      <4> QED
        BY <4>1, <4>2 DEF NodeRecord
    <3> QED
      BY <1>5, <3>1, <3>2 DEF Built, Complete
  <2> QED
    BY <1>6, <2>2, <2>3
<1>10. Reads(f, Len(stack), NULL, pos)
  BY <1>4, <1>7 DEF Reads
<1>11. Course(nodes', stack', ret', calls', fault', pos')
  BY <1>1, <1>5, <1>6, <1>7, <1>8, <1>9, <1>10, ContinueCourse
<1>12. NodesInv'
  BY BodyItemNodes DEF OnCourse
<1> QED
  BY <1>2, <1>11, <1>12, CourseLater

\* A step of process_operation, on operations that are complete, leaves them complete.
Regrouped ==
  /\ UNCHANGED <<stack, ret, fault, pos>>
  /\ Regrouping(stack', calls', nodes') /\ Complete(nodes', Awaited(stack'))
  /\ DOMAIN nodes' = DOMAIN nodes /\ Grown(nodes') /\ Keeps(nodes, nodes')

LEMMA RegroupingStep ==
  ASSUME IInv, NodesInv, NodesInv', process_operation, fault = "none",
         Regrouping(stack, calls, nodes), Complete(nodes, Awaited(stack))
  PROVE  Regrouped
<1> DEFINE n == Head(calls).node
           r == nodes[n].right
           S == AwaitedBelow(stack)
           both == <<nodes'[n].left, nodes'[n].right>>
<1>1. /\ calls \in Seq(CallRecord) /\ calls # <<>>
      /\ NodesTyped(nodes) /\ NULL \notin DOMAIN nodes /\ Forest(nodes)
      /\ stack \in Seq(FrameRecord)
  BY DEF process_operation, Pending, IInv, StackInv, NodeInv, NodesTyped, NodesInv
<1>2. /\ stack # <<>> /\ stack[Len(stack)].pc = "settle"
      /\ \A j \in 1..Len(calls) : /\ calls[j].fn = "process_operation"
                                  /\ calls[j].node \in DOMAIN nodes \ Below(stack)
  BY <1>1 DEF Regrouping
<1>3. /\ Len(calls) \in Nat \ {0} /\ Head(calls) = calls[1] /\ Tail(calls) \in Seq(CallRecord)
      /\ Len(Tail(calls)) = Len(calls) - 1
      /\ \A j \in 1..Len(calls) - 1 : Tail(calls)[j] = calls[j + 1]
  BY <1>1, FirstCall
<1>4. n \in DOMAIN nodes \ Below(stack)
  <2>1. 1 \in 1..Len(calls)
    BY <1>3
  <2> QED
    BY <1>2, <1>3, <2>1
<1>5. \A j \in 1..Len(Tail(calls)) : /\ Tail(calls)[j].fn = "process_operation"
                                     /\ Tail(calls)[j].node \in DOMAIN nodes \ Below(stack)
  <2>1. \A j \in 1..Len(Tail(calls)) : j \in 1..Len(calls) - 1 /\ j + 1 \in 1..Len(calls)
    BY <1>3
  <2> QED
    BY <1>2, <1>3, <2>1
<1>6. S \subseteq Below(stack) /\ Below(stack) \subseteq Roots(stack)
  <2>1. Len(stack) \in Nat \ {0}
    BY <1>1, <1>2, EmptySeq, ElementOfSeq
  <2>2. \A d \in 1..Len(stack) - 1 : d \in 1..Len(stack)
    BY <2>1
  <2>3. \A d \in 1..Len(stack) - 1 : stack[d].pc = "operand" => stack[d].res # NULL
    BY <2>2 DEF NodesInv, FramesOK, FrameOK
  <2> QED
    BY <2>2, <2>3 DEF AwaitedBelow, Below, Roots
<1>7. Awaited(stack) = S /\ Complete(nodes, S)
  <2>1. Awaited(stack) = S \cup IF stack[Len(stack)].pc = "operand" THEN {stack[Len(stack)].res}
                               ELSE {}
    BY <1>1, <1>2, TopLayer
  <2> QED
    BY <1>2, <2>1
<1> HIDE DEF S
\* What a step does that leaves an operation complete.
<1>8. ASSUME UNCHANGED <<stack, ret, fault, pos>>, Complete(nodes', S),
             DOMAIN nodes' = DOMAIN nodes, Grown(nodes'), Keeps(nodes, nodes'),
             \A j \in 1..Len(calls') : /\ calls'[j].fn = "process_operation"
                                       /\ calls'[j].node \in DOMAIN nodes \ Below(stack)
      PROVE  Regrouped
  <2>1. Regrouping(stack', calls', nodes')
    BY <1>2, <1>8 DEF Regrouping
  <2>2. Complete(nodes', Awaited(stack'))
    BY <1>7, <1>8
  <2> QED
    BY <1>8, <2>1, <2>2 DEF Regrouped
<1>9. nodes[n].type = "oper" =>
        /\ nodes[n].left # NULL /\ r # NULL
        /\ r \in DOMAIN nodes /\ r \notin Below(stack)
  <2> SUFFICES ASSUME nodes[n].type = "oper"
               PROVE  /\ nodes[n].left # NULL /\ r # NULL
                      /\ r \in DOMAIN nodes /\ r \notin Below(stack)
    OBVIOUS
  <2>1. nodes[n].left # NULL /\ r # NULL
    BY <1>4, <1>6, <1>7 DEF Complete
  <2>2. 0 \in Slots(nodes[n]) /\ Kid(nodes[n], 0) = r
    BY KidFields
  <2>3. r \in Kids(nodes)
    BY <1>4, <2>1, <2>2, KidSlot
  <2> QED
    BY <1>1, <1>6, <2>1, <2>3 DEF Forest, NodesInv, Parted
<1>10. CASE calls' = Tail(calls) /\ UNCHANGED <<nodes, stack, ret, fault, pos>>
  <2>1. Grown(nodes') /\ Keeps(nodes, nodes')
    BY <1>10, KeepsSame DEF Grown
  <2> QED
    BY <1>5, <1>7, <1>8, <1>10, <2>1
<1>11. CASE n \in DOMAIN nodes => ~Closed(n) /\ r \notin DOMAIN nodes
  BY <1>4, <1>9, <1>11 DEF Closed
<1>12. CASE /\ ~Closed(n) /\ r \in DOMAIN nodes /\ ~Closed(r)
            /\ nodes' = Rotate(n, r) \/ nodes' = nodes
            /\ calls' = Calls("process_operation", both) \o Tail(calls)
            /\ UNCHANGED <<stack, ret, fault, pos>>
  <2>1. nodes[n].type = "oper" /\ nodes[r].type = "oper" /\ n \notin S /\ r \notin S
    BY <1>4, <1>6, <1>9, <1>12 DEF Closed
  <2>0. n \in DOMAIN nodes /\ r \in DOMAIN nodes /\ r = nodes[n].right
    BY <1>4, <1>12
  <2>2. /\ Complete(nodes', S) /\ DOMAIN nodes' = DOMAIN nodes
        /\ Grown(nodes') /\ Keeps(nodes, nodes')
    <3> HIDE DEF n, r
    <3>1. CASE nodes' = nodes
      BY <1>7, <2>1, <3>1, KeepsSame DEF Grown
    <3>2. CASE nodes' = Rotate(n, r)
      BY <1>1, <1>7, <2>0, <2>1, <3>2, CompleteRotate, RotateKeeps
    <3> QED
      BY <1>12, <3>1, <3>2
  <2>3. nodes'[n].left # NULL /\ nodes'[n].right # NULL
    <3>1. n \in DOMAIN nodes' /\ nodes'[n].type = "oper"
      BY <2>0, <2>1, <2>2 DEF Grown
    <3> QED
      BY <2>1, <2>2, <3>1 DEF Complete
  <2>4. \A k \in Kids(nodes') : k \in DOMAIN nodes \ Below(stack)
    <3>1. Kids(nodes') \subseteq DOMAIN nodes'
      BY DEF NodesInv, Forest
    <3>2. \A k \in Roots(stack') : k \notin Kids(nodes')
      BY DEF NodesInv, Parted
    <3> QED
      BY <1>6, <1>12, <2>2, <3>1, <3>2
  <2>5. /\ nodes'[n].left \in Kids(nodes') /\ nodes'[n].right \in Kids(nodes')
    <3>1. /\ -1 \in Slots(nodes'[n]) /\ Kid(nodes'[n], -1) = nodes'[n].left
          /\ 0 \in Slots(nodes'[n]) /\ Kid(nodes'[n], 0) = nodes'[n].right
      BY KidFields
    <3>2. n \in DOMAIN nodes'
      BY <1>4, <2>2
    <3> QED
      BY <2>3, <3>1, <3>2, KidSlot
  <2>6. \A k \in DOMAIN nodes : k \in Nat
    BY <1>1 DEF NodesTyped
  <2>7. /\ both \in Seq(Nat) /\ Len(both) = 2
        /\ \A j \in 1..2 : both[j] \in DOMAIN nodes \ Below(stack)
    BY <2>4, <2>5, <2>6
  <2>10. calls' = Calls("process_operation", both) \o Tail(calls)
    BY <1>12
  <2> HIDE DEF both
  <2>8. /\ Len(calls') = Len(both) + Len(Tail(calls)) /\ Len(Tail(calls)) \in Nat
        /\ \A j \in 1..Len(both) : calls'[j] = [fn |-> "process_operation", node |-> both[j]]
        /\ \A j \in 1..Len(Tail(calls)) : calls'[Len(both) + j] = Tail(calls)[j]
    <3>1. LET w == Calls("process_operation", both) \o Tail(calls)
          IN  /\ Len(w) = Len(both) + Len(Tail(calls)) /\ Len(Tail(calls)) \in Nat
              /\ \A j \in 1..Len(both) : w[j] = [fn |-> "process_operation", node |-> both[j]]
              /\ \A j \in 1..Len(Tail(calls)) : w[Len(both) + j] = Tail(calls)[j]
      BY <1>3, <2>7, CallsBefore
    <3> QED
      BY <2>10, <3>1
  <2>9. ASSUME NEW j \in 1..Len(calls')
        PROVE  /\ calls'[j].fn = "process_operation"
               /\ calls'[j].node \in DOMAIN nodes \ Below(stack)
    <3>1. CASE j <= 2
      <4>1. j \in 1..Len(both) /\ j \in 1..2
        BY <2>7, <2>8, <3>1
      <4>2. calls'[j] = [fn |-> "process_operation", node |-> both[j]]
        BY <2>8, <4>1
      <4> QED
        BY <2>7, <4>1, <4>2
    <3>2. CASE ~(j <= 2)
      <4>1. j - 2 \in 1..Len(Tail(calls)) /\ Len(both) + (j - 2) = j
        BY <2>7, <2>8, <3>2
      <4> QED
        BY <1>5, <2>8, <4>1
    <3> QED
      BY <3>1, <3>2
  <2> QED
    BY <1>8, <1>12, <2>2, <2>9
<1> QED
  BY <1>10, <1>11, <1>12 DEF process_operation

LEMMA ProcessOperationExpr ==
  IInv /\ OnCourse /\ Plain /\ process_operation => OnCourse' \/ GoesWrong
<1> SUFFICES ASSUME IInv, OnCourse, Plain, process_operation PROVE OnCourse'
  OBVIOUS
<1>0. NodesInv /\ NodesInv' /\ Course(nodes, stack, ret, calls, fault, pos)
  BY ProcessOperationNodes DEF OnCourse
<1>1. UNCHANGED tokens
  BY DEF process_operation, Pending
<1>2. /\ fault = "none" /\ Regrouping(stack, calls, nodes) /\ Complete(nodes, Awaited(stack))
      /\ \A m \in DOMAIN nodes : nodes[m].type \in {"body", "num", "oper"}
  BY <1>0 DEF Course, Built
<1>3. Regrouped
  BY <1>0, <1>2, RegroupingStep
<1>4. Built(nodes', Awaited(stack'))
  BY <1>2, <1>3 DEF Regrouped, Grown, Built
<1>5. Course(nodes', stack', ret', calls', fault', pos')
  BY <1>0, <1>1, <1>3, <1>4 DEF Regrouped, Course
<1> QED
  BY <1>0, <1>1, <1>5, CourseLater

-----------------------------------------------------------------------------
(* No other action can happen to such a list.                              *)

\* The actions of an expression, and those of a declaration, a function, a
\* variable or a scope.
ParsesExpressions ==
  \/ SkipToken \/ RejectToken \/ Literal \/ ParenOpen \/ ParenClose \/ NextLabel
  \/ Operand \/ Settle \/ BodyNext \/ BodyItem \/ process_operation

ParsesOther ==
  \/ DeclStart \/ DeclName \/ DeclMark \/ DeclType \/ DeclAssign \/ DeclValue
  \/ Variable \/ FuncStart \/ FuncName \/ FuncArg \/ FuncReturn
  \/ ScopeOpen \/ ScopeEnd

OtherPoints == {"declName", "declMark", "declType", "declAssign", "declValue",
                "funcName", "funcArgs", "scope", "scopeEnd"}

LEMMA OtherAt ==
  ParsesOther => \/ \E pc \in OtherPoints : At(pc)
                 \/ At("start") /\ Token \in {"def", "ident", "fn", "lbrace"}
<1>1. CASE DeclStart \/ FuncStart \/ Variable
  BY <1>1 DEF DeclStart, FuncStart, Variable
<1>2. CASE DeclName \/ DeclMark \/ DeclType \/ DeclAssign \/ DeclValue
  BY <1>2 DEF OtherPoints, DeclName, DeclMark, DeclType, DeclAssign, DeclValue
<1>3. CASE FuncName \/ FuncArg \/ FuncReturn \/ ScopeEnd
  BY <1>3 DEF OtherPoints, FuncName, FuncArg, FuncReturn, ScopeEnd
<1>4. CASE ScopeOpen
  <2>1. At("scope") \/ (At("start") /\ Token = "lbrace")
    BY <1>4 DEF ScopeOpen
  <2> QED
    BY <2>1 DEF OtherPoints
<1> QED
  BY <1>1, <1>2, <1>3, <1>4 DEF ParsesOther

LEMMA ExpressionAt ==
  ParsesExpressions =>
    \/ \E pc \in {"start", "next", "settle", "loop"} : At(pc)
    \/ At("paren") /\ ParenClose
    \/ At("operand") /\ Operand
    \/ At("item") /\ BodyItem
    \/ process_operation
BY DEF ParsesExpressions, SkipToken, RejectToken, Literal, ParenOpen, ParenClose, NextLabel,
   Operand, Settle, BodyNext, BodyItem

LEMMA NoOther == IInv /\ OnCourse /\ Plain => ~ParsesOther
<1> SUFFICES ASSUME IInv, OnCourse, Plain, ParsesOther PROVE FALSE
  OBVIOUS
<1>1. \/ \E pc \in OtherPoints : At(pc)
      \/ At("start") /\ Token \in {"def", "ident", "fn", "lbrace"}
  BY OtherAt
<1>2. ASSUME NEW pc \in OtherPoints, At(pc) PROVE FALSE
  <2>1. pc \in Level(Len(stack), Len(stack)) /\ Len(stack) \in Nat \ {0}
    BY <1>2, AtCourse
  <2> QED
    BY <2>1 DEF Level, Loops, OtherPoints
<1>3. CASE At("start") /\ Token \in {"def", "ident", "fn", "lbrace"}
  <2>1. pos \in 1..Len(tokens) /\ tokens \in Seq(TokenKinds)
    BY <1>3, AtCourse, StartCourse
  <2>2. Token \in Operators \cup {"num", "lparen", "rparen", "newline", "semicolon"}
    BY <2>1 DEF Plain, Token
  <2> QED
    BY <1>3, <2>2 DEF Operators
<1> QED
  BY <1>1, <1>2, <1>3

\* Nothing is destroyed while the list is understood.
LEMMA NoDestructor == OnCourse => ~DestroyNode
<1> SUFFICES ASSUME OnCourse, DestroyNode PROVE FALSE
  OBVIOUS
<1>1. calls # <<>> /\ Head(calls).fn = "destroy" /\ Regrouping(stack, calls, nodes)
  BY DEF DestroyNode, Pending, OnCourse, Course
<1> QED
  BY <1>1 DEF Regrouping

\* The tree can be printed.
LEMMA PrintExpr == OnCourse /\ PrintAst => phase' = "free"
<1> SUFFICES ASSUME OnCourse, PrintAst PROVE phase' = "free"
  OBVIOUS
<1>1. \A n \in DOMAIN nodes : nodes[n].type \in {"body", "num", "oper"}
  BY DEF OnCourse, Course, Built, Complete
<1>2. Unprintable = {}
  BY <1>1 DEF Unprintable
<1> QED
  BY <1>2 DEF PrintAst

\* The list of tokens never changes, and main never goes back to parsing.
LEMMA StepKeeps == [Next]_vars => UNCHANGED tokens /\ (phase' = "parse" => phase = "parse")
<1> SUFFICES ASSUME [Next]_vars
             PROVE  UNCHANGED tokens /\ (phase' = "parse" => phase = "parse")
  OBVIOUS
<1>1. CASE ParsesExpressions
  BY <1>1 DEF ParsesExpressions, SkipToken, RejectToken, Literal, ParenOpen, ParenClose,
     NextLabel, Operand, Settle, BodyNext, BodyItem, process_operation, At, Pending
<1>2. CASE ParsesOther
  BY <1>2 DEF ParsesOther, DeclStart, DeclName, DeclMark, DeclType, DeclAssign, DeclValue,
     Variable, FuncStart, FuncName, FuncArg, FuncReturn, ScopeOpen, ScopeEnd, At
<1>3. CASE DestroyNode \/ PrintAst \/ LexerFree \/ UNCHANGED vars
  BY <1>3 DEF DestroyNode, PrintAst, LexerFree, Pending, vars
<1> QED
  BY <1>1, <1>2, <1>3 DEF Next, Stop, ParsesExpressions, ParsesOther

\* A step of the parser on a list that is understood.
LEMMA CourseNext ==
  ASSUME IInv, OnCourse, Plain, [Next]_vars, phase' = "parse"
  PROVE  OnCourse' \/ GoesWrong
<1>1. phase = "parse"
  BY StepKeeps
<1>2. CASE UNCHANGED vars
  <2>1. UNCHANGED <<tokens, nodes, nextId, pos, stack, ret, calls, fault>>
    BY <1>2 DEF vars, heap
  <2>2. Course(nodes', stack', ret', calls', fault', pos')
    BY <2>1 DEF OnCourse
  <2>3. NodesInv'
    BY <2>1, SameNodes DEF OnCourse
  <2> QED
    BY <2>1, <2>2, <2>3, CourseLater
<1>3. CASE ParsesExpressions
  BY <1>3, SkipTokenExpr, RejectTokenExpr, LiteralExpr, ParenOpenExpr, ParenCloseExpr,
     NextLabelExpr, OperandExpr, SettleExpr, BodyNextExpr, BodyItemExpr, ProcessOperationExpr
  DEF ParsesExpressions
<1>4. CASE ParsesOther \/ DestroyNode \/ PrintAst
  BY <1>4, NoOther, NoDestructor, PrintExpr
<1>5. CASE LexerFree
  BY <1>1, <1>5 DEF LexerFree
<1> QED
  BY <1>2, <1>3, <1>4, <1>5 DEF Next, Stop, ParsesExpressions, ParsesOther

-----------------------------------------------------------------------------
(* The way to main of a list that is none.                                 *)

\* The calls of an expression that fails, or that has returned none.
Unwinding(s) ==
  \A d \in 1..Len(s) : s[d].pc \in IF d = 1 THEN {"item"} ELSE {"paren", "operand"}

\* Which actions such a call may take.
LEMMA UnwindingSteps ==
  ASSUME IInv, stack # <<>>, Top.pc \in {"item", "paren", "operand"}, phase = "parse",
         phase' = "parse", fault = "none", Next
  PROVE  BodyItem \/ ParenClose \/ Operand \/ process_operation \/ DestroyNode
<1>1. \A pc : At(pc) => pc \in {"item", "paren", "operand"}
  BY DEF At
<1>2. ~ParsesOther
  BY <1>1, OtherAt DEF OtherPoints
<1>3. ParsesExpressions => ParenClose \/ Operand \/ BodyItem \/ process_operation
  BY <1>1, ExpressionAt
<1>4. ~PrintAst /\ ~LexerFree /\ ~Stop
  BY DEF PrintAst, LexerFree, Stop
<1> QED
  BY <1>2, <1>3, <1>4 DEF Next, ParsesExpressions, ParsesOther

\* The stack gets shorter.
LEMMA UnwindingPop ==
  ASSUME IInv, stack # <<>>, Unwinding(stack)
  PROVE  Unwinding(Pop) /\ (Top.pc = "item" => Pop = <<>>)
<1>1. stack \in Seq(FrameRecord) /\ Len(stack) \in Nat \ {0}
  BY EmptySeq, ElementOfSeq DEF IInv, StackInv
<1>2. /\ Pop \in Seq(FrameRecord) /\ Len(Pop) = Len(stack) - 1
      /\ \A d \in 1..Len(stack) - 1 : Pop[d] = stack[d]
  BY <1>1, PopFacts
<1>3. \A d \in 1..Len(Pop) : d \in 1..Len(stack) /\ Pop[d] = stack[d]
  BY <1>1, <1>2
<1>4. Unwinding(Pop)
  BY <1>3 DEF Unwinding
<1>5. ASSUME Top.pc = "item" PROVE Pop = <<>>
  <2>1. Len(stack) \in 1..Len(stack)
    BY <1>1
  <2>2. Len(stack) = 1
    BY <1>5, <2>1 DEF Unwinding, Top
  <2> QED
    BY <1>2, <2>2, EmptySeq
<1> QED
  BY <1>4, <1>5

\* An error goes on to the next call, and main gets no tree.
LEMMA UnwindingLost ==
  ASSUME IInv, ret.expr = NULL, stack = <<>> \/ ret.error, Unwinding(stack), fault = "none",
         phase = "parse", phase' = "parse", Next
  PROVE  Lost(nodes', stack', ret', calls', fault')
<1>1. CASE fault' # "none"
  BY <1>1 DEF Lost
<1>2. CASE UNCHANGED <<stack, ret>>
  BY <1>2 DEF Lost, Unwinding
<1>3. CASE process_operation \/ DestroyNode
  <2>1. UNCHANGED <<stack, ret>>
    BY <1>3 DEF process_operation, DestroyNode, Crash
  <2> QED
    BY <1>2, <2>1
<1>4. CASE stack = <<>>
  <2>1. \A pc : ~At(pc)
    BY <1>4 DEF At
  <2>2. ~ParsesOther
    BY <2>1, OtherAt
  <2>3. ~ParsesExpressions \/ process_operation
    BY <2>1, ExpressionAt
  <2>4. CASE PrintAst
    <3>1. fault' # "none"
      BY <2>4 DEF PrintAst
    <3> QED
      BY <1>1, <3>1
  <2>5. ~LexerFree /\ ~Stop
    BY DEF LexerFree, Stop
  <2> QED
    BY <1>3, <2>2, <2>3, <2>4, <2>5 DEF Next, ParsesExpressions, ParsesOther
<1>5. CASE stack # <<>>
  <2>1. Len(stack) \in 1..Len(stack)
    BY <1>5, EmptySeq, ElementOfSeq DEF IInv, StackInv
  <2>2. Top.pc \in {"item", "paren", "operand"}
    BY <2>1 DEF Unwinding, Top
  <2>3. BodyItem \/ ParenClose \/ Operand \/ process_operation \/ DestroyNode
    BY <1>5, <2>2, UnwindingSteps
  <2>4. Unwinding(Pop) /\ (Top.pc = "item" => Pop = <<>>)
    BY <1>5, UnwindingPop
  <2>5. ret.error
    BY <1>5
  <2>6. CASE BodyItem
    <3>1. stack' = <<>> /\ ret' = Nothing
      BY <2>4, <2>5, <2>6 DEF BodyItem, At
    <3>2. ret'.expr = NULL
      BY <3>1 DEF Nothing
    <3>3. Len(stack') = 0
      BY <3>1
    <3> QED
      BY <3>1, <3>2, <3>3 DEF Lost
  <2>7. CASE ParenClose \/ Operand
    <3>1. stack' = Pop /\ ret' = [expr |-> NULL, error |-> TRUE]
      BY <2>5, <2>7 DEF ParenClose, Operand, FailAgain, Abort
    <3>2. ret'.expr = NULL /\ ret'.error
      BY <3>1
    <3> QED
      BY <2>4, <3>1, <3>2 DEF Lost, Unwinding
  <2> QED
    BY <1>3, <2>3, <2>6, <2>7
<1> QED
  BY <1>4, <1>5

\* A missing expression is used all the same: the program dies.
LEMMA MissingLost ==
  ASSUME IInv, ret.expr = NULL, ~ret.error, calls = <<>>, stack # <<>>, fault = "none",
         Top.pc = "paren" \/ (Top.pc = "operand" /\ Open(nodes, Top.res)),
         phase = "parse", phase' = "parse", Next
  PROVE  Lost(nodes', stack', ret', calls', fault')
<1>1. BodyItem \/ ParenClose \/ Operand \/ process_operation \/ DestroyNode
  BY UnwindingSteps
<1>2. ~process_operation /\ ~DestroyNode
  BY DEF process_operation, DestroyNode, Pending
<1>3. ~BodyItem
  BY DEF BodyItem, At
<1>4. CASE ParenClose
  <2>1. Crash("paren_value")
    BY <1>4 DEF ParenClose
  <2> QED
    BY <2>1, CrashLost
<1>5. CASE Operand
  <2> DEFINE n == Top.res
  <2>1. Open(nodes, n) /\ n \in Nat /\ NodesTyped(nodes)
    <3>1. Top.pc = "operand"
      BY <1>5 DEF Operand, At
    <3>2. Top \in FrameRecord
      BY TopFacts DEF IInv
    <3> QED
      BY <3>1, <3>2 DEF FrameRecord, IInv, NodeInv
  <2>2. /\ nodes' = [nodes EXCEPT ![n].right = NULL]
        /\ calls' = Calls("process_operation", <<n>>)
    BY <1>5 DEF Operand
  <2> HIDE DEF n
  <2>3. Open(nodes', n) /\ nodes'[n].right = NULL
    <3>1. n \in DOMAIN nodes /\ nodes[n] \in NodeRecord
      BY <2>1 DEF Open, NodesTyped
    <3>2. DOMAIN nodes' = DOMAIN nodes /\ nodes'[n] = [nodes[n] EXCEPT !.right = NULL]
      BY <2>2, <3>1
    <3>3. /\ nodes'[n].type = nodes[n].type /\ nodes'[n].wrapped = nodes[n].wrapped
          /\ nodes'[n].right = NULL
      BY <3>1, <3>2 DEF NodeRecord
    <3> QED
      BY <2>1, <3>1, <3>2, <3>3 DEF Open
  <2>4. calls' # <<>> /\ Head(calls') = [fn |-> "process_operation", node |-> n]
    <3> DEFINE c == <<[fn |-> "process_operation", node |-> n]>>
    <3>1. calls' = c
      BY <2>2 DEF Calls
    <3>2. c # <<>> /\ Head(c) = [fn |-> "process_operation", node |-> n]
      OBVIOUS
    <3> QED
      BY <3>1, <3>2
  <2>5. Head(calls').fn = "process_operation" /\ Head(calls').node = n
    BY <2>4
  <2> QED
    BY <2>3, <2>4, <2>5 DEF Lost
<1> QED
  BY <1>1, <1>2, <1>3, <1>4, <1>5

\* So does process_operation with a missing operand.
LEMMA OperandLost ==
  ASSUME IInv, fault = "none", calls # <<>>, Head(calls).fn = "process_operation",
         Open(nodes, Head(calls).node), nodes[Head(calls).node].right = NULL,
         phase = "parse", Next
  PROVE  Lost(nodes', stack', ret', calls', fault')
<1>1. \A pc : ~At(pc)
  BY DEF At
<1>2. ~ParsesOther /\ (ParsesExpressions => process_operation)
  BY <1>1, OtherAt, ExpressionAt
<1>3. ~DestroyNode /\ ~PrintAst /\ ~LexerFree /\ ~Stop
  BY DEF DestroyNode, Pending, PrintAst, LexerFree, Stop
<1>4. process_operation
  BY <1>2, <1>3 DEF Next, ParsesExpressions, ParsesOther
<1> DEFINE n == Head(calls).node
<1>5. NULL \notin DOMAIN nodes
  BY DEF IInv, NodeInv, NodesTyped
<1>6. n \in DOMAIN nodes /\ ~Closed(n) /\ nodes[n].right \notin DOMAIN nodes
  BY <1>5 DEF Open, Closed
<1>7. Crash("null_operand")
  BY <1>4, <1>6 DEF process_operation
<1> QED
  BY <1>7, CrashLost

\* A program that has died takes no step.
LEMMA DeadStops == Next /\ fault # "none" => UNCHANGED vars
<1> SUFFICES ASSUME Next, fault # "none" PROVE UNCHANGED vars
  OBVIOUS
<1>1. \A pc : ~At(pc)
  BY DEF At
<1>2. ~ParsesOther
  BY <1>1, OtherAt
<1>3. ~ParsesExpressions
  BY <1>1, ExpressionAt DEF process_operation, Pending
<1>4. ~DestroyNode /\ ~PrintAst /\ ~LexerFree
  BY DEF DestroyNode, Pending, PrintAst, LexerFree
<1> QED
  BY <1>2, <1>3, <1>4 DEF Next, Stop, ParsesExpressions, ParsesOther

\* A step of a program that has been lost.
LEMMA LostNext ==
  ASSUME IInv, Lost(nodes, stack, ret, calls, fault), [Next]_vars, phase' = "parse"
  PROVE  Lost(nodes', stack', ret', calls', fault')
<1>1. phase = "parse"
  BY StepKeeps
<1>2. CASE UNCHANGED vars
  BY <1>2 DEF vars, heap, Lost
<1>3. CASE Next /\ fault # "none"
  <2>1. UNCHANGED vars
    BY <1>3, DeadStops
  <2> QED
    BY <1>2, <2>1
<1>4. CASE Next /\ fault = "none"
  <2>1. CASE ret.expr = NULL /\ (stack = <<>> \/ ret.error) /\ Unwinding(stack)
    BY <1>1, <1>4, <2>1, UnwindingLost
  <2>2. CASE /\ ret.expr = NULL /\ ~ret.error /\ calls = <<>> /\ stack # <<>>
             /\ Top.pc = "paren" \/ (Top.pc = "operand" /\ Open(nodes, Top.res))
    BY <1>1, <1>4, <2>2, MissingLost
  <2>3. CASE /\ calls # <<>> /\ Head(calls).fn = "process_operation"
             /\ Open(nodes, Head(calls).node) /\ nodes[Head(calls).node].right = NULL
    BY <1>1, <1>4, <2>3, OperandLost
  <2> QED
    BY <1>4, <2>1, <2>2, <2>3 DEF Lost, Unwinding, Top
<1> QED
  BY <1>2, <1>3, <1>4

-----------------------------------------------------------------------------
(* The invariant holds.                                                    *)

\* The parser begins between two expressions.
LEMMA InitExpr == Init => ExprInv
<1> SUFFICES ASSUME Init PROVE OnCourse
  BY DEF ExprInv
<1> DEFINE f == Frame("loop", FALSE, 1, Len(tokens))
<1>1. /\ DOMAIN nodes = {1} /\ nodes[1] = Node("body", 0, {}) /\ stack = <<f>>
      /\ tokens \in Seq(TokenKinds) /\ pos = 1 /\ ret = Nothing /\ calls = <<>>
      /\ fault = "none"
  BY InputsAssumption DEF Init
<1>2. nodes[1].type = "body"
  BY <1>1, FreshNode
<1>3. f.pc = "loop" /\ f.hi = Len(tokens)
  BY DEF Frame
<1> HIDE DEF f
<1>4. Len(stack) = 1 /\ stack[1] = f /\ stack # <<>> /\ \A d \in 1..Len(stack) : d = 1
  BY <1>1
<1>5. Awaited(stack) = {}
  BY <1>3, <1>4 DEF Awaited
<1>6. Built(nodes, Awaited(stack))
  BY <1>1, <1>2, <1>5 DEF Built, Complete
<1>7. Layered(stack, Len(tokens))
  BY <1>3, <1>4 DEF Layered, Level, Loops
<1>8. Opened(stack) = 0
  <2>1. {d \in 1..Len(stack) : stack[d].pc = "paren"} = {}
    BY <1>3, <1>4
  <2> QED
    BY <2>1, FS_EmptySet DEF Opened
<1>9. Depth(1) = 0
  <2>1. \A kind : {j \in 1..1 - 1 : tokens[j] = kind} = {}
    OBVIOUS
  <2> QED
    BY <2>1, FS_EmptySet DEF Depth
<1>10. Between(1)
  <2>1. Before(1) = "start"
    BY DEF Before
  <2>2. RightBefore(1)
    BY DEF RightBefore
  <2> QED
    BY <2>1, <2>2 DEF Between
<1>11. Reads(f, 1, ret.expr, 1)
  BY <1>3, <1>10 DEF Reads
<1>12. ~ret.error
  BY <1>1 DEF Nothing
<1>13. Course(nodes, stack, ret, calls, fault, pos)
  BY <1>1, <1>4, <1>6, <1>7, <1>8, <1>9, <1>11, <1>12 DEF Course, Regrouping
<1> QED
  BY <1>13, InitNodes DEF OnCourse

\* Every step keeps it.
LEMMA NextExpr == IInv /\ ExprInv /\ [Next]_vars => ExprInv'
<1> SUFFICES ASSUME IInv, ExprInv, [Next]_vars, Plain', phase' = "parse"
             PROVE  OnCourse' \/ (Lost(nodes, stack, ret, calls, fault)' /\ ~IsExpressionList')
  BY DEF ExprInv
<1>1. UNCHANGED tokens /\ phase = "parse"
  BY StepKeeps
<1>2. Plain /\ (IsExpressionList' <=> IsExpressionList)
  BY <1>1, SameTokens
<1>3. CASE OnCourse
  <2>1. OnCourse' \/ GoesWrong
    BY <1>2, <1>3, CourseNext
  <2>2. ASSUME GoesWrong
        PROVE  Lost(nodes', stack', ret', calls', fault') /\ ~IsExpressionList'
    BY <1>2, <2>2 DEF GoesWrong
  <2> QED
    BY <2>1, <2>2 DEF Lost, Open
<1>4. CASE Lost(nodes, stack, ret, calls, fault) /\ ~IsExpressionList
  <2>1. Lost(nodes', stack', ret', calls', fault')
    BY <1>4, LostNext
  <2> QED
    BY <1>2, <1>4, <2>1 DEF Lost, Open
<1> QED
  BY <1>1, <1>2, <1>3, <1>4 DEF ExprInv

LEMMA ExprInvariance == Spec => []ExprInv
BY InitExpr, NextExpr, Invariance, PTL DEF Spec

\* The parser accepts exactly the lists of numbers, operators, parentheses and
\* separators that the grammar has, of any length and nested to any depth: the
\* loop of ast_parse_expr, its exits on an error and its calls for an operand
\* and for the inside of a "(" (ast.c:489-524, 549-586) neither
\* stop too early nor let pass what is wrong, and process_operation
\* (ast.c:186) never meets a missing operand in a list that is right.
THEOREM ExpressionsAreAccepted == Spec => []AcceptsExpressions
<1>1. IInv /\ ExprInv => AcceptsExpressions
  <2> SUFFICES ASSUME IInv, ExprInv, Plain, phase = "parse",
                      fault # "none" \/ (stack = <<>> /\ calls = <<>>)
               PROVE  IsExpressionList <=> fault = "none" /\ ret.expr # NULL
    BY DEF AcceptsExpressions, Plain
  <2>1. CASE OnCourse
    <3>1. /\ fault = "none" /\ stack = <<>>
          /\ ret.expr # NULL /\ IsExpressionList
      BY <2>1 DEF OnCourse, Course
    <3> QED
      BY <3>1
  <2>2. CASE Lost(nodes, stack, ret, calls, fault) /\ ~IsExpressionList
    <3>1. fault # "none" \/ ret.expr = NULL
      BY <2>2 DEF Lost
    <3> QED
      BY <2>2, <3>1
  <2> QED
    BY <2>1, <2>2 DEF ExprInv
<1> QED
  BY <1>1, Invariance, ExprInvariance, PTL

-----------------------------------------------------------------------------
(* A grammar of declarations and functions.  A list of them is one whose   *)
(* tokens can be labelled: R[k] is what the k-th token is to its statement. *)

Roles == {"def", "name", "colon", "type", "assign", "value", "op", "sep", "fn", "fname", "open",
          "argName", "argType", "comma", "close", "returns", "stop", "body", "inner", "line", "end"}

\* A token of this kind may be r.
Means(kind, r) ==
  /\ r \in Roles
  /\ r \in {"name", "type", "fname", "argName", "argType", "returns", "inner"} => kind = "ident"
  /\ r = "def" => kind = "def"
  /\ r = "colon" => kind = ":"
  /\ r = "assign" => kind = "="
  /\ r = "value" => kind \in {"num", "ident", "string"}
  /\ r = "op" => kind \in Operators
  /\ r \in {"sep", "line"} => kind \in {"newline", "semicolon"}
  /\ r = "stop" => kind = "semicolon"
  /\ r = "fn" => kind = "fn"
  /\ r = "open" => kind = "lparen"
  /\ r = "comma" => kind = "comma"
  /\ r = "close" => kind = "rparen"
  /\ r = "body" => kind = "lbrace"
  /\ r = "end" => kind = "rbrace"

\* s may come right behind r.
Leads(r, s) ==
  /\ r \in {"start", "sep", "stop", "end"} => s \in {"def", "fn", "sep"}
  /\ r = "def" => s = "name"
  /\ r = "name" => s \in {"colon", "assign"}
  /\ r = "colon" => s = "type"
  /\ r = "type" => s = "assign"
  /\ r \in {"assign", "op"} => s = "value"
  /\ r = "value" => s \in {"op", "sep"}
  /\ r = "fn" => s = "fname"
  /\ r = "fname" => s = "open"
  /\ r = "open" => s \in {"argName", "close"}
  /\ r = "argName" => s = "argType"
  /\ r = "argType" => s \in {"comma", "close"}
  /\ r = "comma" => s = "argName"
  /\ r = "close" => s = "returns"
  /\ r = "returns" => s \in {"stop", "body"}
  /\ r \in {"body", "line"} => s \in {"inner", "line", "end"}
  /\ r = "inner" => s \in {"line", "end"}

\* What the last token may be.
Final == {"start", "sep", "stop", "end", "value"}

Labels(R) ==
  /\ R[0] = "start" /\ R[Len(tokens)] \in Final
  /\ \A k \in 1..Len(tokens) : Means(tokens[k], R[k]) /\ Leads(R[k - 1], R[k])

IsStatementList == \E R : Labels(R)

\* What a label says of its token and of the next one.
LEMMA RoleFacts ==
  ASSUME NEW R, Labels(R), NEW k \in 1..Len(tokens), tokens \in Seq(TokenKinds)
  PROVE  /\ tokens[k] = "rbrace" => R[k] = "end"
         /\ R[k] = "def" => tokens[k] = "def" /\ k < Len(tokens) /\ R[k + 1] = "name"
         /\ R[k] = "name" => /\ tokens[k] = "ident" /\ k < Len(tokens)
                             /\ R[k + 1] \in {"colon", "assign"}
         /\ R[k] = "colon" => tokens[k] = ":" /\ k < Len(tokens) /\ R[k + 1] = "type"
         /\ R[k] = "type" => tokens[k] = "ident" /\ k < Len(tokens) /\ R[k + 1] = "assign"
         /\ R[k] = "assign" => tokens[k] = "=" /\ k < Len(tokens) /\ R[k + 1] = "value"
         /\ R[k] = "op" => tokens[k] \in Operators /\ k < Len(tokens) /\ R[k + 1] = "value"
         /\ R[k] = "value" => /\ tokens[k] \in {"num", "ident", "string"}
                              /\ k < Len(tokens) => R[k + 1] \in {"op", "sep"}
         /\ R[k] = "sep" => /\ tokens[k] \in {"newline", "semicolon"}
                            /\ k < Len(tokens) => R[k + 1] \in {"def", "fn", "sep"}
         /\ R[k] = "stop" => /\ tokens[k] = "semicolon"
                             /\ k < Len(tokens) => R[k + 1] \in {"def", "fn", "sep"}
         /\ R[k] = "end" => /\ tokens[k] = "rbrace"
                            /\ k < Len(tokens) => R[k + 1] \in {"def", "fn", "sep"}
         /\ R[k] = "fn" => tokens[k] = "fn" /\ k < Len(tokens) /\ R[k + 1] = "fname"
         /\ R[k] = "fname" => tokens[k] = "ident" /\ k < Len(tokens) /\ R[k + 1] = "open"
         /\ R[k] = "open" => /\ tokens[k] = "lparen" /\ k < Len(tokens)
                             /\ R[k + 1] \in {"argName", "close"}
         /\ R[k] = "argName" => tokens[k] = "ident" /\ k < Len(tokens) /\ R[k + 1] = "argType"
         /\ R[k] = "argType" => /\ tokens[k] = "ident" /\ k < Len(tokens)
                                /\ R[k + 1] \in {"comma", "close"}
         /\ R[k] = "comma" => tokens[k] = "comma" /\ k < Len(tokens) /\ R[k + 1] = "argName"
         /\ R[k] = "close" => tokens[k] = "rparen" /\ k < Len(tokens) /\ R[k + 1] = "returns"
         /\ R[k] = "returns" => /\ tokens[k] = "ident" /\ k < Len(tokens)
                                /\ R[k + 1] \in {"stop", "body"}
         /\ R[k] = "body" => /\ tokens[k] = "lbrace" /\ k < Len(tokens)
                             /\ R[k + 1] \in {"inner", "line", "end"}
         /\ R[k] = "line" => /\ tokens[k] \in {"newline", "semicolon"} /\ k < Len(tokens)
                             /\ R[k + 1] \in {"inner", "line", "end"}
         /\ R[k] = "inner" => /\ tokens[k] = "ident" /\ k < Len(tokens)
                              /\ R[k + 1] \in {"line", "end"}
<1>1. Len(tokens) \in Nat /\ k \in Nat
  BY LenProperties
<1>2. Means(tokens[k], R[k])
  BY DEF Labels
<1>3. k < Len(tokens) => Leads(R[k], R[k + 1])
  <2>1. k < Len(tokens) => k + 1 \in 1..Len(tokens) /\ k + 1 - 1 = k
    BY <1>1
  <2> QED
    BY <2>1 DEF Labels
<1>4. R[k] \notin Final => k < Len(tokens)
  BY <1>1 DEF Labels
<1> QED
  BY <1>2, <1>3, <1>4 DEF Means, Leads, Final, Roles, Operators

-----------------------------------------------------------------------------
(* The nodes of such a list.                                               *)

\* A declaration has a value unless it is one of D, those whose value is being parsed.
Valued(ns, D) == \A n \in DOMAIN ns : ns[n].type = "decl" => ns[n].right # NULL \/ n \in D

Filled(ns, S, D) == Complete(ns, S) /\ Valued(ns, D)

\* No node holds a number or a character in the place of a pointer.
Neat(ns) == \A n \in DOMAIN ns : Wild \notin ns[n].own

LEMMA StillFilled ==
  ASSUME NEW S, NEW D, Filled(nodes, S, D), NEW ms, Grown(ms), DOMAIN ms = DOMAIN nodes
  PROVE  Filled(ms, S, D)
BY DEF Filled, Complete, Valued, Grown

LEMMA NewFilled ==
  ASSUME NEW S, NEW D, Filled(nodes, S, D), nextId \notin DOMAIN nodes,
         NEW ms, Grown(ms), DOMAIN ms = DOMAIN nodes, NEW rec, New(ms, rec)
  PROVE  /\ rec.type \notin {"oper", "decl"} => Filled(nodes', S, D)
         /\ rec.type = "decl" => Filled(nodes', S, D \cup {nextId})
         /\ rec.type = "oper" /\ rec.left # NULL /\ ~rec.wrapped =>
              Filled(nodes', S \cup {nextId}, D)
<1>1. /\ DOMAIN nodes' = DOMAIN nodes \cup {nextId} /\ nodes'[nextId] = rec
      /\ \A m \in DOMAIN nodes : nodes'[m] = ms[m]
  BY AddedNode
<1>2. Filled(ms, S, D) /\ nextId \notin S
  BY StillFilled DEF Filled, Complete
<1> QED
  BY <1>1, <1>2 DEF Filled, Complete, Valued

\* The result of a call becomes an operand or a value.
WithRight(ns, n, e) == [ns EXCEPT ![n].right = e]

LEMMA AnswerFilled ==
  ASSUME NodesTyped(nodes), NEW S, NEW D, NEW n \in DOMAIN nodes, NEW e, e # NULL
  PROVE  /\ Filled(nodes, S \cup {n}, D) => Filled(WithRight(nodes, n, e), S, D)
         /\ Filled(nodes, S, D \cup {n}) => Filled(WithRight(nodes, n, e), S, D)
<1>0. PICK ms : ms = [nodes EXCEPT ![n].right = e]
  OBVIOUS
<1>1. DOMAIN ms = DOMAIN nodes /\ \A m \in DOMAIN nodes : m # n => ms[m] = nodes[m]
  BY <1>0
<1>2. /\ ms[n].type = nodes[n].type /\ ms[n].left = nodes[n].left /\ ms[n].right = e
      /\ ms[n].wrapped = nodes[n].wrapped
  BY <1>0, NodeUpdate
<1>3. /\ Filled(nodes, S \cup {n}, D) => Filled(ms, S, D)
      /\ Filled(nodes, S, D \cup {n}) => Filled(ms, S, D)
  BY <1>1, <1>2 DEF Filled, Complete, Valued
<1> QED
  BY <1>0, <1>3 DEF WithRight

\* The changes of a node that lose nothing.
LEMMA GrownUpdate ==
  ASSUME NodesTyped(nodes), NEW n, NEW m, m # NULL
  PROVE  /\ Grown([nodes EXCEPT ![n].left = m])
         /\ Grown([nodes EXCEPT ![n].items = Append(@, m)])
         /\ DOMAIN [nodes EXCEPT ![n].left = m] = DOMAIN nodes
         /\ DOMAIN [nodes EXCEPT ![n].items = Append(@, m)] = DOMAIN nodes
<1>1. \A k \in DOMAIN nodes : nodes[k] \in NodeRecord
  BY DEF NodesTyped
<1>2. \A x \in NodeRecord :
        LET l == [x EXCEPT !.left = m]
            i == [x EXCEPT !.items = Append(@, m)]
        IN  /\ l.type = x.type /\ l.wrapped = x.wrapped /\ l.left = m /\ l.right = x.right
            /\ i.type = x.type /\ i.wrapped = x.wrapped /\ i.left = x.left /\ i.right = x.right
  BY DEF NodeRecord
<1> QED
  BY <1>1, <1>2 DEF Grown

\* Giving a node what it lacked is such a change.
LEMMA GrownGive ==
  ASSUME NodesTyped(nodes), NEW n, NEW P
  PROVE  Grown(Give(n, P)) /\ DOMAIN Give(n, P) = DOMAIN nodes
<1>1. \A k \in DOMAIN nodes : nodes[k] \in NodeRecord
  BY DEF NodesTyped
<1>2. \A x \in NodeRecord :
        LET o == [x EXCEPT !.own = @ \cup (P \ {NULL})]
        IN  o.type = x.type /\ o.wrapped = x.wrapped /\ o.left = x.left /\ o.right = x.right
  BY DEF NodeRecord
<1> QED
  BY <1>1, <1>2 DEF Grown, Give

LEMMA KeepsNeat ==
  ASSUME NEW ns, NEW ms, Neat(ns), Keeps(ns, ms)
  PROVE  Neat(ms)
BY DEF Neat, Keeps, OwnOf

LEMMA AcquiresNeat ==
  ASSUME NEW ns, NEW ms, NEW x, NEW P, Neat(ns), Acquires(ns, ms, x, P), Wild \notin P
  PROVE  Neat(ms)
BY DEF Neat, Acquires, OwnOf

-----------------------------------------------------------------------------
(* The invariant: every call knows the label of the token it has come to.  *)

DeclPCs == {"declName", "declMark", "declType", "declAssign", "declValue"}
FuncPCs == {"funcName", "funcArgs", "scope", "scopeEnd"}

\* Between two statements, in a scope up to token h, and behind an operand.
Outside(R, p) == p <= Len(tokens) => R[p] \in {"def", "fn", "sep", "stop"}
Inside(R, h, p) == \A k \in p..h : R[k] \in {"inner", "line"}
AfterValue(R, p) == p <= Len(tokens) => R[p] = "sep"

\* What ast_from_lexer comes to, for the whole list and for a scope.
ItemNext(R, h, p) == IF h = Len(tokens) THEN Outside(R, p) ELSE Inside(R, h, p)

\* What a call knows of itself, and of the call it was called by.
Lawful(f) ==
  /\ \/ f.pc \in Loops
     \/ f.kw /\ f.pc \in {"start"} \cup DeclPCs \cup FuncPCs
     \/ ~f.kw /\ f.pc \in {"start", "next", "operand", "settle"}
  /\ f.pc \in Loops \/ (f.pc = "start" /\ f.kw) \/ f.hi = Len(tokens)
  /\ f.pc = "scopeEnd" => f.res # NULL

Matches(e, f) == e.pc # "scopeEnd" => f.hi = e.hi /\ (f.kw <=> e.pc = "item")

Stacked(s) ==
  /\ \A d \in 1..Len(s) : Lawful(s[d])
  /\ \A d \in 1..Len(s) - 1 : Matches(s[d], s[d + 1])

\* What a call on top knows of the tokens from p on, and of its answer e.
Around(R, f, e, p) ==
  /\ f.pc \in Loops \/ (f.pc = "start" /\ f.kw) => ItemNext(R, f.hi, p)
  /\ f.pc = "start" /\ ~f.kw => R[p] = "value"
  /\ f.pc = "declName" => R[p] = "name"
  /\ f.pc = "declMark" => R[p] \in {"colon", "assign"}
  /\ f.pc = "declType" => R[p] = "type"
  /\ f.pc = "declAssign" => R[p] = "assign"
  /\ f.pc \in {"declValue", "operand"} => e # NULL /\ AfterValue(R, p)
  /\ f.pc = "settle" => AfterValue(R, p)
  /\ f.pc = "next" => f.res # NULL /\ R[p] \in {"op", "sep"}
  /\ f.pc = "funcName" => R[p] = "fname"
  /\ f.pc = "funcArgs" => R[p] \in {"argName", "close"}
  /\ f.pc = "scope" => R[p] = "body"
  /\ f.pc = "scopeEnd" => e # NULL

\* The declarations whose value is being parsed.
Declared(s) == {s[d].res : d \in {d \in 1..Len(s) : s[d].pc \in DeclPCs}}
DeclaredBelow(s) == {s[d].res : d \in {d \in 1..Len(s) - 1 : s[d].pc \in DeclPCs}}

Stated(R, ns, s, r, cl, p) ==
  /\ ~r.error
  /\ Filled(ns, Awaited(s), Declared(s))
  /\ Stacked(s)
  /\ Regrouping(s, cl, ns)
  /\ s # <<>> => Around(R, s[Len(s)], r.expr, p)
  /\ s = <<>> => r.expr # NULL

Standing(R) ==
  /\ IInv /\ FlowInv /\ NodesInv /\ Labels(R)
  /\ Neat(nodes) /\ fault = "none"
  /\ Stated(R, nodes, stack, ret, calls, pos)

\* A step of the parser.
Steps(R) ==
  /\ Neat(nodes') /\ fault' = "none"
  /\ Stated(R, nodes', stack', ret', calls', pos')

LEMMA TopDeclared ==
  ASSUME NEW s \in Seq(FrameRecord), s # <<>>
  PROVE  Declared(s) = DeclaredBelow(s) \cup IF s[Len(s)].pc \in DeclPCs THEN {s[Len(s)].res}
                                             ELSE {}
<1>1. Len(s) \in Nat \ {0}
  BY EmptySeq, ElementOfSeq
<1>2. \A d : d \in 1..Len(s) <=> d \in 1..Len(s) - 1 \/ d = Len(s)
  BY <1>1
<1> QED
  BY <1>2 DEF Declared, DeclaredBelow

\* What an action of the call on top starts from.
LEMMA AtStated ==
  ASSUME NEW R, Standing(R), NEW pc, At(pc)
  PROVE  /\ tokens \in Seq(TokenKinds) /\ Len(tokens) \in Nat /\ UNCHANGED tokens
         /\ IInv /\ FlowInv /\ NodesInv /\ Labels(R) /\ Neat(nodes) /\ NodesTyped(nodes)
         /\ nextId \in Nat \ {NULL} /\ nextId \notin DOMAIN nodes
         /\ pos \in Nat \ {0} /\ pos <= Top.hi + 1 /\ Top.hi <= Len(tokens) /\ Top.hi \in Nat
         /\ pc \in Reading => pos \in 1..Len(tokens) /\ pos <= Top.hi
         /\ calls = <<>> /\ fault = "none" /\ ~ret.error
         /\ stack \in Seq(FrameRecord) /\ stack # <<>> /\ Len(stack) \in Nat \ {0}
         /\ Top = stack[Len(stack)] /\ Top \in FrameRecord /\ Top.res \in Nat /\ Top.pc = pc
         /\ Stacked(stack) /\ Lawful(Top) /\ Around(R, Top, ret.expr, pos)
         /\ Filled(nodes, AwaitedBelow(stack) \cup IF pc = "operand" THEN {Top.res} ELSE {},
                          DeclaredBelow(stack) \cup IF pc \in DeclPCs THEN {Top.res} ELSE {})
         /\ pc = "scopeEnd" => ret.expr # NULL
         /\ Fresh(pos)
<1>1. /\ calls = <<>> /\ fault = "none" /\ UNCHANGED tokens /\ stack # <<>> /\ Top.pc = pc
      /\ StackInv /\ Top = stack[Len(stack)]
      /\ IInv /\ FlowInv /\ NodesInv /\ Labels(R) /\ Neat(nodes)
      /\ Stated(R, nodes, stack, ret, calls, pos)
  BY DEF At, IInv, Top, Standing
<1>2. /\ tokens \in Seq(TokenKinds) /\ stack \in Seq(FrameRecord) /\ pos \in Nat \ {0}
      /\ NodesTyped(nodes) /\ nextId \in Nat \ {NULL} /\ nextId \notin DOMAIN nodes
  BY <1>1, FreshId DEF StackInv, IInv, NodeInv
<1>3. /\ Len(stack) \in Nat \ {0} /\ Top \in FrameRecord /\ Top.res \in Nat
      /\ Len(tokens) \in Nat /\ pos <= Top.hi + 1 /\ Top.hi <= Len(tokens) /\ Top.hi \in Nat
      /\ pc \in Reading => pos \in 1..Len(tokens) /\ pos <= Top.hi
  BY <1>1, TopFacts
<1>4. /\ ~ret.error /\ Filled(nodes, Awaited(stack), Declared(stack)) /\ Stacked(stack)
      /\ Around(R, Top, ret.expr, pos)
  BY <1>1 DEF Stated
<1>5. Lawful(Top)
  <2>1. Len(stack) \in 1..Len(stack)
    BY <1>3
  <2> QED
    BY <1>1, <1>4, <2>1 DEF Stacked
<1>6. Awaited(stack) = AwaitedBelow(stack) \cup IF pc = "operand" THEN {Top.res} ELSE {}
  BY <1>1, <1>2, TopLayer
<1>7. Declared(stack) = DeclaredBelow(stack) \cup IF pc \in DeclPCs THEN {Top.res} ELSE {}
  BY <1>1, <1>2, TopDeclared
<1>8. pc = "scopeEnd" => ret.expr # NULL
  BY <1>1, <1>4 DEF Around
<1>9. Fresh(pos)
  BY <1>1, <1>4, <1>8, AtFlow
<1>10. Filled(nodes, AwaitedBelow(stack) \cup IF pc = "operand" THEN {Top.res} ELSE {},
                     DeclaredBelow(stack) \cup IF pc \in DeclPCs THEN {Top.res} ELSE {})
  BY <1>4, <1>6, <1>7
<1> QED
  BY <1>1, <1>2, <1>3, <1>4, <1>5, <1>8, <1>9, <1>10

\* The call on top goes on at another point, calls, returns: what stays.
LEMMA ReplaceStated ==
  ASSUME NEW s \in Seq(FrameRecord), s # <<>>, Stacked(s),
         NEW f \in FrameRecord, Lawful(f), f.hi = s[Len(s)].hi, f.kw = s[Len(s)].kw,
         NEW t, t = Replaced(s, f)
  PROVE  /\ t \in Seq(FrameRecord) /\ t # <<>> /\ Len(t) = Len(s) /\ t[Len(t)] = f
         /\ Stacked(t)
         /\ AwaitedBelow(t) = AwaitedBelow(s) /\ DeclaredBelow(t) = DeclaredBelow(s)
<1>1. t # <<>> /\ AwaitedBelow(t) = AwaitedBelow(s)
  BY ReplaceStack
<1>2. Len(s) \in Nat \ {0} /\ \A d \in 1..Len(s) : s[d] \in FrameRecord
  BY EmptySeq, ElementOfSeq
<1>3. /\ t \in Seq(FrameRecord) /\ Len(t) = Len(s)
      /\ \A d \in 1..Len(s) : t[d] = IF d = Len(s) THEN f ELSE s[d]
  BY <1>2, ExceptSeq DEF Replaced
<1>4. t[Len(t)] = f
  BY <1>2, <1>3
<1>5. \A d \in 1..Len(s) - 1 : d \in 1..Len(s) /\ d # Len(s) /\ d + 1 \in 1..Len(s)
  BY <1>2
<1>6. DeclaredBelow(t) = DeclaredBelow(s)
  BY <1>3, <1>5 DEF DeclaredBelow
<1>7. \A d \in 1..Len(t) : Lawful(t[d])
  BY <1>3 DEF Stacked
<1>8. ASSUME NEW d \in 1..Len(t) - 1 PROVE Matches(t[d], t[d + 1])
  <2>1. Matches(s[d], s[d + 1]) /\ t[d] = s[d] /\ d \in 1..Len(s) - 1 /\ d + 1 \in 1..Len(s)
    BY <1>3, <1>5 DEF Stacked
  <2>2. CASE d + 1 = Len(s)
    <3>1. t[d + 1] = f /\ s[d + 1] = s[Len(s)]
      BY <1>3, <2>1, <2>2
    <3> QED
      BY <2>1, <3>1 DEF Matches
  <2>3. CASE d + 1 # Len(s)
    <3>1. t[d + 1] = s[d + 1]
      BY <1>3, <2>1, <2>3
    <3> QED
      BY <2>1, <3>1
  <2> QED
    BY <2>2, <2>3
<1> QED
  BY <1>1, <1>3, <1>4, <1>6, <1>7, <1>8 DEF Stacked

\* The call on top calls another one.
LEMMA AppendStated ==
  ASSUME NEW s \in Seq(FrameRecord), s # <<>>, Stacked(s),
         NEW g \in FrameRecord, Lawful(g), Matches(s[Len(s)], g),
         NEW t, t = Extended(s, g)
  PROVE  /\ t \in Seq(FrameRecord) /\ t # <<>> /\ t[Len(t)] = g
         /\ Stacked(t)
         /\ AwaitedBelow(t) = Awaited(s) /\ DeclaredBelow(t) = Declared(s)
<1>1. t # <<>> /\ AwaitedBelow(t) = Awaited(s)
  BY AppendStack
<1>2. Len(s) \in Nat \ {0}
  BY EmptySeq, ElementOfSeq
<1>3. /\ t \in Seq(FrameRecord) /\ Len(t) = Len(s) + 1 /\ t[Len(s) + 1] = g
      /\ \A d \in 1..Len(s) : t[d] = s[d]
  BY <1>2, AppendProperties DEF Extended
<1>4. t[Len(t)] = g
  BY <1>3
<1>5. /\ \A d \in 1..Len(t) - 1 : d \in 1..Len(s) /\ (d = Len(s) \/ d \in 1..Len(s) - 1)
      /\ 1..Len(t) - 1 = 1..Len(s)
      /\ \A d \in 1..Len(s) - 1 : d + 1 \in 1..Len(s)
      /\ \A d \in 1..Len(t) : d \in 1..Len(s) \/ d = Len(s) + 1
  BY <1>2, <1>3
<1>6. DeclaredBelow(t) = Declared(s)
  BY <1>3, <1>5 DEF DeclaredBelow, Declared
<1>7. \A d \in 1..Len(t) : Lawful(t[d])
  BY <1>3, <1>5 DEF Stacked
<1>8. ASSUME NEW d \in 1..Len(t) - 1 PROVE Matches(t[d], t[d + 1])
  <2>1. t[d] = s[d] /\ (d = Len(s) \/ d \in 1..Len(s) - 1)
    BY <1>3, <1>5
  <2>2. CASE d = Len(s)
    BY <1>3, <2>1, <2>2
  <2>3. CASE d \in 1..Len(s) - 1
    <3>1. t[d + 1] = s[d + 1]
      BY <1>3, <1>5, <2>3
    <3> QED
      BY <2>1, <2>3, <3>1 DEF Stacked
  <2> QED
    BY <2>1, <2>2, <2>3
<1> QED
  BY <1>1, <1>3, <1>4, <1>6, <1>7, <1>8 DEF Stacked

\* The call on top returns.
LEMMA PopStated ==
  ASSUME NEW s \in Seq(FrameRecord), s # <<>>, Stacked(s), NEW t, t = Popped(s)
  PROVE  /\ t \in Seq(FrameRecord) /\ Stacked(t)
         /\ t = <<>> <=> Len(s) = 1
         /\ t # <<>> => /\ t[Len(t)] = s[Len(s) - 1] /\ Len(s) - 1 \in 1..Len(s) - 1
                        /\ Lawful(t[Len(t)]) /\ Matches(t[Len(t)], s[Len(s)])
         /\ Awaited(t) = AwaitedBelow(s) /\ Declared(t) = DeclaredBelow(s)
<1>1. /\ t \in Seq(FrameRecord) /\ Len(t) = Len(s) - 1 /\ Len(s) \in Nat \ {0}
      /\ t = <<>> <=> Len(s) = 1
      /\ \A d \in 1..Len(t) : t[d] = s[d] /\ d \in 1..Len(s) - 1
      /\ Awaited(t) = AwaitedBelow(s)
  BY PopStack
<1>2. \A d \in 1..Len(s) - 1 : d \in 1..Len(s)
  BY <1>1
<1>3. Declared(t) = DeclaredBelow(s)
  BY <1>1 DEF DeclaredBelow, Declared
<1>4. \A d \in 1..Len(t) : Lawful(t[d])
  BY <1>1, <1>2 DEF Stacked
<1>5. \A d \in 1..Len(t) - 1 : /\ d \in 1..Len(t) /\ d + 1 \in 1..Len(t) /\ d \in 1..Len(s) - 1
  BY <1>1
<1>6. \A d \in 1..Len(t) - 1 : Matches(t[d], t[d + 1])
  BY <1>1, <1>5 DEF Stacked
<1>7. ASSUME t # <<>>
      PROVE  /\ t[Len(t)] = s[Len(s) - 1] /\ Len(s) - 1 \in 1..Len(s) - 1
             /\ Lawful(t[Len(t)]) /\ Matches(t[Len(t)], s[Len(s)])
  <2>1. /\ Len(s) - 1 \in 1..Len(s) - 1 /\ Len(s) - 1 + 1 = Len(s) /\ Len(t) \in 1..Len(t)
    BY <1>1, <1>7
  <2>2. t[Len(t)] = s[Len(s) - 1]
    BY <1>1, <2>1
  <2>3. Matches(s[Len(s) - 1], s[Len(s) - 1 + 1])
    BY <2>1 DEF Stacked
  <2> QED
    BY <1>4, <2>1, <2>2, <2>3
<1> QED
  BY <1>1, <1>3, <1>4, <1>6, <1>7 DEF Stacked

\* The call on top goes on at pd, its result is x.
Goes(pd, x, p) ==
  \/ Continue([Top EXCEPT !.pc = pd, !.res = x], p)
  \/ x = Top.res /\ Continue([Top EXCEPT !.pc = pd], p)
  \/ x = Top.res /\ pd = Top.pc /\ Continue(Top, p)

\* What it then has to know.
Goal(R, pd, x, p) ==
  \A f : f.pc = pd /\ f.res = x /\ f.hi = Top.hi /\ f.kw = Top.kw =>
           Lawful(f) /\ Around(R, f, NULL, p)

\* The call on top goes on.
LEMMA GoOnStated ==
  ASSUME NEW R, Standing(R), NEW pc, At(pc), NEW pd \in PCs \ {"operand"}, NEW x \in Nat, NEW p,
         Goes(pd, x, p), Goal(R, pd, x, p), Neat(nodes'),
         Filled(nodes', AwaitedBelow(stack),
                        DeclaredBelow(stack) \cup IF pd \in DeclPCs THEN {x} ELSE {})
  PROVE  Steps(R)
<1>1. /\ stack \in Seq(FrameRecord) /\ stack # <<>> /\ Stacked(stack)
      /\ calls = <<>> /\ fault = "none" /\ Top = stack[Len(stack)] /\ Top \in FrameRecord
  BY AtStated
<1>2. PICK f \in FrameRecord : /\ f.pc = pd /\ f.res = x /\ f.hi = Top.hi /\ f.kw = Top.kw
                               /\ Continue(f, p)
  <2>1. CASE Continue([Top EXCEPT !.pc = pd, !.res = x], p)
    <3> DEFINE f == [Top EXCEPT !.pc = pd, !.res = x]
    <3>1. f \in FrameRecord /\ f.pc = pd /\ f.res = x /\ f.hi = Top.hi /\ f.kw = Top.kw
      BY <1>1 DEF FrameRecord
    <3> HIDE DEF f
    <3>2. Continue(f, p)
      BY <2>1 DEF f
    <3> QED
      BY <3>1, <3>2
  <2>2. CASE x = Top.res /\ Continue([Top EXCEPT !.pc = pd], p)
    <3> DEFINE f == [Top EXCEPT !.pc = pd]
    <3>1. f \in FrameRecord /\ f.pc = pd /\ f.res = x /\ f.hi = Top.hi /\ f.kw = Top.kw
      BY <1>1, <2>2 DEF FrameRecord
    <3> HIDE DEF f
    <3>2. Continue(f, p)
      BY <2>2 DEF f
    <3> QED
      BY <3>1, <3>2
  <2>3. CASE x = Top.res /\ pd = Top.pc /\ Continue(Top, p)
    BY <1>1, <2>3
  <2> QED
    BY <2>1, <2>2, <2>3 DEF Goes
<1>3. /\ stack' = Replaced(stack, f) /\ pos' = p /\ ret' = Nothing
      /\ calls' = <<>> /\ fault' = "none"
  BY <1>1, <1>2 DEF Continue, Replaced
<1>4. Lawful(f) /\ Around(R, f, NULL, p)
  BY <1>2 DEF Goal
<1>5. /\ stack' \in Seq(FrameRecord) /\ stack' # <<>> /\ Len(stack') = Len(stack)
      /\ stack'[Len(stack')] = f /\ Stacked(stack')
      /\ AwaitedBelow(stack') = AwaitedBelow(stack)
      /\ DeclaredBelow(stack') = DeclaredBelow(stack)
  BY <1>1, <1>2, <1>3, <1>4, ReplaceStated
<1>6. /\ Awaited(stack') = AwaitedBelow(stack)
      /\ Declared(stack') = DeclaredBelow(stack) \cup IF pd \in DeclPCs THEN {x} ELSE {}
  <2>1. f.pc # "operand"
    BY <1>2
  <2>2. /\ Awaited(stack') = AwaitedBelow(stack') \cup IF f.pc = "operand" THEN {f.res} ELSE {}
        /\ Declared(stack') = DeclaredBelow(stack') \cup IF f.pc \in DeclPCs THEN {f.res} ELSE {}
    BY <1>5, TopLayer, TopDeclared
  <2> QED
    BY <1>2, <1>5, <2>1, <2>2
<1>7. ret'.expr = NULL /\ ~ret'.error
  BY <1>3 DEF Nothing
<1>8. Stated(R, nodes', stack', ret', calls', pos')
  BY <1>3, <1>4, <1>5, <1>6, <1>7 DEF Stated, Regrouping
<1> QED
  BY <1>3, <1>8 DEF Steps

\* It calls ast_parse_expr.
LEMMA CallStated ==
  ASSUME NEW R, Standing(R), NEW pc, At(pc),
         NEW pd \in {"item", "declValue", "operand"}, NEW x \in Nat, NEW p,
         Call([Top EXCEPT !.pc = pd, !.res = x], p)
           \/ (x = Top.res /\ Call([Top EXCEPT !.pc = pd], p)),
         pd = "item" => pc = "loop" /\ ItemNext(R, Top.hi, p),
         pd # "item" => pc \notin Loops /\ Top.hi = Len(tokens) /\ R[p] = "value",
         pd = "declValue" => Top.kw,
         pd = "operand" => ~Top.kw,
         Neat(nodes'),
         Filled(nodes', AwaitedBelow(stack) \cup IF pd = "operand" THEN {x} ELSE {},
                        DeclaredBelow(stack) \cup IF pd = "declValue" THEN {x} ELSE {})
  PROVE  Steps(R)
<1>1. /\ stack \in Seq(FrameRecord) /\ stack # <<>> /\ Stacked(stack)
      /\ calls = <<>> /\ fault = "none" /\ Top = stack[Len(stack)] /\ Top \in FrameRecord
      /\ Lawful(Top) /\ pd \in PCs /\ Top.pc = pc
  BY AtStated DEF PCs
<1>2. PICK f \in FrameRecord : /\ f.pc = pd /\ f.res = x /\ f.hi = Top.hi /\ f.kw = Top.kw
                               /\ Call(f, p)
  <2>1. CASE Call([Top EXCEPT !.pc = pd, !.res = x], p)
    <3> DEFINE f == [Top EXCEPT !.pc = pd, !.res = x]
    <3>1. f \in FrameRecord /\ f.pc = pd /\ f.res = x /\ f.hi = Top.hi /\ f.kw = Top.kw
      BY <1>1 DEF FrameRecord
    <3> HIDE DEF f
    <3>2. Call(f, p)
      BY <2>1 DEF f
    <3> QED
      BY <3>1, <3>2
  <2>2. CASE x = Top.res /\ Call([Top EXCEPT !.pc = pd], p)
    <3> DEFINE f == [Top EXCEPT !.pc = pd]
    <3>1. f \in FrameRecord /\ f.pc = pd /\ f.res = x /\ f.hi = Top.hi /\ f.kw = Top.kw
      BY <1>1, <2>2 DEF FrameRecord
    <3> HIDE DEF f
    <3>2. Call(f, p)
      BY <2>2 DEF f
    <3> QED
      BY <3>1, <3>2
  <2> QED
    BY <2>1, <2>2
<1> DEFINE r == Replaced(stack, f)
           g == Frame("start", f.pc = "item", NULL, f.hi)
<1>3. /\ stack' = Extended(r, g) /\ pos' = p /\ ret' = Nothing
      /\ calls' = <<>> /\ fault' = "none"
  BY <1>1, <1>2 DEF Call, Replaced, Extended
<1>4. g \in FrameRecord /\ g.pc = "start" /\ g.hi = f.hi /\ (g.kw <=> f.pc = "item")
  BY <1>2, FrameFields DEF Frame, FrameRecord, PCs, NULL
<1>5. Lawful(f)
  BY <1>1, <1>2 DEF Lawful, Loops, DeclPCs
<1>6. /\ r \in Seq(FrameRecord) /\ r # <<>> /\ r[Len(r)] = f /\ Stacked(r)
      /\ AwaitedBelow(r) = AwaitedBelow(stack) /\ DeclaredBelow(r) = DeclaredBelow(stack)
  BY <1>1, <1>2, <1>5, ReplaceStated
<1>7. /\ Awaited(r) = AwaitedBelow(r) \cup IF f.pc = "operand" THEN {f.res} ELSE {}
      /\ Declared(r) = DeclaredBelow(r) \cup IF f.pc \in DeclPCs THEN {f.res} ELSE {}
  BY <1>6, TopLayer, TopDeclared
<1> HIDE DEF r, g
<1>8. Lawful(g) /\ Matches(f, g)
  BY <1>2, <1>4 DEF Lawful, Matches, Loops
<1>9. /\ stack' \in Seq(FrameRecord) /\ stack' # <<>> /\ stack'[Len(stack')] = g
      /\ Stacked(stack')
      /\ AwaitedBelow(stack') = Awaited(r) /\ DeclaredBelow(stack') = Declared(r)
  <2>1. Matches(r[Len(r)], g) /\ stack' = Extended(r, g)
    BY <1>3, <1>6, <1>8
  <2> QED
    BY <1>4, <1>6, <1>8, <2>1, AppendStated
<1>10. Awaited(stack') = Awaited(r) /\ Declared(stack') = Declared(r)
  <2>1. /\ Awaited(stack') = AwaitedBelow(stack') \cup IF g.pc = "operand" THEN {g.res} ELSE {}
        /\ Declared(stack') = DeclaredBelow(stack') \cup IF g.pc \in DeclPCs THEN {g.res} ELSE {}
    BY <1>9, TopLayer, TopDeclared
  <2>2. g.pc # "operand" /\ g.pc \notin DeclPCs
    BY <1>4 DEF DeclPCs
  <2> QED
    BY <1>9, <2>1, <2>2
<1>11. Filled(nodes', Awaited(stack'), Declared(stack'))
  <2>1. pd \in DeclPCs <=> pd = "declValue"
    BY DEF DeclPCs
  <2> QED
    BY <1>2, <1>6, <1>7, <1>10, <2>1
<1>12. Around(R, g, NULL, p)
  BY <1>2, <1>4 DEF Around, Loops
<1>13. ret'.expr = NULL /\ ~ret'.error
  BY <1>3 DEF Nothing
<1>14. Stated(R, nodes', stack', ret', calls', pos')
  BY <1>3, <1>9, <1>11, <1>12, <1>13 DEF Stated, Regrouping
<1> QED
  BY <1>3, <1>14 DEF Steps

\* What a call that returns e owes to the one it was called by.
Returns(R, f, e, p) ==
  IF f.pc \in Loops THEN e # NULL
  ELSE IF f.kw THEN ItemNext(R, f.hi, p) ELSE e # NULL /\ AfterValue(R, p)

\* It returns.
LEMMA ReturnStated ==
  ASSUME NEW R, Standing(R), NEW pc, At(pc), NEW e, NEW p, Return(e, p),
         Returns(R, Top, e, p), Neat(nodes'),
         Filled(nodes', AwaitedBelow(stack), DeclaredBelow(stack))
  PROVE  Steps(R)
<1>1. /\ stack \in Seq(FrameRecord) /\ stack # <<>> /\ Stacked(stack)
      /\ calls = <<>> /\ fault = "none" /\ Top = stack[Len(stack)] /\ Len(stack) \in Nat \ {0}
      /\ IInv /\ FlowInv
  BY AtStated
<1>2. /\ stack' = Popped(stack) /\ pos' = p
      /\ ret' = [expr |-> e, error |-> FALSE] /\ calls' = <<>> /\ fault' = "none"
  BY <1>1 DEF Return, Pop, Popped
<1>3. /\ stack' \in Seq(FrameRecord) /\ Stacked(stack')
      /\ stack' = <<>> <=> Len(stack) = 1
      /\ stack' # <<>> => /\ stack'[Len(stack')] = stack[Len(stack) - 1]
                          /\ Len(stack) - 1 \in 1..Len(stack) - 1
                          /\ Lawful(stack'[Len(stack')])
                          /\ Matches(stack'[Len(stack')], stack[Len(stack)])
      /\ Awaited(stack') = AwaitedBelow(stack) /\ Declared(stack') = DeclaredBelow(stack)
  BY <1>1, <1>2, PopStated
<1>4. ret'.expr = e /\ ~ret'.error
  BY <1>2
<1>5. Len(stack) = 1 => e # NULL
  <2>1. Len(stack) = 1 => Top.pc \in Loops
    BY <1>1 DEF FlowInv, Shape
  <2> QED
    BY <2>1 DEF Returns
<1>6. stack' # <<>> => Around(R, stack'[Len(stack')], e, p)
  <2> SUFFICES ASSUME stack' # <<>> PROVE Around(R, stack'[Len(stack')], e, p)
    OBVIOUS
  <2>0. PICK g : g = stack'[Len(stack')]
    OBVIOUS
  <2>9. /\ g = stack[Len(stack) - 1] /\ Len(stack) - 1 \in 1..Len(stack) - 1
        /\ Lawful(g) /\ Matches(g, stack[Len(stack)])
    BY <1>3, <2>0
  <2>1. PICK m \in 1..Len(stack) - 1 : g = stack[m] /\ m + 1 = Len(stack)
    BY <1>1, <2>9
  <2>2. g.pc \in Waiting /\ (g.pc = "scopeEnd" <=> Top.pc \in Loops)
    <3>1. stack[m].pc \in Waiting /\ (stack[m].pc = "scopeEnd" <=> stack[m + 1].pc \in Loops)
      BY <1>1 DEF FlowInv, Shape, IInv, StackInv, Nested
    <3> QED
      BY <1>1, <2>1, <3>1
  <2>3. Lawful(g) /\ Matches(g, Top)
    BY <1>1, <2>9
  <2>4. g.pc \in {"item", "declValue", "operand", "scopeEnd"}
    BY <2>2, <2>3 DEF Waiting, Lawful, Loops, DeclPCs, FuncPCs
  <2>5. CASE g.pc = "scopeEnd"
    BY <2>0, <2>2, <2>5 DEF Returns, Around, Loops
  <2>6. CASE g.pc = "item"
    <3>1. Top.pc \notin Loops /\ Top.kw /\ Top.hi = g.hi
      BY <2>2, <2>3, <2>6 DEF Matches
    <3> QED
      BY <2>0, <2>6, <3>1 DEF Returns, Around
  <2>7. CASE g.pc \in {"declValue", "operand"}
    <3>1. Top.pc \notin Loops /\ ~Top.kw
      BY <2>2, <2>3, <2>7 DEF Matches
    <3> QED
      BY <2>0, <2>7, <3>1 DEF Returns, Around, Loops
  <2> QED
    BY <2>4, <2>5, <2>6, <2>7
<1>7. Stated(R, nodes', stack', ret', calls', pos')
  BY <1>2, <1>3, <1>4, <1>5, <1>6 DEF Stated, Regrouping
<1> QED
  BY <1>2, <1>7 DEF Steps

-----------------------------------------------------------------------------
(* The actions on such a list.                                             *)

\* At the beginning of ast_parse_expr: what it was called for.
LEMMA StartRole ==
  ASSUME NEW R, Standing(R), At("start")
  PROVE  /\ Token = tokens[pos] /\ Top.kw \in BOOLEAN
         /\ ~Top.kw => R[pos] = "value" /\ Top.hi = Len(tokens)
         /\ Top.kw /\ Top.hi = Len(tokens) => R[pos] \in {"def", "fn", "sep", "stop"}
         /\ Top.kw /\ Top.hi # Len(tokens) =>
              R[pos] \in {"inner", "line"} /\ Inside(R, Top.hi, pos)
         /\ Filled(nodes, AwaitedBelow(stack), DeclaredBelow(stack))
<1>1. /\ Top \in FrameRecord /\ Top.pc = "start" /\ pos \in 1..Len(tokens) /\ pos <= Top.hi
      /\ Lawful(Top) /\ Around(R, Top, ret.expr, pos) /\ Top.hi \in Nat
      /\ Filled(nodes, AwaitedBelow(stack), DeclaredBelow(stack))
  BY AtStated, Points DEF DeclPCs
<1>2. Top.kw \in BOOLEAN
  BY <1>1 DEF FrameRecord
<1>3. pos \in pos..Top.hi /\ pos <= Len(tokens)
  BY <1>1
<1> QED
  BY <1>1, <1>2, <1>3 DEF Lawful, Around, ItemNext, Outside, Inside, Loops, Token

\* The strings of the tokens that are still to be read.
LEMMA NamedPtr ==
  ASSUME NEW R, Standing(R), NEW pc, At(pc), NEW k \in pos..Len(tokens),
         tokens[k] \in {"ident", "string"}
  PROVE  ptr[k] = k /\ ptr[k] \notin {NULL, Wild}
<1>1. Fresh(pos) /\ pos \in Nat \ {0} /\ Len(tokens) \in Nat
  BY AtStated
<1> QED
  BY <1>1 DEF Fresh, PtrOf, Identifiers, NULL, Wild

\* A new node.
LEMMA NewNeat ==
  ASSUME Neat(nodes), NEW ms, Keeps(nodes, ms), NEW rec, New(ms, rec), Wild \notin rec.own
  PROVE  Neat(nodes')
<1>1. Acquires(nodes, With(ms, nextId, rec), nextId, rec.own)
  BY NewAcquires
<1>2. nodes' = With(ms, nextId, rec)
  BY DEF New
<1> QED
  BY <1>1, <1>2, AcquiresNeat

\* A node that is not linked to others yet.
LEMMA LeafStated ==
  ASSUME NEW R, Standing(R), NEW pc, At(pc), NEW type, NEW own, Wild \notin own,
         New(nodes, Node(type, pos, own)),
         NEW S, NEW D, Filled(nodes, S, D)
  PROVE  /\ Neat(nodes')
         /\ type \notin {"oper", "decl"} => Filled(nodes', S, D)
         /\ type = "decl" => Filled(nodes', S, D \cup {nextId})
<1>1. Neat(nodes) /\ NodesTyped(nodes) /\ nextId \notin DOMAIN nodes
  BY AtStated
<1>2. Grown(nodes) /\ Keeps(nodes, nodes)
  BY KeepsSame DEF Grown
<1>3. Node(type, pos, own).type = type /\ Wild \notin Node(type, pos, own).own
  BY NodeOwn, FreshNode
<1> QED
  BY <1>1, <1>2, <1>3, NewNeat, NewFilled

\* A pointer of a token is stored in the result.
LEMMA GiveStated ==
  ASSUME NEW R, Standing(R), NEW pc, At(pc), NEW n, NEW own, Wild \notin own,
         nodes' = Give(n, own), NEW S, NEW D, Filled(nodes, S, D)
  PROVE  Neat(nodes') /\ Filled(nodes', S, D)
<1>1. Neat(nodes) /\ NodesTyped(nodes) /\ nextId \in Nat \ {NULL}
  BY AtStated
<1>2. Grown(Give(n, own)) /\ DOMAIN Give(n, own) = DOMAIN nodes
  BY <1>1, GrownGive
<1>3. Acquires(nodes, Give(n, own), n, own \ {NULL})
  BY <1>1, GiveAcquires
<1>4. Neat(nodes')
  BY <1>1, <1>3, AcquiresNeat
<1> QED
  BY <1>2, <1>4, StillFilled

\* NEXT_TOKEN where there is no line break.
LEMMA NextHere ==
  ASSUME NEW p \in Nat, NEW hi \in Nat, p <= hi, tokens[p] # "newline"
  PROVE  NextToken(p, hi) = p
<1>0. p <= hi + 1
  OBVIOUS
<1>1. /\ NextToken(p, hi) \in p..(hi + 1)
      /\ \A j \in p..(NextToken(p, hi) - 1) : tokens[j] = "newline"
  BY <1>0, NextTokenStops
<1> QED
  BY <1>1

\* DeclStart.
LEMMA DeclStartStated == ASSUME NEW R, Standing(R), DeclStart PROVE Steps(R)
<1>0. At("start") /\ Token = "def"
  BY DEF DeclStart
<1>1. /\ pos \in 1..Len(tokens) /\ Labels(R) /\ tokens \in Seq(TokenKinds)
      /\ nextId \in Nat \ {NULL} /\ Top.pc = "start"
  BY <1>0, AtStated, Points
<1>2. /\ R[pos] = "def" /\ Top.kw /\ Top.hi = Len(tokens)
      /\ pos < Len(tokens) /\ R[pos + 1] = "name"
  BY <1>0, <1>1, StartRole, RoleFacts
<1>3. /\ New(nodes, Node("decl", pos, {})) /\ Goes("declName", nextId, pos + 1)
  BY <1>1, <1>2 DEF DeclStart, LastToken, Goes
<1>4. Neat(nodes') /\ Filled(nodes', AwaitedBelow(stack), DeclaredBelow(stack) \cup {nextId})
  BY <1>0, <1>3, StartRole, LeafStated
<1>5. Goal(R, "declName", nextId, pos + 1)
  BY <1>2 DEF Goal, Lawful, Around, DeclPCs, Loops
<1>6. "declName" \in PCs \ {"operand"} /\ "declName" \in DeclPCs
  BY DEF PCs, DeclPCs
<1> QED
  BY <1>0, <1>1, <1>3, <1>4, <1>5, <1>6, GoOnStated

\* What the actions of a declaration start from.
LEMMA DeclStated ==
  ASSUME NEW R, Standing(R), NEW pc \in DeclPCs, At(pc)
  PROVE  /\ tokens \in Seq(TokenKinds) /\ Len(tokens) \in Nat /\ Labels(R) /\ Token = tokens[pos]
         /\ pos \in Nat \ {0} /\ Top.hi = Len(tokens) /\ Top.kw /\ Top.res \in Nat /\ Top.pc = pc
         /\ pc # "declValue" => pos \in 1..Len(tokens)
         /\ nextId \in Nat \ {NULL} /\ nextId \notin DOMAIN nodes
         /\ Neat(nodes) /\ NodesTyped(nodes) /\ ~ret.error
         /\ Around(R, Top, ret.expr, pos)
         /\ Filled(nodes, AwaitedBelow(stack), DeclaredBelow(stack) \cup {Top.res})
<1>1. pc # "declValue" => pc \in Reading
  BY DEF DeclPCs, Reading
<1>2. pc # "operand" /\ pc # "start" /\ pc \notin Loops /\ pc \notin {"next", "operand", "settle"}
  BY DEF DeclPCs, Loops
<1>3. Lawful(Top) /\ Top.pc = pc
  BY AtStated
<1>4. Top.kw /\ Top.hi = Len(tokens)
  BY <1>2, <1>3 DEF Lawful
<1> QED
  BY <1>1, <1>2, <1>4, AtStated DEF Token

\* DeclName.
LEMMA DeclNameStated == ASSUME NEW R, Standing(R), DeclName PROVE Steps(R)
<1>0. At("declName") /\ "declName" \in DeclPCs /\ "declMark" \in DeclPCs
  BY DEF DeclName, DeclPCs
<1>1. /\ pos \in 1..Len(tokens) /\ R[pos] = "name" /\ Token = tokens[pos]
      /\ Top.hi = Len(tokens) /\ Top.kw /\ Top.res \in Nat
      /\ nextId \in Nat \ {NULL} /\ nextId \notin DOMAIN nodes
      /\ Neat(nodes) /\ NodesTyped(nodes) /\ Len(tokens) \in Nat
      /\ Filled(nodes, AwaitedBelow(stack), DeclaredBelow(stack) \cup {Top.res})
  BY <1>0, DeclStated DEF Around
<1>2. /\ tokens[pos] = "ident" /\ pos < Len(tokens)
      /\ R[pos + 1] \in {"colon", "assign"}
  BY <1>0, <1>1, DeclStated, RoleFacts
<1> DEFINE ms == [nodes EXCEPT ![Top.res].left = nextId]
           rec == Node("string", pos, {ptr[pos]})
<1>3. New(ms, rec) /\ Goes("declMark", Top.res, pos + 1)
  BY <1>1, <1>2 DEF DeclName, LastToken, Goes, Identifiers, Keywords
<1>4. Grown(ms) /\ DOMAIN ms = DOMAIN nodes
  BY <1>1, GrownUpdate
<1>5. Keeps(nodes, ms)
  BY <1>1, UpdateKeeps
<1>6. rec.type = "string" /\ Wild \notin rec.own
  <2>1. pos \in pos..Len(tokens)
    BY <1>1
  <2> QED
    BY <1>0, <1>2, <2>1, NamedPtr, NodeOwn, FreshNode
<1> HIDE DEF ms, rec
<1>7. Neat(nodes') /\ Filled(nodes', AwaitedBelow(stack), DeclaredBelow(stack) \cup {Top.res})
  BY <1>1, <1>3, <1>4, <1>5, <1>6, NewNeat, NewFilled
<1>8. Goal(R, "declMark", Top.res, pos + 1)
  BY <1>1, <1>2 DEF Goal, Lawful, Around, DeclPCs, Loops
<1>9. "declMark" \in PCs \ {"operand"}
  BY DEF PCs
<1> QED
  BY <1>0, <1>1, <1>3, <1>7, <1>8, <1>9, GoOnStated

\* DeclMark.
LEMMA DeclMarkStated == ASSUME NEW R, Standing(R), DeclMark PROVE Steps(R)
<1>0. At("declMark") /\ "declMark" \in DeclPCs
  BY DEF DeclMark, DeclPCs
<1>1. /\ pos \in 1..Len(tokens) /\ R[pos] \in {"colon", "assign"} /\ Token = tokens[pos]
      /\ Top.hi = Len(tokens) /\ Top.kw /\ Top.res \in Nat /\ Len(tokens) \in Nat
      /\ Neat(nodes)
      /\ Filled(nodes, AwaitedBelow(stack), DeclaredBelow(stack) \cup {Top.res})
  BY <1>0, DeclStated DEF Around
<1>2. /\ R[pos] = "colon" => tokens[pos] = ":" /\ pos < Len(tokens) /\ R[pos + 1] = "type"
      /\ R[pos] = "assign" => tokens[pos] = "="
  BY <1>0, <1>1, DeclStated, RoleFacts
<1>3. UNCHANGED nodes
  BY DEF DeclMark, heap
<1>4. CASE R[pos] = "colon"
  <2>1. Goes("declType", Top.res, pos + 1)
    BY <1>1, <1>2, <1>4 DEF DeclMark, LastToken, Goes, Operators
  <2>2. Goal(R, "declType", Top.res, pos + 1)
    BY <1>1, <1>2, <1>4 DEF Goal, Lawful, Around, DeclPCs, Loops
  <2>3. "declType" \in PCs \ {"operand"} /\ "declType" \in DeclPCs
    BY DEF PCs, DeclPCs
  <2> QED
    BY <1>0, <1>1, <1>3, <2>1, <2>2, <2>3, GoOnStated
<1>5. CASE R[pos] = "assign"
  <2>1. Goes("declAssign", Top.res, pos)
    BY <1>1, <1>2, <1>5 DEF DeclMark, Goes, Operators
  <2>2. Goal(R, "declAssign", Top.res, pos)
    BY <1>1, <1>2, <1>5 DEF Goal, Lawful, Around, DeclPCs, Loops
  <2>3. "declAssign" \in PCs \ {"operand"} /\ "declAssign" \in DeclPCs
    BY DEF PCs, DeclPCs
  <2> QED
    BY <1>0, <1>1, <1>3, <2>1, <2>2, <2>3, GoOnStated
<1> QED
  BY <1>1, <1>4, <1>5

\* DeclType.
LEMMA DeclTypeStated == ASSUME NEW R, Standing(R), DeclType PROVE Steps(R)
<1>0. At("declType") /\ "declType" \in DeclPCs
  BY DEF DeclType, DeclPCs
<1>1. /\ pos \in 1..Len(tokens) /\ R[pos] = "type" /\ Token = tokens[pos]
      /\ Top.hi = Len(tokens) /\ Top.kw /\ Top.res \in Nat /\ Len(tokens) \in Nat
      /\ Filled(nodes, AwaitedBelow(stack), DeclaredBelow(stack) \cup {Top.res})
  BY <1>0, DeclStated DEF Around
<1>2. tokens[pos] = "ident" /\ pos < Len(tokens) /\ R[pos + 1] = "assign"
  BY <1>0, <1>1, DeclStated, RoleFacts
<1>3. tokens[pos + 1] = "="
  <2>1. pos + 1 \in 1..Len(tokens)
    BY <1>1, <1>2
  <2> QED
    BY <1>0, <1>2, <2>1, DeclStated, RoleFacts
<1>4. ptr[pos] \notin {NULL, Wild}
  <2>1. pos \in pos..Len(tokens)
    BY <1>1
  <2> QED
    BY <1>0, <1>2, <2>1, NamedPtr
<1>5. nodes' = Give(Top.res, {ptr[pos]}) /\ Goes("declAssign", Top.res, pos + 1)
  BY <1>1, <1>2, <1>3, <1>4 DEF DeclType, LastToken, Follows, Goes, ValidName
<1>6. Neat(nodes') /\ Filled(nodes', AwaitedBelow(stack), DeclaredBelow(stack) \cup {Top.res})
  BY <1>0, <1>1, <1>4, <1>5, GiveStated
<1>7. Goal(R, "declAssign", Top.res, pos + 1)
  BY <1>1, <1>2 DEF Goal, Lawful, Around, DeclPCs, Loops
<1>8. "declAssign" \in PCs \ {"operand"} /\ "declAssign" \in DeclPCs
  BY DEF PCs, DeclPCs
<1> QED
  BY <1>0, <1>1, <1>5, <1>6, <1>7, <1>8, GoOnStated

\* DeclAssign.
LEMMA DeclAssignStated == ASSUME NEW R, Standing(R), DeclAssign PROVE Steps(R)
<1>0. At("declAssign") /\ "declAssign" \in DeclPCs /\ "declAssign" \notin Loops
  BY DEF DeclAssign, DeclPCs, Loops
<1>1. /\ pos \in 1..Len(tokens) /\ R[pos] = "assign" /\ Token = tokens[pos] /\ Neat(nodes)
      /\ Top.hi = Len(tokens) /\ Top.kw /\ Top.res \in Nat /\ Len(tokens) \in Nat
      /\ Filled(nodes, AwaitedBelow(stack), DeclaredBelow(stack) \cup {Top.res})
  BY <1>0, DeclStated DEF Around
<1>2. tokens[pos] = "=" /\ pos < Len(tokens) /\ R[pos + 1] = "value"
  BY <1>0, <1>1, DeclStated, RoleFacts
<1>3. Call([Top EXCEPT !.pc = "declValue"], pos + 1) /\ UNCHANGED nodes
  BY <1>1, <1>2 DEF DeclAssign, LastToken, heap
<1>4. Filled(nodes', AwaitedBelow(stack) \cup {}, DeclaredBelow(stack) \cup {Top.res})
  BY <1>1, <1>3
<1> QED
  BY <1>0, <1>1, <1>2, <1>3, <1>4, CallStated

\* DeclValue.
LEMMA DeclValueStated == ASSUME NEW R, Standing(R), DeclValue PROVE Steps(R)
<1>0. At("declValue") /\ "declValue" \in DeclPCs /\ "declValue" \notin Loops
  BY DEF DeclValue, DeclPCs, Loops
<1>1. /\ ret.expr # NULL /\ ~ret.error /\ AfterValue(R, pos) /\ Token = tokens[pos]
      /\ Top.hi = Len(tokens) /\ Top.kw /\ Top.pc = "declValue" /\ Len(tokens) \in Nat
      /\ pos \in Nat \ {0} /\ Neat(nodes) /\ NodesTyped(nodes)
      /\ Filled(nodes, AwaitedBelow(stack), DeclaredBelow(stack) \cup {Top.res})
  BY <1>0, DeclStated DEF Around
<1>2. pos <= Len(tokens) => R[pos] = "sep" /\ tokens[pos] \in {"newline", "semicolon"}
  <2>1. pos <= Len(tokens) => pos \in 1..Len(tokens)
    BY <1>1
  <2> QED
    BY <1>0, <1>1, <2>1, DeclStated, RoleFacts DEF AfterValue
<1>3. Return(Top.res, pos) /\ nodes' = [nodes EXCEPT ![Top.res].right = ret.expr]
  BY <1>1, <1>2 DEF DeclValue
<1>4. Top.res \in DOMAIN nodes
  <2>1. FrameOK(Top, nodes) /\ Top.res \in DOMAIN nodes \cup {NULL}
    BY <1>0, AtStated, AtNodes
  <2> QED
    BY <1>1, <2>1 DEF FrameOK
<1>5. Neat(nodes')
  <2>1. Keeps(nodes, nodes')
    BY <1>1, <1>3, UpdateKeeps
  <2> QED
    BY <1>1, <2>1, KeepsNeat
<1>6. Filled(nodes', AwaitedBelow(stack), DeclaredBelow(stack))
  <2>1. Filled(WithRight(nodes, Top.res, ret.expr), AwaitedBelow(stack), DeclaredBelow(stack))
    BY <1>1, <1>4, AnswerFilled
  <2> QED
    BY <1>3, <2>1 DEF WithRight
<1>7. Returns(R, Top, Top.res, pos)
  BY <1>0, <1>1, <1>2 DEF Returns, ItemNext, Outside
<1> QED
  BY <1>0, <1>3, <1>5, <1>6, <1>7, ReturnStated

\* SkipToken.
LEMMA SkipTokenStated == ASSUME NEW R, Standing(R), SkipToken PROVE Steps(R)
<1>0. At("start") /\ Token \in {"newline", "semicolon", "rbrace", "comma", "other"}
  BY DEF SkipToken
<1>1. /\ pos \in 1..Len(tokens) /\ Len(tokens) \in Nat /\ Labels(R) /\ Neat(nodes)
      /\ tokens \in Seq(TokenKinds) /\ Top.pc = "start" /\ Token = tokens[pos]
      /\ Top.kw \in BOOLEAN /\ Top.hi \in Nat
      /\ Filled(nodes, AwaitedBelow(stack), DeclaredBelow(stack))
  BY <1>0, AtStated, StartRole, Points
<1>2. Return(NULL, pos + 1) /\ UNCHANGED nodes
  BY DEF SkipToken, heap
<1>3. Top.kw
  <2>1. CASE ~Top.kw
    <3>1. R[pos] = "value"
      BY <1>0, <2>1, StartRole
    <3>2. tokens[pos] \in {"num", "ident", "string"}
      BY <1>1, <3>1, RoleFacts
    <3> QED
      BY <1>0, <1>1, <3>2
  <2> QED
    BY <1>1, <2>1
<1>4. CASE Top.hi = Len(tokens)
  <2>1. R[pos] \in {"def", "fn", "sep", "stop"}
    BY <1>0, <1>3, <1>4, StartRole
  <2>2. pos < Len(tokens) => R[pos + 1] \in {"def", "fn", "sep"}
    BY <1>0, <1>1, <2>1, RoleFacts
  <2>3. Outside(R, pos + 1)
    BY <1>1, <2>2 DEF Outside
  <2>4. Returns(R, Top, NULL, pos + 1)
    BY <1>1, <1>3, <1>4, <2>3 DEF Returns, ItemNext, Loops
  <2> QED
    BY <1>0, <1>1, <1>2, <2>4, ReturnStated
<1>5. CASE Top.hi # Len(tokens)
  <2>1. Inside(R, Top.hi, pos)
    BY <1>0, <1>3, <1>5, StartRole
  <2>2. Inside(R, Top.hi, pos + 1)
    BY <1>1, <2>1 DEF Inside
  <2>3. Returns(R, Top, NULL, pos + 1)
    BY <1>1, <1>3, <1>5, <2>2 DEF Returns, ItemNext, Loops
  <2> QED
    BY <1>0, <1>1, <1>2, <2>3, ReturnStated
<1> QED
  BY <1>4, <1>5

\* A value or an expression of a scope has been read; so has what follows it.
LEMMA Operand1Stated ==
  ASSUME NEW R, Standing(R), At("start"), R[pos] = "value", NEW x \in Nat \ {NULL},
         \/ /\ pos = Len(tokens) \/ R[pos + 1] = "sep"
            /\ Return(x, pos + 1)
         \/ /\ pos < Len(tokens)
            /\ Continue([Top EXCEPT !.pc = "next", !.res = x], pos + 1),
         Neat(nodes'), Filled(nodes', AwaitedBelow(stack), DeclaredBelow(stack))
  PROVE  Steps(R)
<1>1. /\ pos \in 1..Len(tokens) /\ Len(tokens) \in Nat /\ Labels(R)
      /\ tokens \in Seq(TokenKinds) /\ Top.pc = "start"
      /\ Top.kw \in BOOLEAN
  BY AtStated, StartRole, Points
<1>2. ~Top.kw /\ Top.hi = Len(tokens)
  <2>1. Top.kw /\ Top.hi = Len(tokens) => R[pos] \in {"def", "fn", "sep", "stop"}
    BY StartRole
  <2>2. Top.kw /\ Top.hi # Len(tokens) => R[pos] \in {"inner", "line"}
    BY StartRole
  <2>3. ~Top.kw => Top.hi = Len(tokens)
    BY StartRole
  <2> QED
    BY <2>1, <2>2, <2>3
<1>3. pos < Len(tokens) => R[pos + 1] \in {"op", "sep"}
  BY <1>1, RoleFacts
<1>4. CASE (pos = Len(tokens) \/ R[pos + 1] = "sep") /\ Return(x, pos + 1)
  <2>1. AfterValue(R, pos + 1)
    BY <1>1, <1>4 DEF AfterValue
  <2>2. Returns(R, Top, x, pos + 1)
    BY <1>1, <1>2, <2>1 DEF Returns, Loops
  <2> QED
    BY <1>4, <2>2, ReturnStated
<1>5. CASE /\ pos < Len(tokens)
           /\ Continue([Top EXCEPT !.pc = "next", !.res = x], pos + 1)
  <2>1. Goes("next", x, pos + 1)
    BY <1>5 DEF Goes
  <2>2. Goal(R, "next", x, pos + 1)
    BY <1>2, <1>3, <1>5 DEF Goal, Lawful, Around, Loops
  <2>3. "next" \in PCs \ {"operand"} /\ "next" \notin DeclPCs
    BY DEF PCs, DeclPCs
  <2>4. Filled(nodes', AwaitedBelow(stack),
               DeclaredBelow(stack) \cup IF "next" \in DeclPCs THEN {x} ELSE {})
    BY <2>3
  <2> QED
    BY <2>1, <2>2, <2>3, <2>4, GoOnStated
<1> QED
  BY <1>4, <1>5

\* Variable.
LEMMA VariableStated == ASSUME NEW R, Standing(R), Variable PROVE Steps(R)
<1>0. At("start") /\ Token = "ident"
  BY DEF Variable
<1>1. /\ pos \in 1..Len(tokens) /\ Len(tokens) \in Nat /\ Labels(R) /\ nextId \in Nat \ {NULL}
      /\ tokens \in Seq(TokenKinds) /\ Top.pc = "start" /\ Token = tokens[pos]
      /\ Top.kw \in BOOLEAN /\ Top.hi \in Nat /\ Top.hi <= Len(tokens) /\ pos <= Top.hi
      /\ Filled(nodes, AwaitedBelow(stack), DeclaredBelow(stack))
  BY <1>0, AtStated, StartRole, Points
<1>2. PICK own : own = {ptr[pos]}
  OBVIOUS
<1>3. /\ New(nodes, Node("var", pos, own))
      /\ IF LastToken \/ Follows({"newline", "semicolon"})
           THEN Return(nextId, pos + 1)
         ELSE IF Follows(Operators)
           THEN Continue([Top EXCEPT !.pc = "next", !.res = nextId], pos + 1)
           ELSE Fail(nextId)
  BY <1>2 DEF Variable
<1>4. Neat(nodes') /\ Filled(nodes', AwaitedBelow(stack), DeclaredBelow(stack))
  <2>1. pos \in pos..Len(tokens)
    BY <1>1
  <2>2. Wild \notin own
    BY <1>0, <1>1, <1>2, <2>1, NamedPtr
  <2>3. New(nodes, Node("var", pos, own)) /\ "var" \notin {"oper", "decl"}
    BY <1>3
  <2> QED
    BY <1>0, <1>1, <2>2, <2>3, LeafStated
<1>5. /\ R[pos] \notin {"def", "fn", "sep", "stop", "line"}
  BY <1>0, <1>1, RoleFacts
<1>6. CASE Top.kw
  <2>1. Top.hi # Len(tokens) /\ R[pos] = "inner" /\ Inside(R, Top.hi, pos)
    BY <1>0, <1>5, <1>6, StartRole
  <2>2. LastToken \/ Follows({"newline", "semicolon"})
    <3> SUFFICES ASSUME pos < Top.hi PROVE Follows({"newline", "semicolon"})
      BY <1>1 DEF LastToken
    <3>1. R[pos + 1] \in {"line", "end"}
      BY <1>1, <2>1, RoleFacts
    <3>2. pos + 1 \in pos..Top.hi /\ pos + 1 \in 1..Len(tokens)
      BY <1>1
    <3>3. R[pos + 1] = "line"
      BY <2>1, <3>1, <3>2 DEF Inside
    <3>4. tokens[pos + 1] \in {"newline", "semicolon"}
      BY <1>1, <3>2, <3>3, RoleFacts
    <3> QED
      BY <1>1, <3>4 DEF Follows, LastToken
  <2>3. Return(nextId, pos + 1)
    BY <1>3, <2>2
  <2>4. Inside(R, Top.hi, pos + 1)
    BY <1>1, <2>1 DEF Inside
  <2>5. Returns(R, Top, nextId, pos + 1)
    BY <1>1, <1>6, <2>1, <2>4 DEF Returns, ItemNext, Loops
  <2> QED
    BY <1>0, <1>4, <2>3, <2>5, ReturnStated
<1>7. CASE ~Top.kw
  <2>1. R[pos] = "value" /\ Top.hi = Len(tokens)
    BY <1>0, <1>7, StartRole
  <2>2. pos < Len(tokens) => R[pos + 1] \in {"op", "sep"} /\ pos + 1 \in 1..Len(tokens)
    BY <1>1, <2>1, RoleFacts
  <2>3. CASE pos = Len(tokens)
    <3>1. Return(nextId, pos + 1)
      BY <1>3, <2>1, <2>3 DEF LastToken
    <3> QED
      BY <1>0, <1>1, <1>4, <2>1, <2>3, <3>1, Operand1Stated
  <2>4. CASE pos < Len(tokens) /\ R[pos + 1] = "sep"
    <3>1. tokens[pos + 1] \in {"newline", "semicolon"}
      BY <1>1, <2>2, <2>4, RoleFacts
    <3>2. Return(nextId, pos + 1)
      BY <1>1, <1>3, <2>1, <2>4, <3>1 DEF LastToken, Follows
    <3> QED
      BY <1>0, <1>1, <1>4, <2>1, <2>4, <3>2, Operand1Stated
  <2>5. CASE pos < Len(tokens) /\ R[pos + 1] = "op"
    <3>1. tokens[pos + 1] \in Operators /\ tokens[pos + 1] \notin {"newline", "semicolon"}
      BY <1>1, <2>2, <2>5, RoleFacts DEF Operators
    <3>2. Continue([Top EXCEPT !.pc = "next", !.res = nextId], pos + 1)
      BY <1>1, <1>3, <2>1, <2>5, <3>1 DEF LastToken, Follows
    <3> QED
      BY <1>0, <1>1, <1>4, <2>1, <2>5, <3>2, Operand1Stated
  <2> QED
    BY <1>1, <2>2, <2>3, <2>4, <2>5
<1> QED
  BY <1>1, <1>6, <1>7

\* Literal.
LEMMA LiteralStated == ASSUME NEW R, Standing(R), Literal PROVE Steps(R)
<1>0. At("start") /\ Token \in {"string", "num"}
  BY DEF Literal
<1>1. /\ pos \in 1..Len(tokens) /\ Len(tokens) \in Nat /\ Labels(R) /\ nextId \in Nat \ {NULL}
      /\ tokens \in Seq(TokenKinds) /\ Top.pc = "start" /\ Token = tokens[pos]
      /\ Top.kw \in BOOLEAN /\ Top.hi \in Nat
      /\ Filled(nodes, AwaitedBelow(stack), DeclaredBelow(stack))
  BY <1>0, AtStated, StartRole, Points
<1>2. PICK own : own = IF Token = "string" THEN {ptr[pos]} ELSE {}
  OBVIOUS
<1>3. New(nodes, Node(Token, pos, own)) /\ ThenNext(nextId, pos + 1)
  BY <1>2 DEF Literal
<1>4. Wild \notin own
  <2>1. pos \in pos..Len(tokens)
    BY <1>1
  <2>2. Token = "string" => Wild \notin {ptr[pos]}
    BY <1>0, <1>1, <2>1, NamedPtr
  <2> QED
    BY <1>2, <2>2
<1>5. Neat(nodes') /\ Filled(nodes', AwaitedBelow(stack), DeclaredBelow(stack))
  <2>1. Token \notin {"oper", "decl"}
    BY <1>0
  <2> QED
    BY <1>0, <1>1, <1>3, <1>4, <2>1, LeafStated
<1>6. R[pos] = "value" /\ Top.hi = Len(tokens)
  <2>1. R[pos] \notin {"def", "fn", "sep", "stop", "line", "inner"}
    BY <1>0, <1>1, RoleFacts
  <2> QED
    BY <1>0, <1>1, <2>1, StartRole
<1>7. CASE pos = Len(tokens)
  <2>1. Return(nextId, pos + 1)
    BY <1>1, <1>3, <1>6, <1>7 DEF ThenNext
  <2> QED
    BY <1>0, <1>1, <1>5, <1>6, <1>7, <2>1, Operand1Stated
<1>8. CASE pos < Len(tokens)
  <2>1. Continue([Top EXCEPT !.pc = "next", !.res = nextId], pos + 1)
    BY <1>1, <1>3, <1>6, <1>8 DEF ThenNext
  <2> QED
    BY <1>0, <1>1, <1>5, <1>6, <1>8, <2>1, Operand1Stated
<1> QED
  BY <1>1, <1>7, <1>8

\* NextLabel.
LEMMA NextLabelStated == ASSUME NEW R, Standing(R), NextLabel PROVE Steps(R)
<1> DEFINE x == [Node("oper", pos, {}) EXCEPT !.op = Token, !.left = Top.res]
<1>0. At("next")
  BY DEF NextLabel
<1>1. /\ pos \in 1..Len(tokens) /\ Len(tokens) \in Nat /\ Labels(R) /\ nextId \in Nat \ {NULL}
      /\ nextId \notin DOMAIN nodes /\ NodesTyped(nodes) /\ Neat(nodes)
      /\ tokens \in Seq(TokenKinds) /\ Top.pc = "next" /\ Lawful(Top)
      /\ Around(R, Top, ret.expr, pos)
      /\ Filled(nodes, AwaitedBelow(stack), DeclaredBelow(stack))
  <2>1. "next" \notin DeclPCs
    BY DEF DeclPCs
  <2> QED
    BY <1>0, <2>1, AtStated, Points
<1>2. /\ ~Top.kw /\ Top.hi = Len(tokens) /\ Top.res # NULL /\ R[pos] \in {"op", "sep"}
      /\ Token = tokens[pos] /\ "next" \notin Loops
  BY <1>1 DEF Lawful, Around, Loops, DeclPCs, FuncPCs, Token
<1>3. /\ R[pos] = "op" => tokens[pos] \in Operators /\ pos < Len(tokens) /\ R[pos + 1] = "value"
      /\ R[pos] = "sep" => tokens[pos] \in {"newline", "semicolon"}
  BY <1>1, RoleFacts
<1>4. CASE R[pos] = "sep"
  <2>1. Return(Top.res, pos) /\ UNCHANGED nodes
    BY <1>2, <1>3, <1>4 DEF NextLabel, heap, Operators
  <2>2. Returns(R, Top, Top.res, pos)
    BY <1>1, <1>2, <1>4 DEF Returns, AfterValue
  <2> QED
    BY <1>0, <1>1, <2>1, <2>2, ReturnStated
<1>5. CASE R[pos] = "op"
  <2>1. pos + 1 \in 1..Len(tokens) /\ tokens[pos + 1] # "newline"
    <3>1. pos + 1 \in 1..Len(tokens)
      BY <1>1, <1>3, <1>5
    <3> QED
      BY <1>1, <1>3, <1>5, <3>1, RoleFacts
  <2>2. NextToken(pos + 1, Top.hi) = pos + 1
    BY <1>1, <1>2, <2>1, NextHere
  <2>3. New(nodes, x) /\ Call([Top EXCEPT !.pc = "operand", !.res = nextId], pos + 1)
    BY <1>1, <1>2, <1>3, <1>5, <2>1, <2>2 DEF NextLabel, Operators
  <2>4. x.type = "oper" /\ x.left = Top.res /\ ~x.wrapped /\ Wild \notin x.own
    BY DEF Node
  <2> HIDE DEF x
  <2>5. Keeps(nodes, nodes) /\ Grown(nodes)
    BY KeepsSame DEF Grown
  <2>6. /\ Neat(nodes')
        /\ Filled(nodes', AwaitedBelow(stack) \cup {nextId}, DeclaredBelow(stack))
    BY <1>1, <1>2, <2>3, <2>4, <2>5, NewNeat, NewFilled
  <2>7. Filled(nodes', AwaitedBelow(stack) \cup {nextId}, DeclaredBelow(stack) \cup {})
    BY <2>6
  <2> QED
    BY <1>0, <1>1, <1>2, <1>3, <1>5, <2>3, <2>6, <2>7, CallStated
<1> QED
  BY <1>2, <1>4, <1>5

\* Settle.
LEMMA SettleStated == ASSUME NEW R, Standing(R), Settle PROVE Steps(R)
<1>0. At("settle") /\ Return(Top.res, pos) /\ UNCHANGED nodes
  BY DEF Settle, heap
<1>1. /\ Top.pc = "settle" /\ Lawful(Top) /\ Around(R, Top, ret.expr, pos) /\ Neat(nodes)
      /\ IInv /\ NodesInv
      /\ Filled(nodes, AwaitedBelow(stack), DeclaredBelow(stack))
  <2>1. "settle" \notin DeclPCs
    BY DEF DeclPCs
  <2>2. /\ Top.pc = "settle" /\ Lawful(Top) /\ Around(R, Top, ret.expr, pos) /\ Neat(nodes)
        /\ IInv /\ NodesInv
    BY <1>0, AtStated
  <2>3. Filled(nodes,
               AwaitedBelow(stack) \cup IF "settle" = "operand" THEN {Top.res} ELSE {},
               DeclaredBelow(stack) \cup IF "settle" \in DeclPCs THEN {Top.res} ELSE {})
    BY <1>0, AtStated
  <2> QED
    BY <2>1, <2>2, <2>3
<1>2. Top.res # NULL
  <2>1. FrameOK(Top, nodes)
    BY <1>0, <1>1, AtNodes
  <2> QED
    BY <1>1, <2>1 DEF FrameOK
<1>3. Returns(R, Top, Top.res, pos)
  BY <1>1, <1>2 DEF Lawful, Around, Loops, DeclPCs, FuncPCs, Returns
<1> QED
  BY <1>0, <1>1, <1>3, ReturnStated

\* Operand.
LEMMA OperandStated == ASSUME NEW R, Standing(R), Operand PROVE Steps(R)
<1> DEFINE f == [Top EXCEPT !.pc = "settle"]
<1>0. At("operand")
  BY DEF Operand
<1>1. /\ stack \in Seq(FrameRecord) /\ stack # <<>> /\ Stacked(stack) /\ Len(stack) \in Nat \ {0}
      /\ calls = <<>> /\ fault = "none" /\ ~ret.error /\ Top = stack[Len(stack)]
      /\ Top \in FrameRecord /\ Top.res \in Nat /\ Top.pc = "operand"
      /\ Lawful(Top) /\ Around(R, Top, ret.expr, pos)
      /\ Neat(nodes) /\ NodesTyped(nodes) /\ IInv /\ NodesInv
  BY <1>0, AtStated
<1>2. Filled(nodes, AwaitedBelow(stack) \cup {Top.res}, DeclaredBelow(stack))
  <2>1. "operand" \notin DeclPCs
    BY DEF DeclPCs
  <2>2. Filled(nodes,
               AwaitedBelow(stack) \cup IF "operand" = "operand" THEN {Top.res} ELSE {},
               DeclaredBelow(stack) \cup IF "operand" \in DeclPCs THEN {Top.res} ELSE {})
    BY <1>0, AtStated
  <2> QED
    BY <2>1, <2>2
<1>3. ret.expr # NULL /\ AfterValue(R, pos) /\ ~Top.kw /\ Top.hi = Len(tokens)
  BY <1>1 DEF Around, Lawful, Loops, DeclPCs, FuncPCs
<1>4. /\ nodes' = [nodes EXCEPT ![Top.res].right = ret.expr]
      /\ stack' = Replaced(stack, f) /\ calls' = Calls("process_operation", <<Top.res>>)
      /\ ret' = Nothing /\ pos' = pos /\ fault' = "none"
  <2>1. stack' = [stack EXCEPT ![Len(stack)].pc = "settle"]
    BY <1>1 DEF Operand
  <2>2. stack' = Replaced(stack, f)
    BY <1>1, <2>1 DEF Replaced
  <2> QED
    BY <1>1, <2>2 DEF Operand
<1>5. Top.res \notin Below(stack) /\ Top.res \in DOMAIN nodes
  <2>1. FrameOK(Top, nodes) /\ Top.res \in DOMAIN nodes \cup {NULL} /\ Top.res \notin Below(stack)
    BY <1>0, <1>1, AtNodes
  <2> QED
    BY <1>1, <2>1 DEF FrameOK
<1>6. /\ Filled(nodes', AwaitedBelow(stack), DeclaredBelow(stack))
      /\ DOMAIN nodes' = DOMAIN nodes /\ Neat(nodes')
  <2>1. Filled(WithRight(nodes, Top.res, ret.expr), AwaitedBelow(stack), DeclaredBelow(stack))
    BY <1>1, <1>2, <1>3, <1>5, AnswerFilled
  <2>2. Keeps(nodes, nodes')
    BY <1>1, <1>4, UpdateKeeps
  <2>3. Neat(nodes')
    BY <1>1, <2>2, KeepsNeat
  <2> QED
    BY <1>4, <2>1, <2>3 DEF WithRight
<1>7. /\ f \in FrameRecord /\ f.pc = "settle" /\ f.hi = Top.hi /\ f.res = Top.res
      /\ f.kw = Top.kw
  BY <1>1 DEF FrameRecord, PCs
<1> HIDE DEF f
<1>8. Lawful(f) /\ Around(R, f, NULL, pos)
  BY <1>3, <1>7 DEF Lawful, Around, Loops
<1>9. /\ stack' \in Seq(FrameRecord) /\ stack' # <<>> /\ Len(stack') = Len(stack)
      /\ stack'[Len(stack')] = f /\ Stacked(stack')
      /\ AwaitedBelow(stack') = AwaitedBelow(stack)
      /\ DeclaredBelow(stack') = DeclaredBelow(stack)
  BY <1>1, <1>4, <1>7, <1>8, ReplaceStated
<1>10. Awaited(stack') = AwaitedBelow(stack) /\ Declared(stack') = DeclaredBelow(stack)
  <2>1. f.pc # "operand" /\ f.pc \notin DeclPCs
    BY <1>7 DEF DeclPCs
  <2>2. /\ Awaited(stack') = AwaitedBelow(stack') \cup IF f.pc = "operand" THEN {f.res} ELSE {}
        /\ Declared(stack') = DeclaredBelow(stack') \cup IF f.pc \in DeclPCs THEN {f.res} ELSE {}
    BY <1>9, TopLayer, TopDeclared
  <2> QED
    BY <1>9, <2>1, <2>2
<1>11. Below(stack') = Below(stack)
  <2>1. \A d \in 1..Len(stack) - 1 : stack'[d] = stack[d]
    BY <1>1, <1>4 DEF Replaced
  <2> QED
    BY <1>9, <2>1 DEF Below
<1>12. \A j \in 1..Len(calls') : calls'[j].fn = "process_operation" /\ calls'[j].node = Top.res
  <2>1. <<Top.res>> \in Seq(Nat) /\ DOMAIN <<Top.res>> = 1..1 /\ <<Top.res>>[1] = Top.res
    BY <1>1
  <2>2. calls' \in Seq(CallRecord)
    BY <1>4, <2>1, CallsTyped
  <2>3. DOMAIN calls' = 1..Len(calls')
    BY <2>2, LenProperties
  <2>4. calls' = [j \in 1..1 |-> [fn |-> "process_operation", node |-> <<Top.res>>[j]]]
    BY <1>4, <2>1 DEF Calls
  <2>5. 1..Len(calls') = 1..1
    BY <2>3, <2>4
  <2>6. \A j \in 1..1 : j = 1
    OBVIOUS
  <2> QED
    BY <2>1, <2>4, <2>5, <2>6
<1>13. Regrouping(stack', calls', nodes')
  BY <1>5, <1>6, <1>7, <1>9, <1>11, <1>12 DEF Regrouping
<1>14. ret'.expr = NULL /\ ~ret'.error
  BY <1>4 DEF Nothing
<1>15. Stated(R, nodes', stack', ret', calls', pos')
  BY <1>4, <1>6, <1>8, <1>9, <1>10, <1>13, <1>14 DEF Stated
<1> QED
  BY <1>4, <1>6, <1>15 DEF Steps

\* FuncStart.
LEMMA FuncStartStated == ASSUME NEW R, Standing(R), FuncStart PROVE Steps(R)
<1>0. At("start") /\ Token = "fn"
  BY DEF FuncStart
<1>1. /\ pos \in 1..Len(tokens) /\ Labels(R) /\ tokens \in Seq(TokenKinds)
      /\ nextId \in Nat \ {NULL} /\ Top.pc = "start"
      /\ Filled(nodes, AwaitedBelow(stack), DeclaredBelow(stack))
  BY <1>0, AtStated, Points, StartRole
<1>2. /\ R[pos] = "fn" /\ Top.kw /\ Top.hi = Len(tokens)
      /\ pos < Len(tokens) /\ R[pos + 1] = "fname"
  BY <1>0, <1>1, StartRole, RoleFacts
<1>3. /\ New(nodes, Node("func", pos, {})) /\ Goes("funcName", nextId, pos + 1)
  BY <1>1, <1>2 DEF FuncStart, LastToken, Goes
<1>4. Neat(nodes') /\ Filled(nodes', AwaitedBelow(stack), DeclaredBelow(stack))
  <2>1. New(nodes, Node("func", pos, {})) /\ "func" \notin {"oper", "decl"} /\ Wild \notin {}
    BY <1>3
  <2> QED
    BY <1>0, <1>1, <2>1, LeafStated
<1>5. Goal(R, "funcName", nextId, pos + 1)
  BY <1>2 DEF Goal, Lawful, Around, FuncPCs, Loops
<1>6. "funcName" \in PCs \ {"operand"} /\ "funcName" \notin DeclPCs
  BY DEF PCs, DeclPCs
<1>7. Filled(nodes', AwaitedBelow(stack),
             DeclaredBelow(stack) \cup IF "funcName" \in DeclPCs THEN {nextId} ELSE {})
  BY <1>4, <1>6
<1> QED
  BY <1>0, <1>1, <1>3, <1>4, <1>5, <1>6, <1>7, GoOnStated

\* What the actions of the head of a function start from.
LEMMA FuncStated ==
  ASSUME NEW R, Standing(R), NEW pc \in {"funcName", "funcArgs", "scope"}, At(pc)
  PROVE  /\ tokens \in Seq(TokenKinds) /\ Len(tokens) \in Nat /\ Labels(R) /\ Token = tokens[pos]
         /\ pos \in 1..Len(tokens) /\ Top.hi = Len(tokens) /\ Top.kw /\ Top.pc = pc
         /\ Top.res \in Nat \ {NULL} /\ Top.res \in DOMAIN nodes
         /\ nextId \in Nat \ {NULL} /\ nextId \notin DOMAIN nodes
         /\ Neat(nodes) /\ NodesTyped(nodes) /\ IInv /\ FlowInv /\ NodesInv
         /\ Around(R, Top, ret.expr, pos)
         /\ Filled(nodes, AwaitedBelow(stack), DeclaredBelow(stack))
<1>1. pc \in Reading /\ pc # "operand" /\ pc \notin DeclPCs /\ pc \notin Loops /\ pc # "start"
      /\ pc \notin {"start", "next", "operand", "settle"}
  BY DEF DeclPCs, Reading, Loops
<1>2. Lawful(Top) /\ Top.pc = pc /\ IInv /\ NodesInv
  BY AtStated
<1>3. Top.kw /\ Top.hi = Len(tokens)
  BY <1>1, <1>2 DEF Lawful
<1>4. Top.res \in Nat \ {NULL} /\ Top.res \in DOMAIN nodes
  BY <1>2, AtFunc
<1>5. Filled(nodes, AwaitedBelow(stack), DeclaredBelow(stack))
  <2>1. Filled(nodes, AwaitedBelow(stack) \cup IF pc = "operand" THEN {Top.res} ELSE {},
                      DeclaredBelow(stack) \cup IF pc \in DeclPCs THEN {Top.res} ELSE {})
    BY AtStated
  <2> QED
    BY <1>1, <2>1
<1>6. Token = tokens[pos]
  BY DEF Token
<1> QED
  BY <1>1, <1>3, <1>4, <1>5, <1>6, AtStated

\* A function goes on.
LEMMA FuncGoesOn ==
  ASSUME NEW R, Standing(R), NEW pc \in {"funcName", "funcArgs"}, At(pc),
         NEW pd \in {"funcArgs", "scope"}, NEW p, Goes(pd, Top.res, p),
         pd = "funcArgs" => R[p] \in {"argName", "close"},
         pd = "scope" => R[p] = "body",
         Neat(nodes'), Filled(nodes', AwaitedBelow(stack), DeclaredBelow(stack))
  PROVE  Steps(R)
<1>1. Top.hi = Len(tokens) /\ Top.kw /\ Top.res \in Nat
  BY FuncStated
<1>2. Goal(R, pd, Top.res, p)
  BY <1>1 DEF Goal, Lawful, Around, FuncPCs, Loops
<1>3. pd \in PCs \ {"operand"} /\ pd \notin DeclPCs
  BY DEF PCs, DeclPCs
<1>4. Filled(nodes', AwaitedBelow(stack),
             DeclaredBelow(stack) \cup IF pd \in DeclPCs THEN {Top.res} ELSE {})
  BY <1>3
<1> QED
  BY <1>1, <1>2, <1>3, <1>4, GoOnStated

\* FuncName.
LEMMA FuncNameStated == ASSUME NEW R, Standing(R), FuncName PROVE Steps(R)
<1>0. At("funcName") /\ "funcName" \in {"funcName", "funcArgs", "scope"}
  BY DEF FuncName
<1>1. /\ tokens \in Seq(TokenKinds) /\ Len(tokens) \in Nat /\ Labels(R) /\ Token = tokens[pos]
      /\ pos \in 1..Len(tokens) /\ Top.hi = Len(tokens) /\ Top.pc = "funcName"
      /\ R[pos] = "fname"
      /\ Filled(nodes, AwaitedBelow(stack), DeclaredBelow(stack))
  BY <1>0, FuncStated DEF Around
<1>2. tokens[pos] = "ident" /\ pos + 1 \in 1..Len(tokens) /\ R[pos + 1] = "open"
  BY <1>1, RoleFacts
<1>3. /\ tokens[pos + 1] = "lparen" /\ pos + 2 \in 1..Len(tokens)
      /\ R[pos + 2] \in {"argName", "close"}
  <2>1. pos + 1 < Len(tokens) /\ R[pos + 1 + 1] \in {"argName", "close"}
        /\ tokens[pos + 1] = "lparen"
    BY <1>1, <1>2, RoleFacts
  <2>2. pos + 1 + 1 = pos + 2
    BY <1>1
  <2> QED
    BY <1>1, <2>1, <2>2
<1>4. NextToken(pos + 2, Top.hi) = pos + 2
  <2>1. tokens[pos + 2] # "newline"
    BY <1>1, <1>3, RoleFacts
  <2> QED
    BY <1>1, <1>3, <2>1, NextHere
<1>5. PICK own : own = {ptr[pos]}
  OBVIOUS
<1>6. Wild \notin own
  <2>1. pos \in pos..Len(tokens)
    BY <1>1
  <2> QED
    BY <1>0, <1>2, <1>5, <2>1, NamedPtr
<1>7. nodes' = Give(Top.res, own)
  BY <1>1, <1>2, <1>5 DEF FuncName, Identifiers
<1>8. Goes("funcArgs", Top.res, pos + 2)
  BY <1>1, <1>2, <1>3, <1>4 DEF FuncName, Identifiers, Keywords, Follows, LastToken, Goes
<1>9. Neat(nodes') /\ Filled(nodes', AwaitedBelow(stack), DeclaredBelow(stack))
  BY <1>0, <1>1, <1>6, <1>7, GiveStated
<1> QED
  BY <1>0, <1>3, <1>8, <1>9, FuncGoesOn

\* FuncArg.
LEMMA FuncArgStated == ASSUME NEW R, Standing(R), FuncArg PROVE Steps(R)
<1>0. At("funcArgs") /\ "funcArgs" \in {"funcName", "funcArgs", "scope"} /\ Token # "rparen"
  BY DEF FuncArg
<1>1. /\ tokens \in Seq(TokenKinds) /\ Len(tokens) \in Nat /\ Labels(R) /\ Token = tokens[pos]
      /\ pos \in 1..Len(tokens) /\ Top.hi = Len(tokens) /\ Top.pc = "funcArgs"
      /\ R[pos] \in {"argName", "close"} /\ Top.res \in Nat \ {NULL}
      /\ nextId \in Nat \ {NULL} /\ nextId \notin DOMAIN nodes
      /\ Neat(nodes) /\ NodesTyped(nodes)
      /\ Filled(nodes, AwaitedBelow(stack), DeclaredBelow(stack))
  BY <1>0, FuncStated DEF Around
<1>2. R[pos] = "argName"
  BY <1>0, <1>1, RoleFacts
<1>3. tokens[pos] = "ident" /\ pos + 1 \in 1..Len(tokens) /\ R[pos + 1] = "argType"
  BY <1>1, <1>2, RoleFacts
<1>4. /\ tokens[pos + 1] = "ident" /\ pos + 2 \in 1..Len(tokens)
      /\ R[pos + 2] \in {"comma", "close"}
  <2>1. pos + 1 < Len(tokens) /\ R[pos + 1 + 1] \in {"comma", "close"}
        /\ tokens[pos + 1] = "ident"
    BY <1>1, <1>3, RoleFacts
  <2>2. pos + 1 + 1 = pos + 2
    BY <1>1
  <2> QED
    BY <1>1, <2>1, <2>2
<1>5. /\ R[pos + 2] = "comma" => /\ tokens[pos + 2] = "comma" /\ pos + 3 \in 1..Len(tokens)
                                 /\ tokens[pos + 3] = "ident" /\ R[pos + 3] = "argName"
      /\ R[pos + 2] = "close" => tokens[pos + 2] = "rparen"
  <2>1. /\ R[pos + 2] = "comma" => /\ tokens[pos + 2] = "comma" /\ pos + 2 < Len(tokens)
                                   /\ R[pos + 2 + 1] = "argName"
        /\ R[pos + 2] = "close" => tokens[pos + 2] = "rparen"
    BY <1>1, <1>4, RoleFacts
  <2>2. pos + 2 + 1 = pos + 3
    BY <1>1
  <2>3. R[pos + 2] = "comma" => pos + 3 \in 1..Len(tokens) /\ R[pos + 3] = "argName"
    BY <1>1, <2>1, <2>2
  <2>4. R[pos + 2] = "comma" => tokens[pos + 3] = "ident"
    BY <1>1, <2>3, RoleFacts
  <2> QED
    BY <2>1, <2>3, <2>4
<1>6. NextToken(pos + 2, Top.hi) = pos + 2
  <2>1. tokens[pos + 2] # "newline"
    BY <1>4, <1>5
  <2> QED
    BY <1>1, <1>4, <2>1, NextHere
<1>7. ~LastToken /\ Token \in Identifiers \ Keywords
  BY <1>1, <1>3 DEF LastToken, Identifiers, Keywords
<1>8. PICK own : own = {ptr[k] : k \in {pos, pos + 1}}
  OBVIOUS
<1>9. PICK ms : ms = [nodes EXCEPT ![Top.res].items = Append(@, nextId)]
  OBVIOUS
<1>10. Wild \notin own
  <2>1. pos \in pos..Len(tokens) /\ pos + 1 \in pos..Len(tokens)
    BY <1>1, <1>3
  <2>2. ptr[pos] # Wild /\ ptr[pos + 1] # Wild
    BY <1>0, <1>3, <1>4, <2>1, NamedPtr
  <2> QED
    BY <1>8, <2>2
<1>11. New(ms, Node("arg", pos, own))
  BY <1>7, <1>8, <1>9 DEF FuncArg
<1>12. Grown(ms) /\ DOMAIN ms = DOMAIN nodes /\ Keeps(nodes, ms)
  BY <1>1, <1>9, GrownUpdate, UpdateKeeps
<1>13. Neat(nodes') /\ Filled(nodes', AwaitedBelow(stack), DeclaredBelow(stack))
  <2>1. PICK rec : rec = Node("arg", pos, own)
    OBVIOUS
  <2>2. New(ms, rec) /\ rec.type = "arg" /\ Wild \notin rec.own
    BY <1>10, <1>11, <2>1, FreshNode, NodeOwn
  <2> QED
    BY <1>1, <1>12, <2>2, NewNeat, NewFilled
<1>14. Goes("funcArgs", Top.res, IF R[pos + 2] = "comma" THEN pos + 3 ELSE pos + 2)
  <2>1. LET q == NextToken(pos + 2, Top.hi)
        IN  IF q > Top.hi \/ (tokens[q] = "comma" /\ q = Top.hi)
              THEN Fail(Top.res)
            ELSE IF tokens[q] # "comma"
              THEN Continue(Top, q)
            ELSE IF tokens[q + 1] \in Identifiers
              THEN Continue(Top, q + 1)
              ELSE Fail(Top.res)
    BY <1>7 DEF FuncArg
  <2>2. pos + 2 + 1 = pos + 3 /\ pos + 2 <= Top.hi
    BY <1>1, <1>4
  <2>3. CASE R[pos + 2] = "comma"
    <3>1. pos + 2 # Top.hi
      BY <1>1, <1>5, <2>3
    <3>2. tokens[pos + 2] = "comma" /\ tokens[pos + 2 + 1] \in Identifiers
      BY <1>5, <2>2, <2>3 DEF Identifiers
    <3>3. ~(pos + 2 > Top.hi)
      BY <1>1, <1>4
    <3>4. Continue(Top, pos + 2 + 1)
      BY <1>6, <2>1, <3>1, <3>2, <3>3
    <3>5. Continue(Top, pos + 3)
      BY <2>2, <3>4
    <3> QED
      BY <1>1, <2>3, <3>5 DEF Goes
  <2>4. CASE R[pos + 2] = "close"
    <3>1. Continue(Top, pos + 2)
      BY <1>1, <1>5, <1>6, <2>1, <2>2, <2>4
    <3> QED
      BY <1>1, <2>4, <3>1 DEF Goes
  <2> QED
    BY <1>4, <2>3, <2>4
<1> QED
  BY <1>0, <1>4, <1>5, <1>13, <1>14, FuncGoesOn

\* FuncReturn.
LEMMA FuncReturnStated == ASSUME NEW R, Standing(R), FuncReturn PROVE Steps(R)
<1>0. At("funcArgs") /\ "funcArgs" \in {"funcName", "funcArgs", "scope"} /\ Token = "rparen"
  BY DEF FuncReturn
<1>1. /\ tokens \in Seq(TokenKinds) /\ Len(tokens) \in Nat /\ Labels(R) /\ Token = tokens[pos]
      /\ pos \in 1..Len(tokens) /\ Top.hi = Len(tokens) /\ Top.pc = "funcArgs" /\ Top.kw
      /\ R[pos] \in {"argName", "close"}
      /\ Filled(nodes, AwaitedBelow(stack), DeclaredBelow(stack))
  BY <1>0, FuncStated DEF Around
<1>2. R[pos] = "close"
  BY <1>0, <1>1, RoleFacts
<1>3. pos + 1 \in 1..Len(tokens) /\ R[pos + 1] = "returns"
  BY <1>1, <1>2, RoleFacts
<1>4. /\ tokens[pos + 1] = "ident" /\ pos + 2 \in 1..Len(tokens)
      /\ R[pos + 2] \in {"stop", "body"}
  <2>1. pos + 1 < Len(tokens) /\ R[pos + 1 + 1] \in {"stop", "body"}
        /\ tokens[pos + 1] = "ident"
    BY <1>1, <1>3, RoleFacts
  <2>2. pos + 1 + 1 = pos + 2
    BY <1>1
  <2> QED
    BY <1>1, <2>1, <2>2
<1>5. /\ R[pos + 2] = "stop" => tokens[pos + 2] = "semicolon"
      /\ R[pos + 2] = "body" => tokens[pos + 2] = "lbrace"
  BY <1>1, <1>4, RoleFacts
<1>6. Follows(Identifiers)
  BY <1>1, <1>3, <1>4 DEF Follows, LastToken, Identifiers
<1>7. PICK own : own = {ptr[pos + 1]}
  OBVIOUS
<1>8. Wild \notin own
  <2>1. pos + 1 \in pos..Len(tokens)
    BY <1>1, <1>3
  <2> QED
    BY <1>0, <1>4, <1>7, <2>1, NamedPtr
<1>9. nodes' = Give(Top.res, own)
  BY <1>6, <1>7 DEF FuncReturn
<1>10. IF tokens[pos + 2] = "semicolon" THEN Return(Top.res, pos + 2)
       ELSE IF tokens[pos + 2] = "lbrace" THEN Continue([Top EXCEPT !.pc = "scope"], pos + 2)
       ELSE Fail(Top.res)
  <2>1. tokens[pos + 1] \notin Keywords /\ pos + 1 # Top.hi
    BY <1>1, <1>4 DEF Keywords
  <2> QED
    BY <1>6, <2>1 DEF FuncReturn
<1>11. Neat(nodes') /\ Filled(nodes', AwaitedBelow(stack), DeclaredBelow(stack))
  BY <1>0, <1>1, <1>8, <1>9, GiveStated
<1>12. CASE R[pos + 2] = "stop"
  <2>1. Return(Top.res, pos + 2)
    BY <1>5, <1>10, <1>12
  <2>2. Returns(R, Top, Top.res, pos + 2)
    BY <1>1, <1>12 DEF Returns, ItemNext, Outside, Loops
  <2> QED
    BY <1>0, <1>11, <2>1, <2>2, ReturnStated
<1>13. CASE R[pos + 2] = "body"
  <2>1. Goes("scope", Top.res, pos + 2)
    BY <1>5, <1>10, <1>13 DEF Goes
  <2> QED
    BY <1>0, <1>11, <1>13, <2>1, FuncGoesOn
<1> QED
  BY <1>4, <1>12, <1>13

\* The scope that is opened at p - 1 closes at the token that is labelled so.
LEMMA ScopeCloses ==
  ASSUME NEW R, Labels(R), tokens \in Seq(TokenKinds), NEW p \in 1..Len(tokens),
         R[p] \in {"inner", "line", "end"}
  PROVE  \E k \in p..Len(tokens) :
           /\ Closes(p, k) /\ R[k] = "end"
           /\ \A j \in p..k - 1 : R[j] \in {"inner", "line"} /\ ~Closes(p, j)
<1> DEFINE S == {k \in p..Len(tokens) : R[k] \notin {"inner", "line"}}
<1>1. Len(tokens) \in Nat /\ p \in Nat /\ Len(tokens) \in 1..Len(tokens)
  BY LenProperties
<1>2. S \in SUBSET Nat /\ S # {}
  <2>1. R[Len(tokens)] \notin {"inner", "line"}
    BY DEF Labels, Final
  <2> QED
    BY <1>1, <2>1
<1>3. PICK k \in S : \A y \in S : k <= y
  <2> HIDE DEF S
  <2> QED
    BY <1>2, LeastNat
<1>4. /\ k \in p..Len(tokens) /\ R[k] \notin {"inner", "line"}
      /\ \A j \in p..k - 1 : j \in 1..Len(tokens) /\ R[j] \in {"inner", "line"}
  BY <1>1, <1>3
<1>5. R[k] = "end"
  <2>1. CASE k = p
    BY <1>4, <2>1
  <2>2. CASE k # p
    <3>1. k - 1 \in p..k - 1 /\ k - 1 \in 1..Len(tokens) /\ k - 1 + 1 = k
      BY <1>1, <1>4, <2>2
    <3>2. R[k - 1] \in {"inner", "line"}
      BY <1>4, <3>1
    <3>3. R[k - 1 + 1] \in {"inner", "line", "end"}
      BY <3>1, <3>2, RoleFacts
    <3> QED
      BY <1>4, <3>1, <3>3
  <2> QED
    BY <2>1, <2>2
<1>6. tokens[k] = "rbrace"
  <2>1. k \in 1..Len(tokens)
    BY <1>1, <1>4
  <2> QED
    BY <1>5, <2>1, RoleFacts
<1>7. \A j \in p..k - 1 : tokens[j] \notin {"lbrace", "rbrace"}
  <2> SUFFICES ASSUME NEW j \in p..k - 1 PROVE tokens[j] \notin {"lbrace", "rbrace"}
    OBVIOUS
  <2>1. j \in 1..Len(tokens) /\ R[j] \in {"inner", "line"}
    BY <1>4
  <2>2. tokens[j] \in {"ident", "newline", "semicolon"}
    BY <2>1, RoleFacts
  <2> QED
    BY <2>2
<1>8. Closes(p, k)
  <2>1. \A j \in p..k : j = k \/ j \in p..k - 1
    BY <1>1, <1>4
  <2>2. {j \in p..k : tokens[j] = "rbrace"} = {k}
    BY <1>1, <1>4, <1>6, <1>7, <2>1
  <2>3. {j \in p..k : tokens[j] = "lbrace"} = {}
    BY <1>1, <1>4, <1>6, <1>7, <2>1
  <2>4. Cardinality({j \in p..k : tokens[j] = "rbrace"}) = 1
    BY <2>2, FS_Singleton
  <2>5. Cardinality({j \in p..k : tokens[j] = "lbrace"}) = 0
    BY <2>3, FS_EmptySet
  <2>6. 1 = 0 + 1
    OBVIOUS
  <2> QED
    BY <1>6, <2>4, <2>5, <2>6 DEF Closes
<1>9. \A j \in p..k - 1 : ~Closes(p, j)
  BY <1>7 DEF Closes
<1> QED
  BY <1>4, <1>5, <1>8, <1>9

\* ScopeOpen.
LEMMA ScopeOpenStated == ASSUME NEW R, Standing(R), ScopeOpen PROVE Steps(R)
<1>0. At("scope")
  <2> SUFFICES ASSUME At("start"), Token = "lbrace" PROVE FALSE
    BY DEF ScopeOpen
  <2>1. /\ pos \in 1..Len(tokens) /\ Labels(R) /\ tokens \in Seq(TokenKinds)
        /\ Top.kw \in BOOLEAN /\ Token = tokens[pos]
    BY AtStated, Points, StartRole
  <2>2. R[pos] \in {"value", "def", "fn", "sep", "stop", "inner", "line"}
    BY <2>1, StartRole
  <2> QED
    BY <2>1, <2>2, RoleFacts
<1>1. /\ tokens \in Seq(TokenKinds) /\ Len(tokens) \in Nat /\ Labels(R)
      /\ pos \in 1..Len(tokens) /\ Top.hi = Len(tokens) /\ Top.kw /\ Top.pc = "scope"
      /\ Top.res \in Nat \ {NULL} /\ nextId \in Nat \ {NULL} /\ R[pos] = "body"
      /\ Filled(nodes, AwaitedBelow(stack), DeclaredBelow(stack))
  BY <1>0, FuncStated DEF Around
<1>2. /\ stack \in Seq(FrameRecord) /\ stack # <<>> /\ Stacked(stack) /\ Len(stack) \in Nat \ {0}
      /\ calls = <<>> /\ fault = "none" /\ Top = stack[Len(stack)] /\ Top \in FrameRecord
  BY <1>0, AtStated
<1>3. pos + 1 \in 1..Len(tokens) /\ R[pos + 1] \in {"inner", "line", "end"}
  BY <1>1, RoleFacts
<1>4. PICK k \in pos + 1..Len(tokens) :
        /\ Closes(pos + 1, k) /\ R[k] = "end"
        /\ \A j \in pos + 1..k - 1 : R[j] \in {"inner", "line"} /\ ~Closes(pos + 1, j)
  BY <1>1, <1>3, ScopeCloses
<1>5. /\ New(nodes, Node("body", pos, {}))
      /\ stack' = Append([stack EXCEPT ![Len(stack)].pc = "scopeEnd", ![Len(stack)].close = k],
                         Frame("loop", FALSE, nextId, k - 1))
      /\ pos' = pos + 1 /\ ret' = Nothing /\ calls' = <<>> /\ fault' = "none"
  <2>1. PICK q \in pos + 1..Top.hi :
          /\ Closes(pos + 1, q)
          /\ \A j \in pos + 1..q - 1 : ~Closes(pos + 1, j)
          /\ New(nodes, Node("body", pos, {}))
          /\ stack' = Append([stack EXCEPT ![Len(stack)].pc = "scopeEnd",
                                           ![Len(stack)].close = q],
                             Frame("loop", FALSE, nextId, q - 1))
          /\ pos' = pos + 1 /\ ret' = Nothing /\ UNCHANGED <<calls, fault>>
    BY <1>1, <1>4 DEF ScopeOpen
  <2>2. ~(q < k) /\ ~(k < q)
    BY <1>1, <1>4, <2>1
  <2>3. q = k
    BY <1>1, <2>1, <2>2
  <2> QED
    BY <1>2, <2>1, <2>3
<1> DEFINE f == [Top EXCEPT !.pc = "scopeEnd", !.close = k]
           g == Frame("loop", FALSE, nextId, k - 1)
           r == Replaced(stack, f)
<1>6. k \in Nat /\ k - 1 \in Nat /\ k - 1 # Len(tokens)
  BY <1>1, <1>4
<1>7. /\ f \in FrameRecord /\ f.res = Top.res /\ f.pc = "scopeEnd" /\ f.hi = Top.hi /\ f.kw = Top.kw
      /\ g \in FrameRecord /\ g.pc = "loop" /\ g.hi = k - 1
  BY <1>1, <1>2, <1>6 DEF FrameRecord, Frame, PCs
<1>8. stack' = Extended(r, g)
  BY <1>2, <1>5 DEF Extended, Replaced
<1> HIDE DEF f, g
<1>9. Lawful(f) /\ Lawful(g) /\ Matches(f, g)
  BY <1>1, <1>7 DEF Lawful, Matches, Loops, FuncPCs
<1>10. /\ r \in Seq(FrameRecord) /\ r # <<>> /\ r[Len(r)] = f /\ Stacked(r)
       /\ AwaitedBelow(r) = AwaitedBelow(stack) /\ DeclaredBelow(r) = DeclaredBelow(stack)
  BY <1>2, <1>7, <1>9, ReplaceStated
<1> HIDE DEF r
<1>11. /\ stack' \in Seq(FrameRecord) /\ stack' # <<>> /\ stack'[Len(stack')] = g
       /\ Stacked(stack')
       /\ AwaitedBelow(stack') = Awaited(r) /\ DeclaredBelow(stack') = Declared(r)
  <2>1. Matches(r[Len(r)], g)
    BY <1>9, <1>10
  <2> QED
    BY <1>7, <1>8, <1>9, <1>10, <2>1, AppendStated
<1>12. Awaited(stack') = AwaitedBelow(stack) /\ Declared(stack') = DeclaredBelow(stack)
  <2>1. /\ Awaited(r) = AwaitedBelow(r) \cup IF f.pc = "operand" THEN {f.res} ELSE {}
        /\ Declared(r) = DeclaredBelow(r) \cup IF f.pc \in DeclPCs THEN {f.res} ELSE {}
    BY <1>10, TopLayer, TopDeclared
  <2>2. /\ Awaited(stack') = AwaitedBelow(stack') \cup IF g.pc = "operand" THEN {g.res} ELSE {}
        /\ Declared(stack') = DeclaredBelow(stack') \cup IF g.pc \in DeclPCs THEN {g.res} ELSE {}
    BY <1>11, TopLayer, TopDeclared
  <2>3. /\ f.pc # "operand" /\ f.pc \notin DeclPCs /\ g.pc # "operand" /\ g.pc \notin DeclPCs
    BY <1>7 DEF DeclPCs
  <2> QED
    BY <1>10, <1>11, <2>1, <2>2, <2>3
<1>13. Neat(nodes') /\ Filled(nodes', AwaitedBelow(stack), DeclaredBelow(stack))
  <2>1. New(nodes, Node("body", pos, {})) /\ "body" \notin {"oper", "decl"} /\ Wild \notin {}
    BY <1>5
  <2> QED
    BY <1>0, <1>1, <2>1, LeafStated
<1>14. Around(R, g, NULL, pos + 1)
  <2>1. Inside(R, k - 1, pos + 1)
    BY <1>4 DEF Inside
  <2> QED
    BY <1>6, <1>7, <2>1 DEF Around, ItemNext, Loops
<1>15. ret'.expr = NULL /\ ~ret'.error
  BY <1>5 DEF Nothing
<1>16. Stated(R, nodes', stack', ret', calls', pos')
  BY <1>5, <1>11, <1>12, <1>13, <1>14, <1>15 DEF Stated, Regrouping
<1> QED
  BY <1>5, <1>13, <1>16 DEF Steps

\* ScopeEnd.
LEMMA ScopeEndStated == ASSUME NEW R, Standing(R), ScopeEnd PROVE Steps(R)
<1>0. At("scopeEnd")
  BY DEF ScopeEnd
<1>1. /\ tokens \in Seq(TokenKinds) /\ Len(tokens) \in Nat /\ Labels(R) /\ Top.pc = "scopeEnd"
      /\ stack # <<>> /\ Len(stack) \in Nat \ {0} /\ Top = stack[Len(stack)] /\ Lawful(Top)
      /\ nextId \in Nat \ {NULL} /\ nextId \notin DOMAIN nodes /\ Neat(nodes) /\ NodesTyped(nodes)
      /\ ret.expr # NULL /\ FlowInv /\ IInv
  BY <1>0, AtStated
<1>2. Filled(nodes, AwaitedBelow(stack), DeclaredBelow(stack))
  <2>1. "scopeEnd" \notin DeclPCs
    BY DEF DeclPCs
  <2>2. Filled(nodes,
               AwaitedBelow(stack) \cup IF "scopeEnd" = "operand" THEN {Top.res} ELSE {},
               DeclaredBelow(stack) \cup IF "scopeEnd" \in DeclPCs THEN {Top.res} ELSE {})
    BY <1>0, AtStated
  <2> QED
    BY <2>1, <2>2
<1>3. Top.res # NULL /\ Top.kw /\ Top.hi = Len(tokens)
  BY <1>1 DEF Lawful, Loops, DeclPCs
<1>4. tokens[Top.close] = "rbrace" /\ Top.close \in 1..Len(tokens)
  <2>1. Top.close \in 1..Top.hi
    BY <1>1, TopFacts DEF IInv
  <2>2. tokens[Top.close] = "rbrace"
    BY <1>1 DEF FlowInv, Shape
  <2> QED
    BY <1>3, <2>1, <2>2
<1>5. Outside(R, Top.close + 1)
  <2>1. R[Top.close] = "end"
    BY <1>1, <1>4, RoleFacts
  <2>2. Top.close < Len(tokens) => R[Top.close + 1] \in {"def", "fn", "sep"}
    BY <1>1, <1>4, <2>1, RoleFacts
  <2> QED
    BY <1>1, <1>4, <2>2 DEF Outside
<1> DEFINE x == [Node("scope", Top.close, {}) EXCEPT !.left = ret.expr]
           ms == [nodes EXCEPT ![Top.res].left = nextId]
<1>6. New(ms, x) /\ Return(Top.res, Top.close + 1)
  BY <1>1, <1>3 DEF ScopeEnd
<1>7. x.type = "scope" /\ Wild \notin x.own
  BY DEF Node
<1>8. Grown(ms) /\ DOMAIN ms = DOMAIN nodes /\ Keeps(nodes, ms)
  BY <1>1, GrownUpdate, UpdateKeeps
<1> HIDE DEF x, ms
<1>9. Neat(nodes') /\ Filled(nodes', AwaitedBelow(stack), DeclaredBelow(stack))
  BY <1>1, <1>2, <1>6, <1>7, <1>8, NewNeat, NewFilled
<1>10. Returns(R, Top, Top.res, Top.close + 1)
  BY <1>1, <1>3, <1>5 DEF Returns, ItemNext, Loops
<1> QED
  BY <1>0, <1>6, <1>9, <1>10, ReturnStated

\* What the loop of ast_from_lexer starts from.
LEMMA LoopStated ==
  ASSUME NEW R, Standing(R), NEW pc \in Loops, At(pc)
  PROVE  /\ Top.pc = pc /\ Top.res \in Nat \ {NULL} /\ Top.hi \in Nat /\ pos \in Nat
         /\ ~ret.error /\ ItemNext(R, Top.hi, pos) /\ Neat(nodes) /\ NodesTyped(nodes)
         /\ Filled(nodes, AwaitedBelow(stack), DeclaredBelow(stack))
<1>1. pc # "operand" /\ pc \notin DeclPCs
  BY DEF DeclPCs, Loops
<1>2. Filled(nodes, AwaitedBelow(stack) \cup IF pc = "operand" THEN {Top.res} ELSE {},
                    DeclaredBelow(stack) \cup IF pc \in DeclPCs THEN {Top.res} ELSE {})
  BY AtStated
<1>3. /\ Top.pc = pc /\ Top.res \in Nat /\ Top.hi \in Nat /\ pos \in Nat \ {0} /\ IInv /\ NodesInv
      /\ ~ret.error /\ Around(R, Top, ret.expr, pos) /\ Neat(nodes) /\ NodesTyped(nodes)
  BY AtStated
<1>4. ItemNext(R, Top.hi, pos)
  BY <1>3 DEF Around
<1>5. Top.res # NULL
  <2>1. FrameOK(Top, nodes)
    BY <1>3, AtNodes
  <2> QED
    BY <1>3, <2>1 DEF FrameOK, Loops
<1> QED
  BY <1>1, <1>2, <1>3, <1>4, <1>5

\* BodyNext.
LEMMA BodyNextStated == ASSUME NEW R, Standing(R), BodyNext PROVE Steps(R)
<1>0. At("loop") /\ "loop" \in Loops
  BY DEF BodyNext, Loops
<1>1. /\ Top.pc = "loop" /\ Top.res \in Nat \ {NULL} /\ ItemNext(R, Top.hi, pos) /\ Neat(nodes)
      /\ Filled(nodes, AwaitedBelow(stack), DeclaredBelow(stack))
  BY <1>0, LoopStated
<1>2. UNCHANGED nodes
  BY DEF BodyNext, heap
<1>3. CASE pos > Top.hi
  <2>1. Return(Top.res, pos)
    BY <1>3 DEF BodyNext
  <2>2. Returns(R, Top, Top.res, pos)
    BY <1>0, <1>1 DEF Returns
  <2> QED
    BY <1>0, <1>1, <1>2, <2>1, <2>2, ReturnStated
<1>4. CASE ~(pos > Top.hi)
  <2>1. Call([Top EXCEPT !.pc = "item"], pos)
    BY <1>4 DEF BodyNext
  <2>2. Filled(nodes', AwaitedBelow(stack) \cup {}, DeclaredBelow(stack) \cup {})
    BY <1>1, <1>2
  <2> QED
    BY <1>0, <1>1, <1>2, <2>1, <2>2, CallStated
<1> QED
  BY <1>3, <1>4

\* BodyItem.
LEMMA BodyItemStated == ASSUME NEW R, Standing(R), BodyItem PROVE Steps(R)
<1>0. At("item") /\ "item" \in Loops
  BY DEF BodyItem, Loops
<1>1. /\ Top.pc = "item" /\ Top.res \in Nat /\ ItemNext(R, Top.hi, pos) /\ Neat(nodes)
      /\ ~ret.error /\ NodesTyped(nodes)
      /\ Filled(nodes, AwaitedBelow(stack), DeclaredBelow(stack))
  BY <1>0, LoopStated
<1>2. /\ nodes' = IF ret.expr = NULL THEN nodes
                  ELSE [nodes EXCEPT ![Top.res].items = Append(@, ret.expr)]
      /\ Continue([Top EXCEPT !.pc = "loop"], pos)
  BY <1>1 DEF BodyItem
<1>3. Neat(nodes') /\ Filled(nodes', AwaitedBelow(stack), DeclaredBelow(stack))
  <2>1. CASE ret.expr = NULL
    BY <1>1, <1>2, <2>1
  <2>2. CASE ret.expr # NULL
    <3>1. PICK ms : ms = [nodes EXCEPT ![Top.res].items = Append(@, ret.expr)]
      OBVIOUS
    <3>2. nodes' = ms
      BY <1>2, <2>2, <3>1
    <3>3. Grown(ms) /\ DOMAIN ms = DOMAIN nodes /\ Keeps(nodes, ms)
      BY <1>1, <2>2, <3>1, GrownUpdate, UpdateKeeps
    <3> QED
      BY <1>1, <3>2, <3>3, KeepsNeat, StillFilled
  <2> QED
    BY <2>1, <2>2
<1>4. Goes("loop", Top.res, pos)
  BY <1>2 DEF Goes
<1>5. Goal(R, "loop", Top.res, pos)
  BY <1>1 DEF Goal, Lawful, Around, Loops
<1>6. "loop" \in PCs \ {"operand"} /\ "loop" \notin DeclPCs
  BY DEF PCs, DeclPCs
<1>7. Filled(nodes', AwaitedBelow(stack),
             DeclaredBelow(stack) \cup IF "loop" \in DeclPCs THEN {Top.res} ELSE {})
  BY <1>3, <1>6
<1> QED
  BY <1>0, <1>1, <1>3, <1>4, <1>5, <1>6, <1>7, GoOnStated

\* process_operation.
LEMMA ProcessOperationStated ==
  ASSUME NEW R, Standing(R), process_operation PROVE Steps(R)
<1>1. /\ IInv /\ NodesInv /\ fault = "none" /\ Neat(nodes)
      /\ Stated(R, nodes, stack, ret, calls, pos)
  BY DEF Standing
<1>2. /\ Regrouping(stack, calls, nodes) /\ Filled(nodes, Awaited(stack), Declared(stack))
      /\ Complete(nodes, Awaited(stack))
  BY <1>1 DEF Stated, Filled
<1>3. Regrouped
  BY <1>1, <1>2, ProcessOperationNodes, RegroupingStep
<1>4. /\ stack' = stack /\ ret' = ret /\ fault' = fault /\ pos' = pos
      /\ Regrouping(stack', calls', nodes')
      /\ DOMAIN nodes' = DOMAIN nodes /\ Grown(nodes') /\ Keeps(nodes, nodes')
  BY <1>3 DEF Regrouped
<1>5. Neat(nodes') /\ Filled(nodes', Awaited(stack), Declared(stack))
  BY <1>1, <1>2, <1>4, KeepsNeat, StillFilled
<1>6. Stated(R, nodes', stack', ret', calls', pos')
  BY <1>1, <1>4, <1>5 DEF Stated
<1> QED
  BY <1>1, <1>4, <1>5, <1>6 DEF Steps

\* What such a list never comes to.
LEMMA NeverStated ==
  ASSUME NEW R, Standing(R)
  PROVE  ~RejectToken /\ ~ParenOpen /\ ~ParenClose
<1>1. ASSUME At("start"), Token \in Operators \cup {"keyword", "rparen", "lparen"} PROVE FALSE
  <2>1. /\ pos \in 1..Len(tokens) /\ Labels(R) /\ tokens \in Seq(TokenKinds)
        /\ Top.kw \in BOOLEAN /\ Token = tokens[pos]
    BY <1>1, AtStated, Points, StartRole
  <2>2. R[pos] \in {"value", "def", "fn", "sep", "stop", "inner", "line"}
    BY <1>1, <2>1, StartRole
  <2>3. tokens[pos] \in {"num", "ident", "string", "def", "fn", "newline", "semicolon"}
    BY <2>1, <2>2, RoleFacts
  <2> QED
    BY <1>1, <2>1, <2>3 DEF Operators
<1>2. ASSUME At("paren") PROVE FALSE
  <2>1. Top.pc = "paren" /\ Lawful(Top)
    BY <1>2, AtStated
  <2> QED
    BY <2>1 DEF Lawful, Loops, DeclPCs, FuncPCs
<1> QED
  BY <1>1, <1>2 DEF RejectToken, ParenOpen, ParenClose

-----------------------------------------------------------------------------
(* The invariant, until the program ends.                                  *)

\* No name and no string of a token is read as a number.
Tame == \A k \in 1..Len(tokens) : tokens[k] \in Identifiers \cup {"string"} => ptr[k] # Wild

\* Behind the parser the only calls are destructors.
Destroys(cl) == \A j \in 1..Len(cl) : cl[j].fn = "destroy"

Understood(R) ==
  /\ NodesInv /\ Neat(nodes) /\ Tame /\ fault = "none"
  /\ phase = "parse" => Stated(R, nodes, stack, ret, calls, pos)
  /\ phase # "parse" => Destroys(calls)

StatementInv == \A R : Labels(R) => Understood(R)

\* The parser begins between two statements.
LEMMA InitStatement == Init => StatementInv
<1> SUFFICES ASSUME Init, NEW R, Labels(R) PROVE Understood(R)
  BY DEF StatementInv
<1> DEFINE f == Frame("loop", FALSE, 1, Len(tokens))
<1>1. /\ DOMAIN nodes = {1} /\ nodes[1] = Node("body", 0, {}) /\ stack = <<f>>
      /\ tokens \in Seq(TokenKinds) /\ pos = 1 /\ ret = Nothing /\ calls = <<>>
      /\ fault = "none" /\ phase = "parse"
      /\ ptr = [k \in 1..Len(tokens) |-> PtrOf(k, tokens[k])]
  BY InputsAssumption DEF Init
<1>2. nodes[1].type = "body" /\ nodes[1].own = {}
  BY <1>1, FreshNode, NodeOwn
<1>3. f.pc = "loop" /\ f.hi = Len(tokens)
  BY DEF Frame
<1> HIDE DEF f
<1>4. Len(stack) = 1 /\ stack[1] = f /\ stack # <<>> /\ \A d \in 1..Len(stack) : d = 1
  BY <1>1
<1>5. Awaited(stack) = {} /\ Declared(stack) = {}
  BY <1>3, <1>4 DEF Awaited, Declared, DeclPCs
<1>6. Neat(nodes) /\ Filled(nodes, {}, {})
  BY <1>1, <1>2 DEF Neat, Filled, Complete, Valued
<1>7. Stacked(stack)
  <2>1. Lawful(f)
    BY <1>3 DEF Lawful, Loops
  <2>2. \A d \in 1..Len(stack) - 1 : FALSE
    BY <1>4
  <2> QED
    BY <1>4, <2>1, <2>2 DEF Stacked
<1>8. Around(R, f, ret.expr, 1)
  <2>1. Len(tokens) \in Nat
    BY <1>1, LenProperties
  <2>2. 1 <= Len(tokens) => R[1] \in {"def", "fn", "sep"}
    <3>1. R[0] = "start" /\ \A k \in 1..Len(tokens) : Leads(R[k - 1], R[k])
      BY DEF Labels
    <3>2. 1 <= Len(tokens) => Leads(R[0], R[1])
      <4>1. 1 - 1 = 0 /\ (1 <= Len(tokens) => 1 \in 1..Len(tokens))
        BY <2>1
      <4> QED
        BY <3>1, <4>1
    <3> QED
      BY <3>1, <3>2 DEF Leads
  <2>3. Outside(R, 1)
    BY <2>2 DEF Outside
  <2> QED
    BY <1>3, <2>3 DEF Around, ItemNext, Loops
<1>9. ~ret.error
  BY <1>1 DEF Nothing
<1>10. Stated(R, nodes, stack, ret, calls, pos)
  BY <1>1, <1>4, <1>5, <1>6, <1>7, <1>8, <1>9 DEF Stated, Regrouping
<1>11. Tame
  <2>1. \A k \in 1..Len(tokens) : k # Wild
    BY DEF Wild
  <2> QED
    BY <1>1, <2>1 DEF Tame, PtrOf
<1> QED
  BY <1>1, <1>6, <1>10, <1>11, InitNodes DEF Understood

\* The actions of the parser.
Parsing == ParsesExpressions \/ ParsesOther

LEMMA ParsingStated == ASSUME NEW R, Standing(R), Parsing PROVE Steps(R)
<1>1. CASE ParsesExpressions
  BY <1>1, SkipTokenStated, LiteralStated, NextLabelStated, OperandStated, SettleStated,
     BodyNextStated, BodyItemStated, ProcessOperationStated, NeverStated DEF ParsesExpressions
<1>2. CASE ParsesOther
  BY <1>2, DeclStartStated, DeclNameStated, DeclMarkStated, DeclTypeStated, DeclAssignStated,
     DeclValueStated, VariableStated, FuncStartStated, FuncNameStated, FuncArgStated,
     FuncReturnStated, ScopeOpenStated, ScopeEndStated DEF ParsesOther
<1> QED
  BY <1>1, <1>2 DEF Parsing

\* Every scope is that of a function, so that no node gets a second owner.
LEMMA StatementNodes ==
  ASSUME NEW R, IInv, FlowInv, Labels(R), Understood(R), [Next]_vars
  PROVE  NodesInv'
<1>0. NodesInv
  BY DEF Understood
<1>1. CASE UNCHANGED vars
  BY <1>0, <1>1, SameNodes DEF vars, heap
<1>2. CASE LexerFree
  BY <1>0, <1>2, SameNodes DEF LexerFree
<1>3. CASE ScopeEnd
  <2>1. At("scopeEnd") /\ phase = "parse"
    BY <1>3 DEF ScopeEnd, At
  <2>2. Standing(R)
    BY <2>1 DEF Standing, Understood
  <2>3. Lawful(Top) /\ Top.pc = "scopeEnd"
    BY <2>1, <2>2, AtStated
  <2>4. Top.res # NULL
    BY <2>3 DEF Lawful
  <2> QED
    BY <1>0, <1>3, <2>4, ScopeEndNodes
<1>4. CASE Next /\ ~LexerFree /\ ~ScopeEnd
  BY <1>0, <1>1, <1>4, DeclStartNodes, DeclNameNodes, DeclMarkNodes, DeclTypeNodes,
     DeclAssignNodes, DeclValueNodes, SkipTokenNodes, RejectTokenNodes, VariableNodes,
     LiteralNodes, ParenOpenNodes, ParenCloseNodes, NextLabelNodes, OperandNodes,
     SettleNodes, FuncStartNodes, FuncNameNodes, FuncArgNodes, FuncReturnNodes,
     ScopeOpenNodes, BodyNextNodes, BodyItemNodes,
     ProcessOperationNodes, DestroyNodeNodes, PrintAstNodes
  DEF Next, Stop
<1> QED
  BY <1>1, <1>2, <1>3, <1>4

\* A pointer changes only to NULL.
LEMMA StaysTame ==
  ASSUME IInv, NodesInv, Tame, [Next]_vars
  PROVE  Tame'
<1>1. UNCHANGED tokens /\ (Carries \/ (\E n : FreesNode(n)) \/ FreesTokens)
  BY StringSteps
<1>2. DOMAIN ptr = 1..Len(tokens)
  BY DEF IInv, PtrInv
<1>3. NULL # Wild
  BY DEF NULL, Wild
<1>4. \A k \in 1..Len(tokens) : ptr'[k] = ptr[k] \/ ptr'[k] = NULL
  <2>1. CASE Carries
    <3>1. CASE Leaves
      BY <3>1 DEF Leaves
    <3>2. ASSUME NEW S, NEW x, Passes(S, x)
          PROVE  \A k \in 1..Len(tokens) : ptr'[k] = ptr[k] \/ ptr'[k] = NULL
      BY <1>2, <3>2 DEF Passes, Steal
    <3> QED
      BY <2>1, <3>1, <3>2 DEF Carries
  <2>2. CASE \E n : FreesNode(n)
    BY <2>2 DEF FreesNode
  <2>3. CASE FreesTokens
    BY <1>2, <2>3 DEF FreesTokens
  <2> QED
    BY <1>1, <2>1, <2>2, <2>3
<1> QED
  BY <1>1, <1>3, <1>4 DEF Tame

\* main prints the tree.
LEMMA PrintStatement ==
  ASSUME NEW R, IInv, Labels(R), Understood(R), PrintAst
  PROVE  fault' = "none" /\ phase' = "free" /\ Destroys(calls') /\ UNCHANGED nodes
<1>1. /\ stack = <<>> /\ phase = "parse" /\ fault = "none" /\ UNCHANGED nodes
      /\ Neat(nodes) /\ Stated(R, nodes, stack, ret, calls, pos)
  BY DEF PrintAst, Understood, heap
<1>2. ret.expr # NULL /\ Valued(nodes, Declared(stack))
  BY <1>1 DEF Stated, Filled
<1>3. Declared(stack) = {}
  BY <1>1 DEF Declared
<1>4. Unprintable = {}
  BY <1>1, <1>2, <1>3 DEF Unprintable, Valued, Neat
<1>5. /\ calls' = Calls("destroy", <<ret.expr>>) /\ phase' = "free" /\ fault' = "none"
  BY <1>1, <1>4 DEF PrintAst
<1>6. Destroys(calls')
  <2>1. ret.expr \in Nat
    BY DEF IInv, StackInv
  <2>2. <<ret.expr>> \in Seq(Nat)
    BY <2>1
  <2>3. DOMAIN <<ret.expr>> = 1..1
    OBVIOUS
  <2>4. calls' = [j \in 1..1 |-> [fn |-> "destroy", node |-> <<ret.expr>>[j]]]
    BY <1>5, <2>3 DEF Calls
  <2>5. calls' \in Seq(CallRecord)
    BY <1>5, <2>2, CallsTyped
  <2>6. DOMAIN calls' = 1..Len(calls')
    BY <2>5, LenProperties
  <2>7. \A j \in DOMAIN calls' : calls'[j].fn = "destroy"
    BY <2>4
  <2> QED
    BY <2>6, <2>7 DEF Destroys
<1> QED
  BY <1>1, <1>5, <1>6

\* A node and its strings are destroyed.
LEMMA DestroyStatement ==
  ASSUME IInv, NodesInv, StringsNotShared, Neat(nodes), fault = "none", Destroys(calls),
         DestroyNode
  PROVE  fault' = "none" /\ Destroys(calls') /\ Neat(nodes') /\ UNCHANGED phase
<1> DEFINE n == Head(calls).node
           cl == Tail(calls)
<1>0. /\ calls \in Seq(CallRecord) /\ calls # <<>> /\ UNCHANGED phase
      /\ Head(calls).fn = "destroy" /\ NodesTyped(nodes)
  BY DEF DestroyNode, Pending, IInv, StackInv, NodeInv
<1>1. /\ cl \in Seq(CallRecord) /\ Destroys(cl) /\ (n # NULL => n \in Doomed(calls))
  BY <1>0, TailDoom DEF NodesInv, Destroys
<1>2. n # NULL => n \in DOMAIN nodes
  BY <1>1 DEF NodesInv, Parted
<1>3. n \in DOMAIN nodes => nodes[n].own \subseteq strings
  BY DEF StringsNotShared, Neat
<1>4. \/ calls' = cl /\ UNCHANGED <<nodes, fault>>
      \/ /\ n \in DOMAIN nodes
         /\ nodes' = [m \in DOMAIN nodes \ {n} |-> nodes[m]]
         /\ calls' = Calls("destroy", <<nodes[n].left, nodes[n].right>> \o nodes[n].items) \o cl
         /\ UNCHANGED fault
  BY <1>2, <1>3 DEF DestroyNode
<1> HIDE DEF n, cl
<1>5. CASE calls' = cl /\ UNCHANGED <<nodes, fault>>
  BY <1>0, <1>1, <1>5
<1>6. CASE /\ n \in DOMAIN nodes
           /\ nodes' = [m \in DOMAIN nodes \ {n} |-> nodes[m]]
           /\ calls' = Calls("destroy", <<nodes[n].left, nodes[n].right>> \o nodes[n].items) \o cl
           /\ UNCHANGED fault
  <2>1. Neat(nodes')
    BY <1>6 DEF Neat
  <2> DEFINE w == Calls("destroy", <<nodes[n].left, nodes[n].right>> \o nodes[n].items) \o cl
             L == 2 + Len(nodes[n].items)
  <2>2. Ahead(w, L, nodes[n], cl)
    BY <1>0, <1>1, <1>6, KidCalls
  <2>3. calls' = w
    BY <1>6
  <2> HIDE DEF w, L
  <2>4. \A j \in 1..Len(w) : j \in 1..L \/ (j - L \in 1..Len(cl) /\ L + (j - L) = j)
    BY <2>2 DEF Ahead
  <2>5. Destroys(w)
    <3> SUFFICES ASSUME NEW j \in 1..Len(w) PROVE w[j].fn = "destroy"
      BY DEF Destroys
    <3>1. CASE j \in 1..L
      BY <2>2, <3>1 DEF Ahead
    <3>2. ASSUME j - L \in 1..Len(cl), L + (j - L) = j PROVE w[j].fn = "destroy"
      <4>1. w[L + (j - L)] = cl[j - L]
        BY <2>2, <3>2 DEF Ahead
      <4>2. cl[j - L].fn = "destroy"
        BY <1>1, <3>2 DEF Destroys
      <4> QED
        BY <3>2, <4>1, <4>2
    <3> QED
      BY <2>4, <3>1, <3>2
  <2> QED
    BY <1>0, <1>6, <2>1, <2>3, <2>5
<1> QED
  BY <1>4, <1>5, <1>6

\* The tokens are freed with the strings they have left.
LEMMA FreeStatement ==
  ASSUME IInv, StringsNotShared, Tame, fault = "none", LexerFree
  PROVE  fault' = "none" /\ UNCHANGED <<nodes, calls>> /\ phase' = "exit"
<1>1. DOMAIN ptr = 1..Len(tokens)
  BY DEF IInv, PtrInv
<1>2. {ptr[k] : k \in {k \in DOMAIN ptr : tokens[k] \in Identifiers \cup {"string"}}} \ {NULL}
        \subseteq strings
  BY <1>1 DEF StringsNotShared, Tame
<1> QED
  BY <1>2 DEF LexerFree

\* It holds again, when it holds for what a step makes of the state.
LEMMA UnderstoodLater ==
  ASSUME NEW R, UNCHANGED tokens, NodesInv', Tame', Neat(nodes'), fault' = "none",
         phase' = "parse" => Stated(R, nodes', stack', ret', calls', pos'),
         phase' # "parse" => Destroys(calls')
  PROVE  Understood(R)'
<1>1. \A f : Lawful(f)' <=> Lawful(f)
  BY DEF Lawful
<1>2. \A f, e, p : Around(R, f, e, p)' <=> Around(R, f, e, p)
  BY DEF Around, AfterValue, ItemNext, Outside, Inside
<1>3. \A s : Stacked(s)' <=> Stacked(s)
  BY <1>1 DEF Stacked
<1>4. phase' = "parse" => Stated(R, nodes, stack, ret, calls, pos)'
  BY <1>2, <1>3 DEF Stated
<1> QED
  BY <1>4 DEF Understood

\* Every step keeps it.
LEMMA NextStatement ==
  IInv /\ FlowInv /\ StringsNotShared /\ StatementInv /\ [Next]_vars => StatementInv'
<1> SUFFICES ASSUME IInv, FlowInv, StringsNotShared, StatementInv, [Next]_vars,
                    NEW R, Labels(R)'
             PROVE  Understood(R)'
  BY DEF StatementInv
<1>1. UNCHANGED tokens
  BY StepKeeps
<1>2. Labels(R)
  BY <1>1 DEF Labels
<1>3. Understood(R)
  BY <1>2 DEF StatementInv
<1>4. NodesInv /\ Neat(nodes) /\ Tame /\ fault = "none"
  BY <1>3 DEF Understood
<1>5. NodesInv' /\ Tame'
  BY <1>2, <1>3, <1>4, StatementNodes, StaysTame
<1>6. SUFFICES /\ Neat(nodes') /\ fault' = "none"
               /\ phase' = "parse" => Stated(R, nodes', stack', ret', calls', pos')
               /\ phase' # "parse" => Destroys(calls')
  BY <1>1, <1>5, UnderstoodLater
<1>7. CASE UNCHANGED vars
  <2>1. UNCHANGED <<nodes, stack, ret, calls, pos, fault, phase>>
    BY <1>7 DEF vars, heap
  <2> QED
    BY <1>3, <2>1 DEF Understood
<1>8. CASE phase = "parse" /\ Parsing
  <2>1. Standing(R)
    BY <1>2, <1>3, <1>8 DEF Standing, Understood
  <2>2. Steps(R)
    BY <1>8, <2>1, ParsingStated
  <2>3. UNCHANGED phase
    <3>1. (\E pc \in PCs : At(pc)) \/ process_operation
      BY <1>8, OtherAt, ExpressionAt DEF Parsing, OtherPoints, PCs
    <3> QED
      BY <3>1 DEF At, process_operation, Pending
  <2> QED
    BY <1>8, <2>2, <2>3 DEF Steps
<1>9. CASE phase # "parse" /\ Parsing
  <2>1. process_operation
    BY <1>9, OtherAt, ExpressionAt DEF Parsing, At
  <2>2. calls # <<>> /\ Head(calls).fn = "process_operation" /\ calls \in Seq(CallRecord)
    BY <2>1 DEF process_operation, Pending, IInv, StackInv
  <2>3. Head(calls) = calls[1] /\ 1 \in 1..Len(calls)
    BY <2>2, FirstCall
  <2>4. calls[1].fn = "destroy"
    BY <1>3, <1>9, <2>3 DEF Understood, Destroys
  <2> QED
    BY <2>2, <2>3, <2>4
<1>10. CASE phase = "parse" /\ DestroyNode
  <2>1. /\ calls # <<>> /\ Head(calls).fn = "destroy" /\ calls \in Seq(CallRecord)
        /\ Regrouping(stack, calls, nodes)
    BY <1>3, <1>10 DEF DestroyNode, Pending, Understood, Stated, IInv, StackInv
  <2>2. Head(calls) = calls[1] /\ 1 \in 1..Len(calls)
    BY <2>1, FirstCall
  <2> QED
    BY <2>1, <2>2 DEF Regrouping
<1>11. CASE phase # "parse" /\ DestroyNode
  <2>1. Destroys(calls)
    BY <1>3, <1>11 DEF Understood
  <2> QED
    BY <1>4, <1>11, <2>1, DestroyStatement
<1>12. CASE PrintAst
  BY <1>2, <1>3, <1>4, <1>12, PrintStatement
<1>13. CASE LexerFree
  <2>1. phase # "parse" /\ Destroys(calls)
    BY <1>3, <1>13 DEF LexerFree, Understood
  <2> QED
    BY <1>4, <1>13, <2>1, FreeStatement
<1> QED
  BY <1>7, <1>8, <1>9, <1>10, <1>11, <1>12, <1>13
  DEF Next, Stop, Parsing, ParsesExpressions, ParsesOther

\* The invariant holds from the first state on.
LEMMA StatementInvariance == Spec => []StatementInv
<1>1. IInv /\ FlowInv /\ StringsNotShared /\ StatementInv /\ [Next]_vars => StatementInv'
  BY NextStatement
<1> QED
  BY <1>1, InitStatement, Invariance, FlowInvariance, StringsFreedOnce, PTL DEF Spec

\* No list of declarations and functions that is written as the grammar above
\* says makes ast_parse_expr fail or crash: any number of statements, values of
\* any number of operands, any number of arguments, a scope of any length, and
\* separators between.  It takes none of the error paths that print a token
\* which may have no text (ast.c:314, 391, 624), a type is a name where it is
\* read as one unchecked (ast.c:357, 647), and a declaration has the value that
\* is printed unchecked (ast.c:997).
THEOREM StatementListsAreAccepted ==
  Spec => [](IsStatementList =>
               /\ fault = "none"
               /\ phase = "parse" /\ stack = <<>> /\ calls = <<>> => ret.expr # NULL)
<1>1. StatementInv =>
        (IsStatementList =>
           /\ fault = "none"
           /\ phase = "parse" /\ stack = <<>> /\ calls = <<>> => ret.expr # NULL)
  BY DEF StatementInv, IsStatementList, Understood, Stated
<1> QED
  BY <1>1, StatementInvariance, PTL

-----------------------------------------------------------------------------
(* The statements that the runs take are in the grammar.                   *)

\* The tokens w can be labelled, behind a label a and up to a label z.
Derives(a, w, z) ==
  /\ w \in Seq(TokenKinds)
  /\ \E q : /\ q[0] = a /\ q[Len(w)] = z
            /\ \A k \in 1..Len(w) : Means(w[k], q[k]) /\ Leads(q[k - 1], q[k])

LEMMA DerivesNothing == ASSUME NEW a PROVE Derives(a, <<>>, a)
<1> DEFINE q == [k \in 0..0 |-> a]
<1>1. q[0] = a
  OBVIOUS
<1>2. <<>> \in Seq(TokenKinds) /\ Len(<<>>) = 0 /\ \A k \in 1..0 : FALSE
  OBVIOUS
<1> HIDE DEF q
<1> QED
  BY <1>1, <1>2 DEF Derives

\* One token, if its label may stand behind a.
LEMMA DerivesToken ==
  ASSUME NEW a, NEW t \in TokenKinds, NEW r, Means(t, r), Leads(a, r)
  PROVE  Derives(a, <<t>>, r)
<1> DEFINE q == [k \in 0..1 |-> IF k = 0 THEN a ELSE r]
           w == <<t>>
<1>1. q[0] = a /\ q[1] = r
  OBVIOUS
<1>2. w \in Seq(TokenKinds) /\ Len(w) = 1 /\ w[1] = t
  OBVIOUS
<1> HIDE DEF q, w
<1>3. \A k \in 1..1 : k = 1 /\ k - 1 = 0
  OBVIOUS
<1>4. Derives(a, w, r)
  BY <1>1, <1>2, <1>3 DEF Derives
<1> QED
  BY <1>4 DEF w

\* Two lists behind each other: the second starts at the label the first ends with.
LEMMA DerivesBoth ==
  ASSUME NEW a, NEW b, NEW c, NEW v, NEW w, Derives(a, v, b), Derives(b, w, c)
  PROVE  Derives(a, v \o w, c)
<1>1. PICK p : /\ p[0] = a /\ p[Len(v)] = b
               /\ \A k \in 1..Len(v) : Means(v[k], p[k]) /\ Leads(p[k - 1], p[k])
  BY DEF Derives
<1>2. PICK q : /\ q[0] = b /\ q[Len(w)] = c
               /\ \A k \in 1..Len(w) : Means(w[k], q[k]) /\ Leads(q[k - 1], q[k])
  BY DEF Derives
<1>3. v \in Seq(TokenKinds) /\ w \in Seq(TokenKinds)
  BY DEF Derives
<1>4. PICK L \in Nat, M \in Nat : L = Len(v) /\ M = Len(w)
  BY <1>3
<1>5. PICK u : u = v \o w
  OBVIOUS
<1>6. /\ u \in Seq(TokenKinds) /\ Len(u) = L + M
      /\ \A k \in 1..L + M : u[k] = IF k <= L THEN v[k] ELSE w[k - L]
  BY <1>3, <1>4, <1>5
<1>7. PICK g : g = [k \in 0..L + M |-> IF k <= L THEN p[k] ELSE q[k - L]]
  OBVIOUS
<1>8. \A k \in 0..L + M : g[k] = IF k <= L THEN p[k] ELSE q[k - L]
  BY <1>7
<1>9. g[0] = a
  BY <1>1, <1>4, <1>8
<1>10. g[L + M] = c
  <2>1. CASE M = 0
    <3>1. L + M = L
      BY <1>4, <2>1
    <3> QED
      BY <1>1, <1>2, <1>4, <1>8, <2>1, <3>1
  <2>2. CASE M # 0
    <3>1. L + M \in 0..L + M /\ ~(L + M <= L) /\ (L + M) - L = M
      BY <1>4, <2>2
    <3> QED
      BY <1>2, <1>4, <1>8, <3>1
  <2> QED
    BY <2>1, <2>2
<1>11. ASSUME NEW k \in 1..L + M PROVE Means(u[k], g[k]) /\ Leads(g[k - 1], g[k])
  <2>1. k \in 0..L + M /\ k - 1 \in 0..L + M
    BY <1>4, <1>11
  <2>2. CASE k <= L
    <3>1. k \in 1..L /\ k - 1 <= L
      BY <1>4, <1>11, <2>2
    <3>2. u[k] = v[k] /\ g[k] = p[k] /\ g[k - 1] = p[k - 1]
      BY <1>6, <1>8, <1>11, <2>1, <2>2, <3>1
    <3> QED
      BY <1>1, <1>4, <3>1, <3>2
  <2>3. CASE ~(k <= L)
    <3>1. k - L \in 1..M /\ (k - L) - 1 = (k - 1) - L
      BY <1>4, <1>11, <2>3
    <3>2. u[k] = w[k - L] /\ g[k] = q[k - L]
      BY <1>6, <1>8, <1>11, <2>1, <2>3
    <3>3. g[k - 1] = q[(k - 1) - L]
      <4>1. CASE k - 1 <= L
        <5>1. k - 1 = L /\ (k - 1) - L = 0
          BY <1>4, <1>11, <2>3, <4>1
        <5> QED
          BY <1>1, <1>2, <1>4, <1>8, <2>1, <4>1, <5>1
      <4>2. CASE ~(k - 1 <= L)
        BY <1>8, <2>1, <4>2
      <4> QED
        BY <4>1, <4>2
    <3> QED
      BY <1>2, <1>4, <3>1, <3>2, <3>3
  <2> QED
    BY <2>2, <2>3
<1>12. Derives(a, u, c)
  BY <1>6, <1>9, <1>10, <1>11 DEF Derives
<1> QED
  BY <1>5, <1>12

\* The same for two tokens and for three.
LEMMA DerivesPair ==
  ASSUME NEW a, NEW t \in TokenKinds, NEW r, Means(t, r), Leads(a, r),
         NEW t2 \in TokenKinds, NEW r2, Means(t2, r2), Leads(r, r2)
  PROVE  Derives(a, <<t, t2>>, r2)
<1> DEFINE q == [k \in 0..2 |-> IF k = 0 THEN a ELSE IF k = 1 THEN r ELSE r2]
           w == <<t, t2>>
<1>1. q[0] = a /\ q[1] = r /\ q[2] = r2
  OBVIOUS
<1>2. w \in Seq(TokenKinds) /\ Len(w) = 2 /\ w[1] = t /\ w[2] = t2
  OBVIOUS
<1> HIDE DEF q, w
<1>3. \A k \in 1..2 : (k = 1 /\ k - 1 = 0) \/ (k = 2 /\ k - 1 = 1)
  OBVIOUS
<1>4. \A k \in 1..2 : Means(w[k], q[k]) /\ Leads(q[k - 1], q[k])
  BY <1>1, <1>2, <1>3
<1>5. Derives(a, w, r2)
  BY <1>1, <1>2, <1>4 DEF Derives
<1> QED
  BY <1>5 DEF w

LEMMA DerivesTriple ==
  ASSUME NEW a, NEW t \in TokenKinds, NEW r, Means(t, r), Leads(a, r),
         NEW t2 \in TokenKinds, NEW r2, Means(t2, r2), Leads(r, r2),
         NEW t3 \in TokenKinds, NEW r3, Means(t3, r3), Leads(r2, r3)
  PROVE  Derives(a, <<t, t2, t3>>, r3)
<1> DEFINE q == [k \in 0..3 |->
                   IF k = 0 THEN a ELSE IF k = 1 THEN r ELSE IF k = 2 THEN r2 ELSE r3]
           w == <<t, t2, t3>>
<1>1. q[0] = a /\ q[1] = r /\ q[2] = r2 /\ q[3] = r3
  OBVIOUS
<1>2. w \in Seq(TokenKinds) /\ Len(w) = 3 /\ w[1] = t /\ w[2] = t2 /\ w[3] = t3
  OBVIOUS
<1> HIDE DEF q, w
<1>3. \A k \in 1..3 : (k = 1 /\ k - 1 = 0) \/ (k = 2 /\ k - 1 = 1) \/ (k = 3 /\ k - 1 = 2)
  OBVIOUS
<1>4. \A k \in 1..3 : Means(w[k], q[k]) /\ Leads(q[k - 1], q[k])
  BY <1>1, <1>2, <1>3
<1>5. Derives(a, w, r3)
  BY <1>1, <1>2, <1>4 DEF Derives
<1> QED
  BY <1>5 DEF w

\* The kinds of tokens that the statements are made of.
LEMMA StatementKinds ==
  /\ {"def", "ident", "num", "string", "fn", "lparen", "rparen", "comma", "semicolon",
      "newline", "lbrace", "rbrace"} \subseteq TokenKinds
  /\ {":", "=", "+", "*"} \subseteq Operators /\ Operators \subseteq TokenKinds
<1>1. {"def", "fn", "ident"} \subseteq Identifiers
  BY DEF Identifiers, Keywords
<1>2. {":", "=", "+", "*"} \subseteq Operators
  BY DEF Operators
<1> QED
  BY <1>1, <1>2 DEF TokenKinds

\* What a token may be, behind which.
LEMMA StatementRoles ==
  /\ Means("def", "def") /\ Means("ident", "name") /\ Means(":", "colon")
  /\ Means("ident", "type") /\ Means("=", "assign")
  /\ \A t \in {"num", "ident", "string"} : Means(t, "value")
  /\ \A op \in Operators : Means(op, "op")
  /\ Means("fn", "fn") /\ Means("ident", "fname") /\ Means("lparen", "open")
  /\ Means("ident", "argName") /\ Means("ident", "argType") /\ Means("comma", "comma")
  /\ Means("rparen", "close") /\ Means("ident", "returns") /\ Means("semicolon", "stop")
  /\ Means("lbrace", "body") /\ Means("ident", "inner") /\ Means("rbrace", "end")
  /\ Means("newline", "sep") /\ Means("semicolon", "sep")
BY DEF Means, Roles

LEMMA StatementOrder ==
  /\ Leads("start", "def") /\ Leads("def", "name") /\ Leads("name", "colon")
  /\ Leads("colon", "type") /\ Leads("name", "assign") /\ Leads("type", "assign")
  /\ Leads("assign", "value") /\ Leads("value", "op") /\ Leads("op", "value")
  /\ Leads("start", "fn") /\ Leads("fn", "fname") /\ Leads("fname", "open")
  /\ Leads("open", "argName") /\ Leads("argName", "argType") /\ Leads("argType", "comma")
  /\ Leads("comma", "argName") /\ Leads("argType", "close") /\ Leads("open", "close")
  /\ Leads("close", "returns") /\ Leads("returns", "stop") /\ Leads("returns", "body")
  /\ Leads("body", "inner") /\ Leads("inner", "end") /\ Leads("body", "end")
  /\ \A r \in {"value", "stop", "end"} : Leads(r, "sep")
BY DEF Leads

\* A value begins behind "=" and ends with an operand.
LEMMA ValuesDerived == ASSUME NEW v \in Values PROVE Derives("assign", v, "value")
<1> DEFINE Operand1 == {<<"num">>, <<"ident">>, <<"string">>}
<1>1. \/ v \in Operand1
      \/ \E l \in Operand1, op \in {"+", "*"}, r \in Operand1 : v = l \o <<op>> \o r
  BY DEF Values
<1>2. \A l \in Operand1 : Derives("assign", l, "value") /\ Derives("op", l, "value")
  <2>1. ASSUME NEW t \in {"num", "ident", "string"}
        PROVE  Derives("assign", <<t>>, "value") /\ Derives("op", <<t>>, "value")
    BY <2>1, StatementKinds, StatementRoles, StatementOrder, DerivesToken
  <2> QED
    BY <2>1
<1>3. ASSUME NEW op \in {"+", "*"} PROVE Derives("value", <<op>>, "op")
  <2>1. op \in TokenKinds /\ Means(op, "op") /\ Leads("value", "op")
    BY <1>3, StatementKinds, StatementRoles, StatementOrder
  <2> QED
    BY <2>1, DerivesToken
<1> HIDE DEF Operand1
<1>4. ASSUME NEW l \in Operand1, NEW op \in {"+", "*"}, NEW r \in Operand1
      PROVE  Derives("assign", l \o <<op>> \o r, "value")
  <2>1. /\ Derives("assign", l, "value") /\ Derives("value", <<op>>, "op")
        /\ Derives("op", r, "value")
    BY <1>2, <1>3
  <2>2. Derives("assign", l \o <<op>>, "op")
    BY <2>1, DerivesBoth
  <2> QED
    BY <2>1, <2>2, DerivesBoth
<1> QED
  BY <1>1, <1>2, <1>4

\* A declaration ends with its value.
LEMMA DeclarationsDerived ==
  ASSUME NEW s \in Declarations PROVE Derives("start", s, "value")
<1> DEFINE Types == {<<>>, <<":", "ident">>}
           Declare(type, value) == <<"def", "ident">> \o type \o <<"=">> \o value
           head == <<"def", "ident">>
           mark == <<"=">>
<1>1. PICK type \in Types, value \in Values : s = head \o type \o mark \o value
  <2>1. Declarations = {Declare(type, value) : type \in Types, value \in Values}
    BY SMT DEF Declarations
  <2> HIDE DEF Types, Declare
  <2>2. PICK type \in Types, value \in Values : s = Declare(type, value)
    BY <2>1
  <2>3. s = head \o type \o mark \o value
    BY <2>2 DEF Declare
  <2> QED
    BY <2>3
<1>2. Derives("start", head, "name")
  BY StatementKinds, StatementRoles, StatementOrder, DerivesPair
<1>3. Derives("name", type, "name") \/ Derives("name", type, "type")
  <2>1. Derives("name", <<>>, "name")
    BY DerivesNothing
  <2>2. Derives("name", <<":", "ident">>, "type")
    BY StatementKinds, StatementRoles, StatementOrder, DerivesPair
  <2> QED
    BY <2>1, <2>2
<1>4. Derives("name", mark, "assign") /\ Derives("type", mark, "assign")
  BY StatementKinds, StatementRoles, StatementOrder, DerivesToken
<1>5. Derives("assign", value, "value")
  BY ValuesDerived
<1> HIDE DEF Types, head, mark
<1>6. Derives("start", head \o type, "name") \/ Derives("start", head \o type, "type")
  BY <1>2, <1>3, DerivesBoth
<1>7. Derives("start", head \o type \o mark, "assign")
  BY <1>4, <1>6, DerivesBoth
<1> QED
  BY <1>1, <1>5, <1>7, DerivesBoth

\* A function ends with its semicolon or with its scope.
LEMMA FunctionsDerived ==
  ASSUME NEW s \in Functions PROVE Derives("start", s, "stop") \/ Derives("start", s, "end")
<1> DEFINE Argument == <<"ident", "ident">>
           Ends == {<<"semicolon">>, <<"lbrace", "rbrace">>, <<"lbrace", "ident", "rbrace">>}
           head == <<"fn", "ident", "lparen">>
           tail == <<"rparen", "ident">>
<1>1. PICK arguments \in {<<>>, Argument, Argument \o <<"comma">> \o Argument}, end \in Ends :
        s = head \o arguments \o tail \o end
  BY DEF Functions
<1>2. Derives("start", head, "open")
  BY StatementKinds, StatementRoles, StatementOrder, DerivesTriple
<1>3. Derives("open", Argument, "argType") /\ Derives("comma", Argument, "argType")
  BY StatementKinds, StatementRoles, StatementOrder, DerivesPair
<1>4. Derives("argType", <<"comma">>, "comma")
  BY StatementKinds, StatementRoles, StatementOrder, DerivesToken
<1>5. Derives("open", tail, "returns") /\ Derives("argType", tail, "returns")
  BY StatementKinds, StatementRoles, StatementOrder, DerivesPair
<1>6. Derives("returns", end, "stop") \/ Derives("returns", end, "end")
  <2>1. Derives("returns", <<"semicolon">>, "stop")
    BY StatementKinds, StatementRoles, StatementOrder, DerivesToken
  <2>2. Derives("returns", <<"lbrace", "rbrace">>, "end")
    BY StatementKinds, StatementRoles, StatementOrder, DerivesPair
  <2>3. Derives("returns", <<"lbrace", "ident", "rbrace">>, "end")
    BY StatementKinds, StatementRoles, StatementOrder, DerivesTriple
  <2> QED
    BY <2>1, <2>2, <2>3
<1> HIDE DEF Argument, Ends, head, tail
<1>7. Derives("open", Argument \o <<"comma">> \o Argument, "argType")
  <2>1. Derives("open", Argument \o <<"comma">>, "comma")
    BY <1>3, <1>4, DerivesBoth
  <2> QED
    BY <1>3, <2>1, DerivesBoth
<1>8. Derives("start", head \o arguments \o tail, "returns")
  <2>1. Derives("open", arguments, "open") \/ Derives("open", arguments, "argType")
    BY <1>1, <1>3, <1>7, DerivesNothing
  <2>2. \/ Derives("start", head \o arguments, "open")
        \/ Derives("start", head \o arguments, "argType")
    BY <1>2, <2>1, DerivesBoth
  <2> QED
    BY <1>5, <2>2, DerivesBoth
<1> QED
  BY <1>1, <1>6, <1>8, DerivesBoth

\* So each of the statements, with its separator, is a list of the grammar.
LEMMA StatementsDerived == tokens \in Statements => IsStatementList
<1> SUFFICES ASSUME tokens \in Statements PROVE IsStatementList
  OBVIOUS
<1>1. PICK s \in Declarations \cup Functions, separator \in {<<>>, <<"newline">>, <<"semicolon">>} :
        tokens = s \o separator
  BY DEF Statements
<1>2. PICK r \in {"value", "stop", "end"} : Derives("start", s, r)
  BY <1>1, DeclarationsDerived, FunctionsDerived
<1>3. PICK z \in Final : Derives(r, separator, z)
  <2>1. Derives(r, <<>>, r) /\ r \in Final /\ "sep" \in Final
    BY DerivesNothing DEF Final
  <2>2. Leads(r, "sep")
    BY StatementOrder
  <2>3. Derives(r, <<"newline">>, "sep") /\ Derives(r, <<"semicolon">>, "sep")
    BY <2>2, StatementKinds, StatementRoles, DerivesToken
  <2> QED
    BY <1>1, <2>1, <2>3
<1>4. Derives("start", tokens, z)
  BY <1>1, <1>2, <1>3, DerivesBoth
<1> QED
  BY <1>4 DEF Derives, IsStatementList, Labels

\* The statements that the runs try are such lists, so each of them gets past
\* the same places of ast_parse_expr and of the printer (ast.c:314, 357, 391,
\* 624, 647, 997), whatever the uninitialized local "func" holds (ast.c:589).
THEOREM StatementsAreAccepted == Spec => []AcceptsStatements
<1>1. StatementInv => AcceptsStatements
  BY StatementsDerived
  DEF StatementInv, IsStatementList, Understood, Stated, AcceptsStatements
<1> QED
  BY <1>1, StatementInvariance, PTL

=============================================================================
