----------------------------- MODULE Ast_proofs -----------------------------
(***************************************************************************)
(* Proofs about the parser of module Ast, for every set of token lists and *)
(* every content of the uninitialized local: the cursor and the strings of *)
(* tokens, and then the way of an error through the parser and the tokens  *)
(* that it has read and those that it has not, which follow from the order *)
(* of the calls on the stack: who is called from where.                    *)
(***************************************************************************)
EXTENDS Ast, TLAPS, WellFoundedInduction, SequenceTheorems

-----------------------------------------------------------------------------
(* Least elements, for NEXT_TOKEN.                                         *)

\* A set of naturals that is not empty has a least element.
LEMMA LeastNat ==
  ASSUME NEW S \in SUBSET Nat, S # {}
  PROVE  \E x \in S : \A y \in S : x <= y
<1> DEFINE R == OpToRel(<, Nat)
<1>1. IsWellFoundedOn(R, Nat)
  BY NatLessThanWellFounded
<1>2. \E x \in S : \A y \in S : ~(<<y, x>> \in R)
  BY <1>1, WFMin, Zenon
<1>3. PICK x \in S : \A y \in S : ~(<<y, x>> \in R)
  BY <1>2
<1>4. \A y \in S : ~(y < x)
  BY <1>3 DEF OpToRel
<1> QED
  BY <1>4, SMT

\* NEXT_TOKEN passes nothing but line breaks.
LEMMA NextTokenStops ==
  ASSUME NEW p \in Nat, NEW hi \in Nat, p <= hi + 1
  PROVE  /\ NextToken(p, hi) \in p..(hi + 1)
         /\ NextToken(p, hi) = hi + 1 \/ tokens[NextToken(p, hi)] # "newline"
         /\ \A j \in p..(NextToken(p, hi) - 1) : tokens[j] = "newline"
<1> DEFINE Stops(q) == q = hi + 1 \/ tokens[q] # "newline"
           S == {q \in p..(hi + 1) : Stops(q)}
<1>1. S \in SUBSET Nat /\ hi + 1 \in S
  BY SMT
<1>2. PICK q \in S : \A y \in S : q <= y
  BY <1>1, LeastNat
<1>3. \A j \in p..(q - 1) : j \in p..(hi + 1) /\ ~(q <= j)
  BY <1>2, SMT
<1>4. \A j \in p..(q - 1) : tokens[j] = "newline"
  BY <1>2, <1>3
<1>5. \E x \in p..(hi + 1) :
        /\ x = hi + 1 \/ tokens[x] # "newline"
        /\ \A j \in p..(x - 1) : tokens[j] = "newline"
  BY <1>2, <1>4
<1> QED
  BY <1>5 DEF NextToken

\* NEXT_TOKEN ends at a token or just after the last one.
LEMMA NextTokenInWindow ==
  ASSUME NEW p \in Nat, NEW hi \in Nat, p <= hi + 1
  PROVE  NextToken(p, hi) \in p..(hi + 1)
BY NextTokenStops

-----------------------------------------------------------------------------
(* The stack of calls and the cursor.                                      *)

\* CursorInWindow of a stack s, a cursor p and a list of n tokens.
Nested(s, n) ==
  /\ \A d \in 1..Len(s) : s[d].hi <= n
  /\ \A d \in 1..Len(s) - 1 : s[d].pc \in Waiting /\ s[d + 1].hi <= s[d].hi
  /\ \A d \in 1..Len(s) : s[d].pc = "scopeEnd" => s[d].close \in 1..s[d].hi

Within(s, p) ==
  s # <<>> => /\ p <= s[Len(s)].hi + 1
              /\ s[Len(s)].pc \in Reading => p <= s[Len(s)].hi

\* A frame that takes the place of the frame on top.
Replaces(f, s) ==
  /\ f \in FrameRecord
  /\ f.hi = s[Len(s)].hi
  /\ f.pc = "scopeEnd" => f.close \in 1..f.hi

\* The fields of a frame.
LEMMA FrameFields ==
  \A f \in FrameRecord :
    f.pc \in PCs /\ f.hi \in Nat /\ f.res \in Nat /\ f.close \in Nat
BY DEF FrameRecord

\* Going on in the call on top keeps the stack nested.
LEMMA ContinueNested ==
  ASSUME NEW n \in Nat, NEW s \in Seq(FrameRecord), s # <<>>, Nested(s, n),
         NEW f, Replaces(f, s)
  PROVE  LET t == [s EXCEPT ![Len(s)] = f]
         IN  /\ t \in Seq(FrameRecord) /\ t # <<>>
             /\ Len(t) = Len(s) /\ t[Len(s)] = f
             /\ Nested(t, n)
<1> DEFINE t == [s EXCEPT ![Len(s)] = f]
<1>1. Len(s) \in Nat \ {0} /\ \A d \in 1..Len(s) : s[d] \in FrameRecord
  BY EmptySeq, ElementOfSeq
<1>2. /\ t \in Seq(FrameRecord) /\ Len(t) = Len(s)
      /\ \A d \in 1..Len(s) : t[d] = IF d = Len(s) THEN f ELSE s[d]
  BY <1>1, ExceptSeq DEF Replaces
<1>3. t # <<>>
  BY <1>1, <1>2, EmptySeq
<1> HIDE DEF t
<1>4. Nested(t, n)
  <2>1. /\ \A d \in 1..Len(s) : t[d].hi = s[d].hi
        /\ \A d \in 1..Len(s) - 1 : t[d] = s[d] /\ t[d + 1].hi = s[d + 1].hi
        /\ t[Len(s)] = f
    BY <1>1, <1>2 DEF Replaces
  <2>2. \A d \in 1..Len(t) : t[d].hi <= n
    BY <1>2, <2>1 DEF Nested
  <2>3. \A d \in 1..Len(t) - 1 : t[d].pc \in Waiting /\ t[d + 1].hi <= t[d].hi
    BY <1>2, <2>1 DEF Nested
  <2>4. ASSUME NEW d \in 1..Len(t), t[d].pc = "scopeEnd"
        PROVE  t[d].close \in 1..t[d].hi
    <3>1. CASE d = Len(s)
      BY <2>1, <2>4, <3>1 DEF Replaces
    <3>2. CASE d # Len(s)
      BY <1>1, <1>2, <2>1, <2>4, <3>2 DEF Nested
    <3> QED
      BY <3>1, <3>2
  <2> QED
    BY <2>2, <2>3, <2>4 DEF Nested
<1> QED
  BY <1>1, <1>2, <1>3, <1>4 DEF t

\* A call keeps the stack nested.
LEMMA CallNested ==
  ASSUME NEW n \in Nat, NEW s \in Seq(FrameRecord), s # <<>>, Nested(s, n),
         NEW f, Replaces(f, s), f.pc \in Waiting,
         NEW g \in FrameRecord, g.hi <= f.hi, g.pc # "scopeEnd"
  PROVE  LET t == Append([s EXCEPT ![Len(s)] = f], g)
         IN  /\ t \in Seq(FrameRecord) /\ t # <<>> /\ t[Len(t)] = g
             /\ Nested(t, n)
<1> DEFINE r == [s EXCEPT ![Len(s)] = f]
           t == Append(r, g)
<1>1. /\ r \in Seq(FrameRecord) /\ Len(r) = Len(s) /\ r[Len(s)] = f
      /\ Nested(r, n)
  BY ContinueNested
<1>2. Len(r) \in Nat \ {0} /\ \A d \in 1..Len(r) : r[d] \in FrameRecord
  BY <1>1, EmptySeq, ElementOfSeq
<1> HIDE DEF r
<1>3. /\ t \in Seq(FrameRecord) /\ Len(t) = Len(r) + 1 /\ t[Len(r) + 1] = g
      /\ \A d \in 1..Len(r) : t[d] = r[d]
  BY <1>1, <1>2, AppendProperties
<1>4. t # <<>>
  BY <1>2, <1>3, EmptySeq
<1> HIDE DEF t
<1>5. Nested(t, n)
  <2>1. g.hi <= f.hi /\ f.hi <= n /\ f.hi \in Nat /\ g.hi \in Nat
    BY <1>1, <1>2, FrameFields DEF Nested, Replaces
  <2>2. ASSUME NEW d \in 1..Len(t)
        PROVE  t[d].hi <= n /\ (t[d].pc = "scopeEnd" => t[d].close \in 1..t[d].hi)
    <3>1. CASE d = Len(r) + 1
      BY <1>3, <2>1, <3>1
    <3>2. CASE d # Len(r) + 1
      <4>1. d \in 1..Len(r) /\ t[d] = r[d]
        BY <1>2, <1>3, <3>2
      <4> QED
        BY <1>1, <4>1 DEF Nested
    <3> QED
      BY <3>1, <3>2
  <2>3. ASSUME NEW d \in 1..Len(t) - 1
        PROVE  t[d].pc \in Waiting /\ t[d + 1].hi <= t[d].hi
    <3>1. CASE d = Len(r)
      BY <1>1, <1>2, <1>3, <2>1, <3>1
    <3>2. CASE d # Len(r)
      <4>1. d \in 1..Len(r) - 1 /\ t[d] = r[d] /\ t[d + 1] = r[d + 1]
        BY <1>2, <1>3, <3>2
      <4> QED
        BY <1>1, <4>1 DEF Nested
    <3> QED
      BY <3>1, <3>2
  <2> QED
    BY <2>2, <2>3 DEF Nested
<1> QED
  BY <1>2, <1>3, <1>4, <1>5 DEF t, r

\* A return keeps the stack nested, and the caller does not read the token
\* under the cursor before it has looked at the bounds.
LEMMA PopNested ==
  ASSUME NEW n \in Nat, NEW s \in Seq(FrameRecord), s # <<>>, Nested(s, n),
         NEW p \in Nat, p <= s[Len(s)].hi + 1
  PROVE  LET t == SubSeq(s, 1, Len(s) - 1)
         IN  t \in Seq(FrameRecord) /\ Nested(t, n) /\ Within(t, p)
<1> DEFINE t == SubSeq(s, 1, Len(s) - 1)
<1>1. Len(s) \in Nat \ {0} /\ \A d \in 1..Len(s) : s[d] \in FrameRecord
  BY EmptySeq, ElementOfSeq
<1>2. /\ t \in Seq(FrameRecord) /\ Len(t) = Len(s) - 1
      /\ \A d \in 1..Len(s) - 1 : t[d] = s[d]
  <2>1. \A d \in 1..Len(s) - 1 : s[d] \in FrameRecord
    BY <1>1
  <2>2. /\ t \in Seq(FrameRecord)
        /\ Len(t) = IF 1 <= Len(s) - 1 THEN Len(s) - 1 - 1 + 1 ELSE 0
        /\ \A d \in 1..Len(s) - 1 - 1 + 1 : t[d] = s[1 + d - 1]
    BY <1>1, <2>1, SubSeqProperties
  <2>3. ASSUME NEW m, m \in Nat \ {0}
        PROVE  /\ (IF 1 <= m - 1 THEN m - 1 - 1 + 1 ELSE 0) = m - 1
               /\ m - 1 - 1 + 1 = m - 1
               /\ \A d \in 1..m - 1 : 1 + d - 1 = d
    BY <2>3
  <2> HIDE DEF t
  <2>4. /\ Len(s) - 1 - 1 + 1 = Len(s) - 1
        /\ \A d \in 1..Len(s) - 1 : 1 + d - 1 = d
        /\ Len(t) = Len(s) - 1
    BY <1>1, <2>2, <2>3
  <2> QED
    BY <2>2, <2>4
<1>3. t # <<>> => Len(t) \in Nat \ {0}
  BY <1>2, EmptySeq
<1> HIDE DEF t
<1>4. Nested(t, n)
  <2>1. \A m \in Nat \ {0} : /\ \A d \in 1..m - 1 : d \in 1..m
                             /\ \A d \in 1..m - 1 - 1 : d \in 1..m - 1 /\ d + 1 \in 1..m - 1
    OBVIOUS
  <2>2. \A d \in 1..Len(t) : d \in 1..Len(s) /\ t[d] = s[d]
    BY <1>1, <1>2, <2>1
  <2>3. \A d \in 1..Len(t) - 1 : d \in 1..Len(s) - 1 /\ d + 1 \in 1..Len(s) - 1
    BY <1>1, <1>2, <2>1
  <2>4. \A d \in 1..Len(t) - 1 : /\ d \in 1..Len(s) - 1
                                /\ t[d] = s[d] /\ t[d + 1] = s[d + 1]
    BY <1>2, <2>3
  <2> QED
    BY <2>2, <2>4 DEF Nested
<1>5. Within(t, p)
  <2> SUFFICES ASSUME t # <<>>
               PROVE  p <= t[Len(t)].hi + 1 /\ t[Len(t)].pc \notin Reading
    BY DEF Within
  <2>1. Len(s) - 1 \in 1..Len(s) - 1 /\ Len(t) = Len(s) - 1
    BY <1>1, <1>2, <1>3
  <2>2. /\ t[Len(t)] = s[Len(s) - 1] /\ s[Len(s) - 1] \in FrameRecord
        /\ s[Len(s)] \in FrameRecord
        /\ s[Len(s) - 1].pc \in Waiting /\ s[Len(s)].hi <= s[Len(s) - 1].hi
    BY <1>1, <1>2, <2>1 DEF Nested
  <2>3. \A pc \in Waiting : pc \notin Reading
    BY DEF Waiting, Reading
  <2> QED
    BY <2>2, <2>3, FrameFields
<1> QED
  BY <1>2, <1>4, <1>5 DEF t

-----------------------------------------------------------------------------
(* The nodes.                                                              *)

NodesTyped(ns) ==
  DOMAIN ns \subseteq Nat \ {NULL} /\ ns \in [DOMAIN ns -> NodeRecord]

\* A new node has the fields of a node.
LEMMA NodeTyped ==
  ASSUME NEW type \in NodeTypes, NEW at \in Nat, NEW own \in SUBSET Int
  PROVE  Node(type, at, own) \in NodeRecord
BY DEF Node, NodeRecord, NULL

\* Adding a node, or replacing one, keeps the nodes typed.
LEMMA WithTyped ==
  ASSUME NEW ns, NodesTyped(ns), NEW id \in Nat \ {NULL}, NEW rec \in NodeRecord
  PROVE  NodesTyped(With(ns, id, rec))
BY DEF NodesTyped, With

\* Each of the updates of a node that there may be keeps the nodes typed.
LEMMA UpdateTyped ==
  ASSUME NEW ns, NodesTyped(ns), NEW n, NEW m \in Nat, NEW own \in SUBSET Int,
         NEW b \in BOOLEAN
  PROVE  /\ NodesTyped([ns EXCEPT ![n].left = m])
         /\ NodesTyped([ns EXCEPT ![n].right = m])
         /\ NodesTyped([ns EXCEPT ![n].items = Append(@, m)])
         /\ NodesTyped([ns EXCEPT ![n].own = @ \cup own])
         /\ NodesTyped([ns EXCEPT ![n].wrapped = b])
<1>1. CASE n \notin DOMAIN ns
  BY <1>1 DEF NodesTyped
<1>2. CASE n \in DOMAIN ns
  <2>1. ns[n] \in NodeRecord /\ ns[n].own \cup own \in SUBSET Int
    BY <1>2 DEF NodesTyped, NodeRecord
  <2>2. Append(ns[n].items, m) \in Seq(Nat)
    BY <2>1, AppendProperties DEF NodeRecord
  <2>3. /\ [ns[n] EXCEPT !.left = m] \in NodeRecord
        /\ [ns[n] EXCEPT !.right = m] \in NodeRecord
        /\ [ns[n] EXCEPT !.wrapped = b] \in NodeRecord
    BY <2>1 DEF NodeRecord
  <2>4. [ns[n] EXCEPT !.own = @ \cup own] \in NodeRecord
    BY <2>1 DEF NodeRecord
  <2>5. [ns[n] EXCEPT !.items = Append(@, m)] \in NodeRecord
    BY <2>1, <2>2 DEF NodeRecord
  <2>6. \A rec \in NodeRecord : NodesTyped([ns EXCEPT ![n] = rec])
    BY DEF NodesTyped
  <2> QED
    BY <2>3, <2>4, <2>5, <2>6
<1> QED
  BY <1>1, <1>2

-----------------------------------------------------------------------------
(* The invariant, in parts.                                                *)

CallRecord == [fn : {"process_operation", "destroy"}, node : Nat]

PtrInv ==
  /\ ptr \in [1..Len(tokens) -> Int]
  /\ \A k \in 1..Len(tokens) : ptr[k] \in {NULL, Wild, k}
  /\ strings \subseteq 1..Len(tokens)

NodeInv == NodesTyped(nodes) /\ nextId \in Nat \ {NULL}

StackInv ==
  /\ tokens \in Seq(TokenKinds)
  /\ pos \in Nat \ {0}
  /\ stack \in Seq(FrameRecord)
  /\ ret \in [expr : Nat, error : BOOLEAN]
  /\ calls \in Seq(CallRecord)
  /\ messages \in Int
  /\ fault \in Faults
  /\ Nested(stack, Len(tokens))
  /\ Within(stack, pos)

IInv == PtrInv /\ NodeInv /\ StackInv /\ phase \in {"parse", "free", "exit"}

\* The parts are what the runs check.
LEMMA IInvIsTypeOK == IInv <=> TypeOK /\ CursorInWindow
BY DEF IInv, PtrInv, NodeInv, StackInv, NodesTyped, CallRecord, TypeOK, CursorInWindow,
       Nested, Within, Top

\* The call on top, and the token under the cursor where it is read.
LEMMA TopFacts ==
  ASSUME StackInv, stack # <<>>
  PROVE  /\ Len(stack) \in Nat \ {0} /\ Top \in FrameRecord
         /\ Len(tokens) \in Nat
         /\ Top.hi \in Nat /\ Top.hi <= Len(tokens) /\ pos <= Top.hi + 1
         /\ Top.res \in Nat /\ Top.pc \in PCs
         /\ Top.pc = "scopeEnd" => Top.close \in 1..Top.hi
         /\ Top.pc \in Reading => /\ pos \in 1..Top.hi /\ pos \in 1..Len(tokens)
                                  /\ Token \in TokenKinds
<1>1. Len(stack) \in Nat \ {0} /\ Len(tokens) \in Nat /\ Top \in FrameRecord
  BY EmptySeq, LenProperties, ElementOfSeq DEF StackInv, Top
<1>2. /\ Top.hi \in Nat /\ Top.hi <= Len(tokens) /\ pos <= Top.hi + 1
      /\ Top.pc = "scopeEnd" => Top.close \in 1..Top.hi
      /\ Top.pc \in Reading => pos <= Top.hi
  BY <1>1, FrameFields DEF StackInv, Nested, Within, Top
<1>3. Top.pc \in Reading => pos \in 1..Top.hi /\ pos \in 1..Len(tokens)
  BY <1>1, <1>2 DEF StackInv
<1>4. Top.pc \in Reading => Token \in TokenKinds
  BY <1>3, ElementOfSeq DEF StackInv, Token
<1> QED
  BY <1>1, <1>2, <1>3, <1>4, FrameFields

\* Continue.
LEMMA ContinueInv ==
  ASSUME StackInv, stack # <<>>, UNCHANGED tokens,
         NEW f, Replaces(f, stack), NEW p \in Nat \ {0}, p <= Top.hi + 1,
         f.pc \in Reading => p <= Top.hi,
         Continue(f, p)
  PROVE  StackInv'
<1>1. Len(tokens) \in Nat /\ Nested(stack, Len(tokens)) /\ f.hi = Top.hi
  BY TopFacts DEF StackInv, Replaces, Top
<1>2. /\ stack' \in Seq(FrameRecord) /\ Len(stack') = Len(stack)
      /\ stack'[Len(stack)] = f /\ Nested(stack', Len(tokens))
  BY <1>1, ContinueNested DEF StackInv, Continue
<1>3. Within(stack', p)
  BY <1>1, <1>2 DEF Within
<1> QED
  BY <1>2, <1>3 DEF StackInv, Continue, Nothing, NULL, Nested

\* Call.
LEMMA CallInv ==
  ASSUME StackInv, stack # <<>>, UNCHANGED tokens,
         NEW f, Replaces(f, stack), f.pc \in Waiting,
         NEW p \in Nat \ {0}, p <= Top.hi,
         Call(f, p)
  PROVE  StackInv'
<1> DEFINE g == Frame("start", f.pc = "item", NULL, f.hi)
<1>1. Len(tokens) \in Nat /\ Nested(stack, Len(tokens)) /\ f.hi = Top.hi /\ f.hi \in Nat
  BY TopFacts DEF StackInv, Replaces, Top
<1>2. g \in FrameRecord /\ g.hi = f.hi /\ g.pc = "start"
  BY <1>1 DEF Frame, FrameRecord, PCs, NULL
<1> HIDE DEF g
<1>3. stack' = Append([stack EXCEPT ![Len(stack)] = f], g)
  BY DEF Call, g
<1>4. /\ stack' \in Seq(FrameRecord) /\ stack' # <<>> /\ stack'[Len(stack')] = g
      /\ Nested(stack', Len(tokens))
  <2>1. g.hi <= f.hi /\ g.pc # "scopeEnd"
    BY <1>1, <1>2
  <2>2. LET t == Append([stack EXCEPT ![Len(stack)] = f], g)
        IN  /\ t \in Seq(FrameRecord) /\ t # <<>> /\ t[Len(t)] = g
            /\ Nested(t, Len(tokens))
    BY <1>1, <1>2, <2>1, CallNested DEF StackInv
  <2> QED
    BY <1>3, <2>2
<1>5. Within(stack', p)
  BY <1>1, <1>2, <1>4 DEF Within
<1> QED
  BY <1>4, <1>5 DEF StackInv, Call, Nothing, NULL, Nested

\* Return.
LEMMA ReturnInv ==
  ASSUME StackInv, stack # <<>>, UNCHANGED tokens,
         NEW e \in Nat, NEW p \in Nat \ {0}, p <= Top.hi + 1,
         Return(e, p)
  PROVE  StackInv'
<1>1. Len(tokens) \in Nat /\ Nested(stack, Len(tokens))
  BY TopFacts DEF StackInv
<1>2. /\ stack' \in Seq(FrameRecord) /\ Nested(stack', Len(tokens))
      /\ Within(stack', p)
  BY <1>1, PopNested DEF StackInv, Return, Pop, Top
<1> QED
  BY <1>2 DEF StackInv, Return, Nested

\* Calls of process_operation or of destructors.
LEMMA CallsTyped ==
  ASSUME NEW fn \in {"process_operation", "destroy"}, NEW ns \in Seq(Nat)
  PROVE  Calls(fn, ns) \in Seq(CallRecord)
<1>1. Len(ns) \in Nat /\ DOMAIN ns = 1..Len(ns) /\ \A j \in 1..Len(ns) : ns[j] \in Nat
  BY LenProperties, ElementOfSeq
<1>2. Calls(fn, ns) \in [1..Len(ns) -> CallRecord]
  BY <1>1 DEF Calls, CallRecord
<1> QED
  BY <1>1, <1>2, SeqDef

\* A list of one node.
LEMMA OneNode == \A r \in Nat : <<r>> \in Seq(Nat)
OBVIOUS

\* Fail and FailAgain.
LEMMA FailInv ==
  ASSUME StackInv, stack # <<>>, UNCHANGED tokens,
         NEW r \in Nat, Fail(r) \/ FailAgain(r)
  PROVE  StackInv'
<1>1. Len(tokens) \in Nat /\ Nested(stack, Len(tokens)) /\ pos <= Top.hi + 1
  BY TopFacts DEF StackInv
<1>2. stack' = Pop /\ pos' = pos /\ calls' = Calls("destroy", <<r>>)
      /\ ret' = [expr |-> NULL, error |-> TRUE] /\ fault' = fault
      /\ messages' \in {messages, messages + 1}
  BY DEF Fail, FailAgain, Abort
<1>3. /\ stack' \in Seq(FrameRecord) /\ Nested(stack', Len(tokens))
      /\ Within(stack', pos)
  BY <1>1, <1>2, PopNested DEF StackInv, Pop, Top
<1>4. calls' \in Seq(CallRecord)
  BY <1>2, OneNode, CallsTyped
<1> QED
  BY <1>2, <1>3, <1>4 DEF StackInv, NULL, Nested, Within

\* Crash.
LEMMA CrashInv ==
  ASSUME StackInv, UNCHANGED tokens, NEW site \in Faults, Crash(site)
  PROVE  StackInv'
BY DEF StackInv, Crash, Nested, Within

-----------------------------------------------------------------------------
(* The actions.                                                            *)

\* What an action of the call on top starts from.
LEMMA AtFacts ==
  ASSUME IInv, NEW pc, At(pc)
  PROVE  /\ stack # <<>> /\ Top.pc = pc /\ UNCHANGED <<tokens, phase>>
         /\ Top \in FrameRecord /\ Top.hi \in Nat /\ Top.res \in Nat
         /\ pos \in Nat \ {0} /\ pos <= Top.hi + 1
         /\ ret.expr \in Nat /\ ret.error \in BOOLEAN
         /\ pc = "scopeEnd" => Top.close \in 1..Top.hi
         /\ pc \in Reading => /\ pos \in 1..Top.hi /\ Token \in TokenKinds
                              /\ ptr[pos] \in Int
         /\ pc \in Reading /\ ~LastToken => pos + 1 <= Top.hi /\ ptr[pos + 1] \in Int
<1>1. StackInv /\ stack # <<>> /\ Top.pc = pc /\ UNCHANGED <<tokens, phase>>
  BY DEF At, IInv
<1>2. /\ Len(stack) \in Nat \ {0} /\ Top \in FrameRecord /\ Len(tokens) \in Nat
      /\ Top.hi \in Nat /\ Top.hi <= Len(tokens) /\ pos <= Top.hi + 1
      /\ Top.res \in Nat /\ Top.pc \in PCs
      /\ Top.pc = "scopeEnd" => Top.close \in 1..Top.hi
      /\ Top.pc \in Reading => /\ pos \in 1..Top.hi /\ pos \in 1..Len(tokens)
                               /\ Token \in TokenKinds
  BY <1>1, TopFacts
<1>3. pos \in Nat \ {0} /\ ret.expr \in Nat /\ ret.error \in BOOLEAN
  BY <1>1 DEF StackInv
<1>4. pc \in Reading => ptr[pos] \in Int
  BY <1>1, <1>2 DEF IInv, PtrInv
<1>5. pc \in Reading /\ ~LastToken => pos + 1 <= Top.hi /\ ptr[pos + 1] \in Int
  <2>1. pc \in Reading /\ ~LastToken => pos + 1 <= Top.hi /\ pos + 1 \in 1..Len(tokens)
    BY <1>1, <1>2, <1>3 DEF LastToken
  <2> QED
    BY <2>1 DEF IInv, PtrInv
<1> QED
  BY <1>1, <1>2, <1>3, <1>4, <1>5

\* A frame that differs from the one on top in its pc and result only.
LEMMA SameList ==
  ASSUME NEW f \in FrameRecord, NEW pc \in PCs, pc # "scopeEnd", NEW r \in Nat,
         stack # <<>>, Top = f
  PROVE  /\ Replaces([f EXCEPT !.pc = pc], stack) /\ [f EXCEPT !.pc = pc].pc = pc
         /\ Replaces([f EXCEPT !.pc = pc, !.res = r], stack)
         /\ [f EXCEPT !.pc = pc, !.res = r].pc = pc
BY DEF Replaces, FrameRecord, Top

\* What leaves the heap alone keeps it typed.
LEMMA HeapSame ==
  ASSUME IInv, UNCHANGED <<tokens, heap>>
  PROVE  PtrInv' /\ NodeInv'
BY DEF IInv, PtrInv, NodeInv, NodesTyped, heap

\* What leaves the nodes alone keeps them typed.
LEMMA NodesSame ==
  ASSUME IInv, UNCHANGED <<nodes, nextId>>
  PROVE  NodeInv'
BY DEF IInv, NodeInv, NodesTyped

\* What leaves the strings alone keeps the pointers typed.
LEMMA PtrSame ==
  ASSUME IInv, UNCHANGED <<tokens, ptr, strings>>
  PROVE  PtrInv'
BY DEF IInv, PtrInv

\* Taking pointers from tokens keeps the pointers typed.
LEMMA StealInv ==
  ASSUME IInv, UNCHANGED tokens, NEW S, Steal(S)
  PROVE  PtrInv'
BY DEF IInv, PtrInv, Steal, NULL

\* New.
LEMMA NewInv ==
  ASSUME IInv, NEW ns, NodesTyped(ns), NEW rec \in NodeRecord, New(ns, rec)
  PROVE  NodeInv'
<1>1. nodes' = With(ns, nextId, rec) /\ nextId \in Nat \ {NULL} /\ nextId' = nextId + 1
  BY DEF New, IInv, NodeInv
<1>2. NodesTyped(nodes')
  BY <1>1, WithTyped
<1> QED
  BY <1>1, <1>2 DEF NodeInv, NodesTyped, NULL

\* The names of the sets of program points.
LEMMA Points ==
  /\ {"start", "declName", "declMark", "declType", "declAssign", "next",
      "funcName", "funcArgs", "scope"} = Reading
  /\ {"item", "declValue", "paren", "operand", "scopeEnd"} = Waiting
  /\ Reading \subseteq PCs /\ Waiting \subseteq PCs /\ "loop" \in PCs
  /\ \A pc \in Waiting : pc \notin Reading
  /\ "loop" \notin Reading /\ "settle" \notin Reading /\ "settle" \in PCs
  /\ \A pc \in Reading : pc # "scopeEnd"
BY DEF Reading, Waiting, PCs

\* Going on at a point that reads the token under the cursor.
LEMMA GoOnInv ==
  ASSUME StackInv, stack # <<>>, UNCHANGED tokens,
         NEW pc \in Reading, NEW r \in Nat, NEW p \in Nat \ {0}, p <= Top.hi,
         \/ Continue([Top EXCEPT !.pc = pc], p)
         \/ Continue([Top EXCEPT !.pc = pc, !.res = r], p)
  PROVE  StackInv'
<1>1. /\ pc \in PCs /\ pc # "scopeEnd" /\ Top \in FrameRecord
      /\ Top.hi \in Nat /\ p <= Top.hi + 1
  BY Points, TopFacts
<1>2. /\ Replaces([Top EXCEPT !.pc = pc], stack)
      /\ Replaces([Top EXCEPT !.pc = pc, !.res = r], stack)
  BY <1>1, SameList
<1> QED
  BY <1>1, <1>2, ContinueInv

\* A call from a point that waits, other than that of a scope.
LEMMA CallOnInv ==
  ASSUME StackInv, stack # <<>>, UNCHANGED tokens,
         NEW pc \in Waiting, pc # "scopeEnd", NEW r \in Nat,
         NEW p \in Nat \ {0}, p <= Top.hi,
         \/ Call([Top EXCEPT !.pc = pc], p)
         \/ Call([Top EXCEPT !.pc = pc, !.res = r], p)
  PROVE  StackInv'
<1>1. pc \in PCs /\ Top \in FrameRecord
  BY Points, TopFacts
<1>2. /\ Replaces([Top EXCEPT !.pc = pc], stack) /\ [Top EXCEPT !.pc = pc].pc = pc
      /\ Replaces([Top EXCEPT !.pc = pc, !.res = r], stack)
      /\ [Top EXCEPT !.pc = pc, !.res = r].pc = pc
  BY <1>1, SameList
<1>3. CASE Call([Top EXCEPT !.pc = pc], p)
  BY <1>2, <1>3, CallInv
<1>4. CASE Call([Top EXCEPT !.pc = pc, !.res = r], p)
  BY <1>2, <1>4, CallInv
<1> QED
  BY <1>3, <1>4

\* DeclStart.
LEMMA DeclStartInv == IInv /\ DeclStart => IInv'
<1> SUFFICES ASSUME IInv, DeclStart PROVE IInv'
  OBVIOUS
<1>0. StackInv /\ At("start") /\ nextId \in Nat /\ NodesTyped(nodes)
  BY DEF DeclStart, IInv, NodeInv
<1>1. /\ stack # <<>> /\ UNCHANGED <<tokens, phase>> /\ Top \in FrameRecord
      /\ pos \in Nat \ {0} /\ (~LastToken => pos + 1 <= Top.hi)
  BY <1>0, AtFacts, Points
<1>2. CASE ~Top.kw \/ LastToken
  <2>1. Fail(NULL) /\ UNCHANGED heap
    BY <1>2 DEF DeclStart
  <2> QED
    BY <1>0, <1>1, <2>1, FailInv, HeapSame DEF IInv, NULL
<1>3. CASE ~(~Top.kw \/ LastToken)
  <2>1. /\ New(nodes, Node("decl", pos, {}))
        /\ Continue([Top EXCEPT !.pc = "declName", !.res = nextId], pos + 1)
        /\ UNCHANGED <<ptr, strings>>
    BY <1>3 DEF DeclStart
  <2>2. Node("decl", pos, {}) \in NodeRecord
    BY <1>1, NodeTyped DEF NodeTypes
  <2>3. NodeInv' /\ PtrInv'
    BY <1>0, <1>1, <2>1, <2>2, NewInv, PtrSame
  <2>4. "declName" \in Reading /\ pos + 1 \in Nat \ {0} /\ pos + 1 <= Top.hi
    BY <1>1, <1>3 DEF Reading
  <2>5. StackInv'
    BY <1>0, <1>1, <2>1, <2>4, GoOnInv
  <2> QED
    BY <1>1, <2>3, <2>5 DEF IInv
<1> QED
  BY <1>2, <1>3

\* DeclName.
LEMMA DeclNameInv == IInv /\ DeclName => IInv'
<1> SUFFICES ASSUME IInv, DeclName PROVE IInv'
  OBVIOUS
<1>0. StackInv /\ At("declName") /\ nextId \in Nat /\ NodesTyped(nodes)
  BY DEF DeclName, IInv, NodeInv
<1>1. /\ stack # <<>> /\ UNCHANGED <<tokens, phase>> /\ Top.res \in Nat
      /\ pos \in Nat \ {0} /\ ptr[pos] \in Int /\ (~LastToken => pos + 1 <= Top.hi)
  BY <1>0, AtFacts, Points
<1>2. CASE Token \notin Identifiers
  <2>1. UNCHANGED heap /\ (Crash("name_printed") \/ Fail(Top.res))
    BY <1>2 DEF DeclName
  <2>2. StackInv'
    BY <1>0, <1>1, <2>1, FailInv, CrashInv DEF Faults
  <2> QED
    BY <1>1, <2>1, <2>2, HeapSame DEF IInv
<1>3. CASE Token \in Identifiers
  <2>1. /\ New([nodes EXCEPT ![Top.res].left = nextId], Node("string", pos, {ptr[pos]}))
        /\ Steal({pos})
        /\ \/ Fail(Top.res)
           \/ ~LastToken /\ Continue([Top EXCEPT !.pc = "declMark"], pos + 1)
    BY <1>3 DEF DeclName
  <2>2. Node("string", pos, {ptr[pos]}) \in NodeRecord
    BY <1>1, NodeTyped DEF NodeTypes
  <2>3. NodesTyped([nodes EXCEPT ![Top.res].left = nextId])
    BY <1>0, UpdateTyped
  <2>4. PtrInv' /\ NodeInv'
    BY <1>1, <2>1, <2>2, <2>3, NewInv, StealInv
  <2>5. StackInv'
    <3>1. CASE Fail(Top.res)
      BY <1>0, <1>1, <3>1, FailInv
    <3>2. CASE ~LastToken /\ Continue([Top EXCEPT !.pc = "declMark"], pos + 1)
      <4>1. "declMark" \in Reading /\ pos + 1 \in Nat \ {0} /\ pos + 1 <= Top.hi
        BY <1>1, <3>2 DEF Reading
      <4> QED
        BY <1>0, <1>1, <3>2, <4>1, GoOnInv
    <3> QED
      BY <2>1, <3>1, <3>2
  <2> QED
    BY <1>1, <2>4, <2>5 DEF IInv
<1> QED
  BY <1>2, <1>3

\* DeclMark.
LEMMA DeclMarkInv == IInv /\ DeclMark => IInv'
<1> SUFFICES ASSUME IInv, DeclMark PROVE IInv'
  OBVIOUS
<1>0. StackInv /\ At("declMark") /\ UNCHANGED heap
  BY DEF DeclMark, IInv
<1>1. /\ stack # <<>> /\ UNCHANGED <<tokens, phase>> /\ Top.res \in Nat
      /\ pos \in Nat \ {0} /\ pos <= Top.hi /\ (~LastToken => pos + 1 <= Top.hi)
  BY <1>0, AtFacts, Points
<1>2. \/ Fail(Top.res)
      \/ ~LastToken /\ Continue([Top EXCEPT !.pc = "declType"], pos + 1)
      \/ Continue([Top EXCEPT !.pc = "declAssign"], pos)
  BY DEF DeclMark
<1>3. {"declType", "declAssign"} \subseteq Reading /\ pos + 1 \in Nat \ {0}
  BY <1>1 DEF Reading
<1>4. StackInv'
  <2>1. CASE Fail(Top.res)
    BY <1>0, <1>1, <2>1, FailInv
  <2>2. CASE ~LastToken /\ Continue([Top EXCEPT !.pc = "declType"], pos + 1)
    BY <1>0, <1>1, <1>3, <2>2, GoOnInv
  <2>3. CASE Continue([Top EXCEPT !.pc = "declAssign"], pos)
    BY <1>0, <1>1, <1>3, <2>3, GoOnInv
  <2> QED
    BY <1>2, <2>1, <2>2, <2>3
<1> QED
  BY <1>0, <1>1, <1>4, HeapSame DEF IInv

\* DeclType.
LEMMA DeclTypeInv == IInv /\ DeclType => IInv'
<1> SUFFICES ASSUME IInv, DeclType PROVE IInv'
  OBVIOUS
<1>0. StackInv /\ At("declType") /\ NodesTyped(nodes) /\ nextId \in Nat \ {NULL}
  BY DEF DeclType, IInv, NodeInv
<1>1. /\ stack # <<>> /\ UNCHANGED <<tokens, phase>> /\ Top.res \in Nat
      /\ pos \in Nat \ {0} /\ pos <= Top.hi /\ (~LastToken => pos + 1 <= Top.hi)
      /\ Top.hi \in Nat /\ ptr[pos] \in Int
  BY <1>0, AtFacts, Points
<1>2. CASE Crash("type_read") /\ UNCHANGED heap
  BY <1>0, <1>1, <1>2, CrashInv, HeapSame DEF Faults, IInv
<1>3. CASE /\ nodes' = Give(Top.res, {ptr[pos]})
           /\ Steal({pos}) /\ UNCHANGED nextId
           /\ \/ Fail(Top.res)
              \/ Return(Top.res, pos + 1)
              \/ ~LastToken /\ Continue([Top EXCEPT !.pc = "declAssign"], pos + 1)
  <2>1. {ptr[pos]} \ {NULL} \in SUBSET Int
    BY <1>1
  <2>2. NodesTyped(nodes')
    BY <1>0, <1>3, <2>1, UpdateTyped DEF Give
  <2>3. NodeInv' /\ PtrInv'
    BY <1>0, <1>1, <1>3, <2>2, StealInv DEF NodeInv, NodesTyped
  <2>4. "declAssign" \in Reading /\ pos + 1 \in Nat \ {0} /\ pos + 1 <= Top.hi + 1
    BY <1>1 DEF Reading
  <2>5. StackInv'
    <3>1. CASE Fail(Top.res)
      BY <1>0, <1>1, <3>1, FailInv
    <3>2. CASE Return(Top.res, pos + 1)
      BY <1>0, <1>1, <2>4, <3>2, ReturnInv
    <3>3. CASE ~LastToken /\ Continue([Top EXCEPT !.pc = "declAssign"], pos + 1)
      BY <1>0, <1>1, <2>4, <3>3, GoOnInv
    <3> QED
      BY <1>3, <3>1, <3>2, <3>3
  <2> QED
    BY <1>1, <2>3, <2>5 DEF IInv
<1> QED
  BY <1>2, <1>3 DEF DeclType

\* DeclAssign.
LEMMA DeclAssignInv == IInv /\ DeclAssign => IInv'
<1> SUFFICES ASSUME IInv, DeclAssign PROVE IInv'
  OBVIOUS
<1>0. StackInv /\ At("declAssign") /\ UNCHANGED heap
  BY DEF DeclAssign, IInv
<1>1. /\ stack # <<>> /\ UNCHANGED <<tokens, phase>> /\ Top.res \in Nat
      /\ pos \in Nat \ {0} /\ (~LastToken => pos + 1 <= Top.hi)
  BY <1>0, AtFacts, Points
<1>2. \/ Crash("assign_printed")
      \/ Fail(Top.res)
      \/ ~LastToken /\ Call([Top EXCEPT !.pc = "declValue"], pos + 1)
  BY DEF DeclAssign
<1>3. StackInv'
  <2>1. CASE Crash("assign_printed")
    BY <1>0, <1>1, <2>1, CrashInv DEF Faults
  <2>2. CASE Fail(Top.res)
    BY <1>0, <1>1, <2>2, FailInv
  <2>3. CASE ~LastToken /\ Call([Top EXCEPT !.pc = "declValue"], pos + 1)
    <3>1. "declValue" \in Waiting /\ pos + 1 \in Nat \ {0} /\ pos + 1 <= Top.hi
      BY <1>1, <2>3 DEF Waiting
    <3> QED
      BY <1>0, <1>1, <2>3, <3>1, CallOnInv
  <2> QED
    BY <1>2, <2>1, <2>2, <2>3
<1> QED
  BY <1>0, <1>1, <1>3, HeapSame DEF IInv

\* DeclValue.
LEMMA DeclValueInv == IInv /\ DeclValue => IInv'
<1> SUFFICES ASSUME IInv, DeclValue PROVE IInv'
  OBVIOUS
<1>0. /\ StackInv /\ At("declValue") /\ NodesTyped(nodes) /\ nextId \in Nat \ {NULL}
      /\ nodes' = [nodes EXCEPT ![Top.res].right = ret.expr]
      /\ UNCHANGED <<ptr, strings, nextId>>
      /\ FailAgain(Top.res) \/ Fail(Top.res) \/ Return(Top.res, pos)
  BY DEF DeclValue, IInv, NodeInv
<1>1. /\ stack # <<>> /\ UNCHANGED <<tokens, phase>> /\ Top.res \in Nat
      /\ pos \in Nat \ {0} /\ pos <= Top.hi + 1 /\ ret.expr \in Nat
  BY <1>0, AtFacts
<1>2. NodesTyped(nodes')
  BY <1>0, <1>1, UpdateTyped
<1>3. StackInv'
  BY <1>0, <1>1, FailInv, ReturnInv
<1> QED
  BY <1>0, <1>1, <1>2, <1>3, PtrSame DEF IInv, NodeInv, NodesTyped

\* ThenNext.
LEMMA ThenNextInv ==
  ASSUME StackInv, stack # <<>>, UNCHANGED tokens,
         NEW r \in Nat, NEW p \in Nat \ {0}, p <= Top.hi + 1, ThenNext(r, p)
  PROVE  StackInv'
<1>1. Top.hi \in Nat /\ "next" \in Reading
  BY TopFacts DEF Reading
<1>2. CASE p > Top.hi
  BY <1>2, ReturnInv DEF ThenNext
<1>3. CASE ~(p > Top.hi)
  <2>1. p <= Top.hi /\ Continue([Top EXCEPT !.pc = "next", !.res = r], p)
    BY <1>1, <1>3 DEF ThenNext
  <2> QED
    BY <1>1, <2>1, GoOnInv
<1> QED
  BY <1>2, <1>3

\* SkipToken.
LEMMA SkipTokenInv == IInv /\ SkipToken => IInv'
<1> SUFFICES ASSUME IInv, SkipToken PROVE IInv'
  OBVIOUS
<1>0. StackInv /\ At("start") /\ UNCHANGED heap /\ Return(NULL, pos + 1)
  BY DEF SkipToken, IInv
<1>1. /\ stack # <<>> /\ UNCHANGED <<tokens, phase>> /\ Top.hi \in Nat
      /\ pos \in Nat \ {0} /\ pos <= Top.hi
  BY <1>0, AtFacts, Points
<1>2. pos + 1 \in Nat \ {0} /\ pos + 1 <= Top.hi + 1 /\ NULL \in Nat
  BY <1>1 DEF NULL
<1>3. StackInv'
  BY <1>0, <1>1, <1>2, ReturnInv
<1> QED
  BY <1>0, <1>1, <1>3, HeapSame DEF IInv

\* RejectToken.
LEMMA RejectTokenInv == IInv /\ RejectToken => IInv'
<1> SUFFICES ASSUME IInv, RejectToken PROVE IInv'
  OBVIOUS
<1>0. StackInv /\ At("start") /\ UNCHANGED heap /\ Fail(NULL)
  BY DEF RejectToken, IInv
<1>1. stack # <<>> /\ UNCHANGED <<tokens, phase>> /\ NULL \in Nat
  BY <1>0, AtFacts DEF NULL
<1>2. StackInv'
  BY <1>0, <1>1, FailInv
<1> QED
  BY <1>0, <1>1, <1>2, HeapSame DEF IInv

\* Variable.
LEMMA VariableInv == IInv /\ Variable => IInv'
<1> SUFFICES ASSUME IInv, Variable PROVE IInv'
  OBVIOUS
<1>0. /\ StackInv /\ At("start") /\ NodesTyped(nodes) /\ nextId \in Nat
      /\ New(nodes, Node("var", pos, {ptr[pos]})) /\ Steal({pos})
      /\ \/ Return(nextId, pos + 1)
         \/ ~LastToken /\ Continue([Top EXCEPT !.pc = "next", !.res = nextId], pos + 1)
         \/ Fail(nextId)
  BY DEF Variable, Follows, IInv, NodeInv
<1>1. /\ stack # <<>> /\ UNCHANGED <<tokens, phase>> /\ Top.hi \in Nat
      /\ pos \in Nat \ {0} /\ pos <= Top.hi /\ (~LastToken => pos + 1 <= Top.hi)
      /\ ptr[pos] \in Int
  BY <1>0, AtFacts, Points
<1>2. /\ Node("var", pos, {ptr[pos]}) \in NodeRecord /\ "next" \in Reading
      /\ pos + 1 \in Nat \ {0} /\ pos + 1 <= Top.hi + 1
  BY <1>1, NodeTyped DEF NodeTypes, Reading
<1>3. PtrInv' /\ NodeInv'
  BY <1>0, <1>1, <1>2, NewInv, StealInv
<1>4. StackInv'
  <2>1. CASE Return(nextId, pos + 1)
    BY <1>0, <1>1, <1>2, <2>1, ReturnInv
  <2>2. CASE ~LastToken /\ Continue([Top EXCEPT !.pc = "next", !.res = nextId], pos + 1)
    BY <1>0, <1>1, <1>2, <2>2, GoOnInv
  <2>3. CASE Fail(nextId)
    BY <1>0, <1>1, <2>3, FailInv
  <2> QED
    BY <1>0, <2>1, <2>2, <2>3
<1> QED
  BY <1>1, <1>3, <1>4 DEF IInv

\* Literal.
LEMMA LiteralInv == IInv /\ Literal => IInv'
<1> SUFFICES ASSUME IInv, Literal PROVE IInv'
  OBVIOUS
<1> DEFINE own == IF Token = "string" THEN {ptr[pos]} ELSE {}
<1>0. /\ StackInv /\ At("start") /\ NodesTyped(nodes) /\ nextId \in Nat
      /\ New(nodes, Node(Token, pos, own)) /\ Token \in {"string", "num"}
      /\ Steal(IF Token = "string" THEN {pos} ELSE {})
      /\ ThenNext(nextId, pos + 1)
  BY DEF Literal, IInv, NodeInv
<1>1. /\ stack # <<>> /\ UNCHANGED <<tokens, phase>> /\ Top.hi \in Nat
      /\ pos \in Nat \ {0} /\ pos <= Top.hi /\ ptr[pos] \in Int
  BY <1>0, AtFacts, Points
<1>2. own \in SUBSET Int /\ Token \in NodeTypes
  BY <1>0, <1>1 DEF NodeTypes
<1> HIDE DEF own
<1>3. Node(Token, pos, own) \in NodeRecord
  BY <1>1, <1>2, NodeTyped
<1>4. PtrInv' /\ NodeInv'
  BY <1>0, <1>1, <1>3, NewInv, StealInv
<1>5. pos + 1 \in Nat \ {0} /\ pos + 1 <= Top.hi + 1
  BY <1>1
<1>6. StackInv'
  BY <1>0, <1>1, <1>5, ThenNextInv
<1> QED
  BY <1>1, <1>4, <1>6 DEF IInv

\* ParenOpen.
LEMMA ParenOpenInv == IInv /\ ParenOpen => IInv'
<1> SUFFICES ASSUME IInv, ParenOpen PROVE IInv'
  OBVIOUS
<1> DEFINE q == NextToken(pos + 1, Top.hi)
<1>0. StackInv /\ At("start") /\ UNCHANGED heap
  BY DEF ParenOpen, IInv
<1>1. /\ stack # <<>> /\ UNCHANGED <<tokens, phase>> /\ Top.hi \in Nat
      /\ pos \in Nat \ {0} /\ pos <= Top.hi
  BY <1>0, AtFacts, Points
<1>2. q \in pos + 1..Top.hi + 1
  <2>1. pos + 1 \in Nat /\ pos + 1 <= Top.hi + 1
    BY <1>1
  <2> QED
    BY <1>1, <2>1, NextTokenInWindow
<1>3. \/ Fail(NULL)
      \/ q <= Top.hi /\ ThenNext(NULL, q + 1)
      \/ q <= Top.hi /\ Call([Top EXCEPT !.pc = "paren"], q)
  BY <1>1, <1>2 DEF ParenOpen
<1> HIDE DEF q
<1>4. /\ q \in Nat \ {0} /\ q + 1 \in Nat \ {0} /\ NULL \in Nat
      /\ q <= Top.hi => q + 1 <= Top.hi + 1
      /\ "paren" \in Waiting /\ "paren" # "scopeEnd"
  BY <1>1, <1>2 DEF NULL, Waiting
<1>5. StackInv'
  <2>1. CASE Fail(NULL)
    BY <1>0, <1>1, <1>4, <2>1, FailInv
  <2>2. CASE q <= Top.hi /\ ThenNext(NULL, q + 1)
    BY <1>0, <1>1, <1>4, <2>2, ThenNextInv
  <2>3. CASE q <= Top.hi /\ Call([Top EXCEPT !.pc = "paren"], q)
    BY <1>0, <1>1, <1>4, <2>3, CallOnInv
  <2> QED
    BY <1>3, <2>1, <2>2, <2>3
<1> QED
  BY <1>0, <1>1, <1>5, HeapSame DEF IInv

\* ParenClose.
LEMMA ParenCloseInv == IInv /\ ParenClose => IInv'
<1> SUFFICES ASSUME IInv, ParenClose PROVE IInv'
  OBVIOUS
<1> DEFINE q == NextToken(pos, Top.hi)
           w == nodes[ret.expr].type = "oper"
<1>0. /\ StackInv /\ At("paren") /\ NodesTyped(nodes)
      /\ UNCHANGED <<ptr, strings, nextId>> /\ nextId \in Nat \ {NULL}
  BY DEF ParenClose, IInv, NodeInv
<1>1. /\ stack # <<>> /\ UNCHANGED <<tokens, phase>> /\ Top.hi \in Nat
      /\ pos \in Nat \ {0} /\ pos <= Top.hi + 1 /\ ret.expr \in Nat /\ NULL \in Nat
  BY <1>0, AtFacts DEF NULL
<1>2. q \in pos..Top.hi + 1
  BY <1>1, NextTokenInWindow
<1>3. /\ UNCHANGED nodes \/ nodes' = [nodes EXCEPT ![ret.expr].wrapped = w]
      /\ \/ FailAgain(NULL)
         \/ Crash("paren_value")
         \/ Crash("paren_close")
         \/ Fail(ret.expr)
         \/ q <= Top.hi /\ ThenNext(ret.expr, q + 1)
  BY <1>1, <1>2 DEF ParenClose
<1>4. w \in BOOLEAN
  OBVIOUS
<1> HIDE DEF q, w
<1>5. q + 1 \in Nat \ {0} /\ (q <= Top.hi => q + 1 <= Top.hi + 1)
  BY <1>1, <1>2
<1>6. NodesTyped(nodes')
  <2>1. NodesTyped([nodes EXCEPT ![ret.expr].wrapped = w])
    BY <1>0, <1>4, UpdateTyped
  <2> QED
    BY <1>0, <1>3, <2>1 DEF NodesTyped
<1>7. StackInv'
  <2>1. CASE FailAgain(NULL) \/ Fail(ret.expr)
    BY <1>0, <1>1, <2>1, FailInv
  <2>2. CASE Crash("paren_value") \/ Crash("paren_close")
    BY <1>0, <1>1, <2>2, CrashInv DEF Faults
  <2>3. CASE q <= Top.hi /\ ThenNext(ret.expr, q + 1)
    BY <1>0, <1>1, <1>5, <2>3, ThenNextInv
  <2> QED
    BY <1>3, <2>1, <2>2, <2>3
<1> QED
  BY <1>0, <1>1, <1>6, <1>7, PtrSame DEF IInv, NodeInv, NodesTyped

\* NextLabel.
LEMMA NextLabelInv == IInv /\ NextLabel => IInv'
<1> SUFFICES ASSUME IInv, NextLabel PROVE IInv'
  OBVIOUS
<1> DEFINE q == NextToken(pos + 1, Top.hi)
           rec == [Node("oper", pos, {}) EXCEPT !.op = Token, !.left = Top.res]
<1>0. StackInv /\ At("next") /\ NodesTyped(nodes) /\ nextId \in Nat
  BY DEF NextLabel, IInv, NodeInv
<1>1. /\ stack # <<>> /\ UNCHANGED <<tokens, phase>> /\ Top.hi \in Nat /\ Top.res \in Nat
      /\ pos \in Nat \ {0} /\ pos <= Top.hi /\ pos <= Top.hi + 1
  BY <1>0, AtFacts, Points
<1>2. q \in pos + 1..Top.hi + 1
  <2>1. pos + 1 \in Nat /\ pos + 1 <= Top.hi + 1
    BY <1>1
  <2> QED
    BY <1>1, <2>1, NextTokenInWindow
<1>3. CASE Return(Top.res, pos) /\ UNCHANGED heap
  BY <1>0, <1>1, <1>3, ReturnInv, HeapSame DEF IInv
<1>4. CASE /\ Token \in Operators /\ New(nodes, rec) /\ UNCHANGED <<ptr, strings>>
           /\ \/ Fail(nextId)
              \/ q <= Top.hi /\ Call([Top EXCEPT !.pc = "operand", !.res = nextId], q)
  <2>1. rec \in NodeRecord
    <3>1. Node("oper", pos, {}) \in NodeRecord
      BY <1>1, NodeTyped DEF NodeTypes
    <3> QED
      BY <1>1, <1>4, <3>1 DEF NodeRecord
  <2> HIDE DEF rec, q
  <2>2. PtrInv' /\ NodeInv'
    BY <1>0, <1>1, <1>4, <2>1, NewInv, PtrSame
  <2>3. "operand" \in Waiting /\ "operand" # "scopeEnd" /\ q \in Nat \ {0}
    BY <1>1, <1>2 DEF Waiting
  <2>4. StackInv'
    <3>1. CASE Fail(nextId)
      BY <1>0, <1>1, <3>1, FailInv
    <3>2. CASE q <= Top.hi /\ Call([Top EXCEPT !.pc = "operand", !.res = nextId], q)
      BY <1>0, <1>1, <2>3, <3>2, CallOnInv
    <3> QED
      BY <1>4, <3>1, <3>2
  <2> QED
    BY <1>1, <2>2, <2>4 DEF IInv
<1> QED
  <2>1. \/ Return(Top.res, pos) /\ UNCHANGED heap
        \/ /\ Token \in Operators /\ New(nodes, rec) /\ UNCHANGED <<ptr, strings>>
           /\ \/ Fail(nextId)
              \/ q <= Top.hi /\ Call([Top EXCEPT !.pc = "operand", !.res = nextId], q)
    BY <1>1, <1>2 DEF NextLabel
  <2> QED
    BY <2>1, <1>3, <1>4

\* Operand.
LEMMA OperandInv == IInv /\ Operand => IInv'
<1> SUFFICES ASSUME IInv, Operand PROVE IInv'
  OBVIOUS
<1>0. /\ StackInv /\ At("operand") /\ NodesTyped(nodes) /\ nextId \in Nat \ {NULL}
      /\ UNCHANGED <<ptr, strings, nextId>>
      /\ nodes' = [nodes EXCEPT ![Top.res].right = ret.expr]
  BY DEF Operand, IInv, NodeInv
<1>1. /\ stack # <<>> /\ UNCHANGED <<tokens, phase>> /\ Top.hi \in Nat /\ Top.res \in Nat
      /\ Top \in FrameRecord /\ pos <= Top.hi + 1 /\ ret.expr \in Nat
  BY <1>0, AtFacts
<1>2. NodesTyped(nodes')
  BY <1>0, <1>1, UpdateTyped
<1>3. CASE FailAgain(Top.res)
  BY <1>0, <1>1, <1>2, <1>3, FailInv, PtrSame DEF IInv, NodeInv, NodesTyped
<1>4. CASE /\ stack' = [stack EXCEPT ![Len(stack)].pc = "settle"]
           /\ calls' = Calls("process_operation", <<Top.res>>)
           /\ ret' = Nothing
           /\ UNCHANGED <<pos, messages, fault>>
  <2> DEFINE f == [Top EXCEPT !.pc = "settle"]
  <2>1. Replaces(f, stack) /\ f.pc = "settle" /\ f.hi = Top.hi
    BY <1>1, Points, SameList DEF Replaces, Top
  <2>2. stack' = [stack EXCEPT ![Len(stack)] = f]
    BY <1>4 DEF Top
  <2> HIDE DEF f
  <2>3. Nested(stack, Len(tokens)) /\ Len(tokens) \in Nat /\ stack \in Seq(FrameRecord)
    BY <1>0, <1>1, TopFacts DEF StackInv
  <2>4. /\ stack' \in Seq(FrameRecord) /\ Len(stack') = Len(stack)
        /\ stack'[Len(stack)] = f /\ Nested(stack', Len(tokens))
    BY <1>1, <2>1, <2>2, <2>3, ContinueNested
  <2>5. Within(stack', pos)
    BY <1>1, <2>1, <2>4, Points DEF Within
  <2>6. calls' \in Seq(CallRecord)
    BY <1>1, <1>4, OneNode, CallsTyped
  <2>7. StackInv'
    BY <1>0, <1>1, <1>4, <2>4, <2>5, <2>6 DEF StackInv, Nothing, NULL, Nested, Within
  <2> QED
    BY <1>0, <1>1, <1>2, <2>7, PtrSame DEF IInv, NodeInv, NodesTyped
<1> QED
  BY <1>3, <1>4 DEF Operand

\* Settle.
LEMMA SettleInv == IInv /\ Settle => IInv'
<1> SUFFICES ASSUME IInv, Settle PROVE IInv'
  OBVIOUS
<1>0. StackInv /\ At("settle") /\ UNCHANGED heap /\ Return(Top.res, pos)
  BY DEF Settle, IInv
<1>1. /\ stack # <<>> /\ UNCHANGED <<tokens, phase>> /\ Top.res \in Nat
      /\ pos \in Nat \ {0} /\ pos <= Top.hi + 1
  BY <1>0, AtFacts
<1>2. StackInv'
  BY <1>0, <1>1, ReturnInv
<1> QED
  BY <1>0, <1>1, <1>2, HeapSame DEF IInv

\* FuncStart.
LEMMA FuncStartInv == IInv /\ FuncStart => IInv'
<1> SUFFICES ASSUME IInv, FuncStart PROVE IInv'
  OBVIOUS
<1>0. StackInv /\ At("start") /\ nextId \in Nat /\ NodesTyped(nodes)
  BY DEF FuncStart, IInv, NodeInv
<1>1. /\ stack # <<>> /\ UNCHANGED <<tokens, phase>> /\ Top \in FrameRecord
      /\ pos \in Nat \ {0} /\ (~LastToken => pos + 1 <= Top.hi)
  BY <1>0, AtFacts, Points
<1>2. CASE LastToken
  <2>1. Fail(NULL) /\ UNCHANGED heap
    BY <1>2 DEF FuncStart
  <2> QED
    BY <1>0, <1>1, <2>1, FailInv, HeapSame DEF IInv, NULL
<1>3. CASE ~LastToken
  <2>1. /\ New(nodes, Node("func", pos, {}))
        /\ Continue([Top EXCEPT !.pc = "funcName", !.res = nextId], pos + 1)
        /\ UNCHANGED <<ptr, strings>>
    BY <1>3 DEF FuncStart
  <2>2. Node("func", pos, {}) \in NodeRecord
    BY <1>1, NodeTyped DEF NodeTypes
  <2>3. NodeInv' /\ PtrInv'
    BY <1>0, <1>1, <2>1, <2>2, NewInv, PtrSame
  <2>4. "funcName" \in Reading /\ pos + 1 \in Nat \ {0} /\ pos + 1 <= Top.hi
    BY <1>1, <1>3 DEF Reading
  <2>5. StackInv'
    BY <1>0, <1>1, <2>1, <2>4, GoOnInv
  <2> QED
    BY <1>1, <2>3, <2>5 DEF IInv
<1> QED
  BY <1>2, <1>3

\* FuncName.
LEMMA FuncNameInv == IInv /\ FuncName => IInv'
<1> SUFFICES ASSUME IInv, FuncName PROVE IInv'
  OBVIOUS
<1> DEFINE q == NextToken(pos + 2, Top.hi)
<1>0. /\ StackInv /\ At("funcName") /\ NodesTyped(nodes) /\ nextId \in Nat \ {NULL}
      /\ UNCHANGED nextId
  BY DEF FuncName, IInv, NodeInv
<1>1. /\ stack # <<>> /\ UNCHANGED <<tokens, phase>> /\ Top.hi \in Nat /\ Top.res \in Nat
      /\ pos \in Nat \ {0} /\ ptr[pos] \in Int /\ (~LastToken => pos + 1 <= Top.hi)
  BY <1>0, AtFacts, Points
<1>2. CASE Fail(Top.res) /\ UNCHANGED <<ptr, strings, nodes>>
  BY <1>0, <1>1, <1>2, FailInv, HeapSame DEF IInv, heap
<1>3. CASE /\ nodes' = Give(Top.res, {ptr[pos]}) /\ Steal({pos})
           /\ \/ Fail(Top.res)
              \/ /\ ~LastToken
                 /\ IF q > Top.hi THEN Crash("args_end")
                    ELSE Continue([Top EXCEPT !.pc = "funcArgs"], q)
  <2>1. {ptr[pos]} \ {NULL} \in SUBSET Int
    BY <1>1
  <2>2. NodesTyped(nodes')
    BY <1>0, <1>3, <2>1, UpdateTyped DEF Give
  <2>3. NodeInv' /\ PtrInv'
    BY <1>0, <1>1, <1>3, <2>2, StealInv DEF NodeInv, NodesTyped
  <2>4. ~LastToken => q \in pos + 2..Top.hi + 1
    <3>1. ~LastToken => pos + 2 \in Nat /\ pos + 2 <= Top.hi + 1
      BY <1>1
    <3> QED
      BY <1>1, <3>1, NextTokenInWindow
  <2> HIDE DEF q
  <2>5. StackInv'
    <3>1. CASE Fail(Top.res)
      BY <1>0, <1>1, <3>1, FailInv
    <3>2. CASE Crash("args_end")
      BY <1>0, <1>1, <3>2, CrashInv DEF Faults
    <3>3. CASE ~LastToken /\ ~(q > Top.hi) /\ Continue([Top EXCEPT !.pc = "funcArgs"], q)
      <4>1. "funcArgs" \in Reading /\ q \in Nat \ {0} /\ q <= Top.hi
        BY <1>1, <2>4, <3>3 DEF Reading
      <4> QED
        BY <1>0, <1>1, <3>3, <4>1, GoOnInv
    <3> QED
      BY <1>3, <3>1, <3>2, <3>3
  <2> QED
    BY <1>1, <2>3, <2>5 DEF IInv
<1> QED
  BY <1>2, <1>3 DEF FuncName, Follows

\* FuncArg.
LEMMA FuncArgInv == IInv /\ FuncArg => IInv'
<1> SUFFICES ASSUME IInv, FuncArg PROVE IInv'
  OBVIOUS
<1> DEFINE q == NextToken(pos + 2, Top.hi)
           taken == IF LastToken THEN {pos} ELSE {pos, pos + 1}
           own == {ptr[k] : k \in taken}
<1>0. /\ StackInv /\ At("funcArgs") /\ NodesTyped(nodes) /\ nextId \in Nat \ {NULL}
      /\ nextId \in Nat
  BY DEF FuncArg, IInv, NodeInv
<1>1. /\ stack # <<>> /\ UNCHANGED <<tokens, phase>> /\ Top.hi \in Nat /\ Top.res \in Nat
      /\ Top \in FrameRecord /\ Top.pc = "funcArgs"
      /\ pos \in Nat \ {0} /\ ptr[pos] \in Int
      /\ (~LastToken => pos + 1 <= Top.hi /\ ptr[pos + 1] \in Int)
  BY <1>0, AtFacts, Points
<1>2. CASE Fail(Top.res) /\ UNCHANGED heap
  BY <1>0, <1>1, <1>2, FailInv, HeapSame DEF IInv
<1>3. CASE /\ Steal(taken)
           /\ New([nodes EXCEPT ![Top.res].items = Append(@, nextId)],
                  Node("arg", pos, own))
           /\ \/ Fail(Top.res)
              \/ ~LastToken /\ q <= Top.hi /\ Continue(Top, q)
              \/ ~LastToken /\ q < Top.hi /\ Continue(Top, q + 1)
  <2>1. own \in SUBSET Int
    BY <1>1
  <2> HIDE DEF own
  <2>2. Node("arg", pos, own) \in NodeRecord
    BY <1>1, <2>1, NodeTyped DEF NodeTypes
  <2>3. NodesTyped([nodes EXCEPT ![Top.res].items = Append(@, nextId)])
    BY <1>0, UpdateTyped
  <2>4. PtrInv' /\ NodeInv'
    BY <1>0, <1>1, <1>3, <2>2, <2>3, NewInv, StealInv
  <2>5. ~LastToken => q \in pos + 2..Top.hi + 1
    <3>1. ~LastToken => pos + 2 \in Nat /\ pos + 2 <= Top.hi + 1
      BY <1>1
    <3> QED
      BY <1>1, <3>1, NextTokenInWindow
  <2> HIDE DEF q, taken
  <2>6. Top = [Top EXCEPT !.pc = "funcArgs"] /\ "funcArgs" \in Reading
    BY <1>1 DEF FrameRecord, Reading
  <2>7. StackInv'
    <3>1. CASE Fail(Top.res)
      BY <1>0, <1>1, <3>1, FailInv
    <3>2. CASE ~LastToken /\ q <= Top.hi /\ Continue(Top, q)
      <4>1. q \in Nat \ {0} /\ Continue([Top EXCEPT !.pc = "funcArgs"], q)
        BY <1>1, <2>5, <2>6, <3>2
      <4> QED
        BY <1>0, <1>1, <2>6, <3>2, <4>1, GoOnInv
    <3>3. CASE ~LastToken /\ q < Top.hi /\ Continue(Top, q + 1)
      <4>1. /\ q + 1 \in Nat \ {0} /\ q + 1 <= Top.hi
            /\ Continue([Top EXCEPT !.pc = "funcArgs"], q + 1)
        BY <1>1, <2>5, <2>6, <3>3
      <4> QED
        BY <1>0, <1>1, <2>6, <4>1, GoOnInv
    <3> QED
      BY <1>3, <3>1, <3>2, <3>3
  <2> QED
    BY <1>1, <2>4, <2>7 DEF IInv
<1> QED
  <2>1. ~LastToken => q \in pos + 2..Top.hi + 1
    <3>1. ~LastToken => pos + 2 \in Nat /\ pos + 2 <= Top.hi + 1
      BY <1>1
    <3> QED
      BY <1>1, <3>1, NextTokenInWindow
  <2>2. CASE Token \notin Identifiers \ Keywords
    BY <1>2, <2>2 DEF FuncArg
  <2>3. CASE Token \in Identifiers \ Keywords
    <3>1. /\ Steal(taken)
          /\ New([nodes EXCEPT ![Top.res].items = Append(@, nextId)],
                 Node("arg", pos, own))
          /\ IF LastToken THEN Fail(Top.res)
             ELSE IF q > Top.hi \/ (tokens[q] = "comma" /\ q = Top.hi) THEN Fail(Top.res)
             ELSE IF tokens[q] # "comma" THEN Continue(Top, q)
             ELSE IF tokens[q + 1] \in Identifiers THEN Continue(Top, q + 1)
             ELSE Fail(Top.res)
      BY <2>3 DEF FuncArg
    <3> HIDE DEF q, taken, own
    <3>2. \/ Fail(Top.res)
          \/ ~LastToken /\ q <= Top.hi /\ Continue(Top, q)
          \/ ~LastToken /\ q < Top.hi /\ Continue(Top, q + 1)
      BY <1>1, <2>1, <3>1
    <3> QED
      BY <1>3, <3>1, <3>2
  <2> QED
    BY <2>2, <2>3

\* FuncReturn.
LEMMA FuncReturnInv == IInv /\ FuncReturn => IInv'
<1> SUFFICES ASSUME IInv, FuncReturn PROVE IInv'
  OBVIOUS
<1>0. /\ StackInv /\ At("funcArgs") /\ NodesTyped(nodes) /\ nextId \in Nat \ {NULL}
      /\ UNCHANGED nextId
  BY DEF FuncReturn, IInv, NodeInv
<1>1. /\ stack # <<>> /\ UNCHANGED <<tokens, phase>> /\ Top.hi \in Nat /\ Top.res \in Nat
      /\ pos \in Nat \ {0}
      /\ (~LastToken => pos + 1 <= Top.hi /\ ptr[pos + 1] \in Int)
  BY <1>0, AtFacts, Points
<1>2. CASE Fail(Top.res) /\ UNCHANGED <<ptr, strings, nodes>>
  BY <1>0, <1>1, <1>2, FailInv, HeapSame DEF IInv, heap
<1>3. CASE /\ ~LastToken
           /\ nodes' = Give(Top.res, {ptr[pos + 1]}) /\ Steal({pos + 1})
           /\ \/ Fail(Top.res)
              \/ pos + 1 # Top.hi /\ Return(Top.res, pos + 2)
              \/ pos + 1 # Top.hi /\ Continue([Top EXCEPT !.pc = "scope"], pos + 2)
  <2>1. {ptr[pos + 1]} \ {NULL} \in SUBSET Int
    BY <1>1, <1>3
  <2>2. NodesTyped(nodes')
    BY <1>0, <1>3, <2>1, UpdateTyped DEF Give
  <2>3. NodeInv' /\ PtrInv'
    BY <1>0, <1>1, <1>3, <2>2, StealInv DEF NodeInv, NodesTyped
  <2>4. /\ "scope" \in Reading /\ pos + 2 \in Nat \ {0}
        /\ pos + 1 # Top.hi => pos + 2 <= Top.hi /\ pos + 2 <= Top.hi + 1
    BY <1>1, <1>3 DEF Reading
  <2>5. StackInv'
    <3>1. CASE Fail(Top.res)
      BY <1>0, <1>1, <3>1, FailInv
    <3>2. CASE pos + 1 # Top.hi /\ Return(Top.res, pos + 2)
      BY <1>0, <1>1, <2>4, <3>2, ReturnInv
    <3>3. CASE pos + 1 # Top.hi /\ Continue([Top EXCEPT !.pc = "scope"], pos + 2)
      BY <1>0, <1>1, <2>4, <3>3, GoOnInv
    <3> QED
      BY <1>3, <3>1, <3>2, <3>3
  <2> QED
    BY <1>1, <2>3, <2>5 DEF IInv
<1> QED
  BY <1>2, <1>3 DEF FuncReturn, Follows

\* ScopeOpen.
LEMMA ScopeOpenInv == IInv /\ ScopeOpen => IInv'
<1> SUFFICES ASSUME IInv, ScopeOpen PROVE IInv'
  OBVIOUS
<1>0. /\ StackInv /\ NodesTyped(nodes) /\ nextId \in Nat \ {NULL} /\ nextId \in Nat
      /\ At("scope") \/ At("start")
  BY DEF ScopeOpen, IInv, NodeInv
<1>1. /\ stack # <<>> /\ UNCHANGED <<tokens, phase>> /\ Top \in FrameRecord
      /\ Top.hi \in Nat /\ Top.res \in Nat /\ pos \in Nat \ {0}
  BY <1>0, AtFacts
<1>2. CASE Fail(Top.res) /\ UNCHANGED heap
  BY <1>0, <1>1, <1>2, FailInv, HeapSame DEF IInv
<1>3. ASSUME NEW q \in pos + 1..Top.hi,
             New(nodes, Node("body", pos, {})), UNCHANGED <<ptr, strings>>,
             stack' = Append([stack EXCEPT ![Len(stack)].pc = "scopeEnd",
                                           ![Len(stack)].close = q],
                             Frame("loop", FALSE, nextId, q - 1)),
             pos' = pos + 1, ret' = Nothing, UNCHANGED <<calls, messages, fault>>
      PROVE  IInv'
  <2> DEFINE f == [Top EXCEPT !.pc = "scopeEnd", !.close = q]
             g == Frame("loop", FALSE, nextId, q - 1)
  <2>1. q \in Nat /\ q \in 1..Top.hi /\ q - 1 \in Nat /\ pos + 1 <= q
    BY <1>1
  <2>2. /\ f \in FrameRecord /\ f.hi = Top.hi /\ f.pc = "scopeEnd" /\ f.close = q
        /\ g \in FrameRecord /\ g.hi = q - 1 /\ g.pc = "loop"
    BY <1>0, <1>1, <2>1 DEF FrameRecord, Frame, PCs
  <2>3. Len(stack) \in Nat \ {0} /\ stack \in Seq(FrameRecord)
        /\ Len(tokens) \in Nat /\ Nested(stack, Len(tokens))
    BY <1>0, <1>1, TopFacts DEF StackInv
  <2>4. stack' = Append([stack EXCEPT ![Len(stack)] = f], g)
    BY <1>3, <2>3 DEF Top
  <2> HIDE DEF f, g
  <2>5. Replaces(f, stack) /\ f.pc \in Waiting /\ g.hi <= f.hi /\ g.pc # "scopeEnd"
    <3>1. Replaces(f, stack)
      BY <2>1, <2>2 DEF Replaces, Top
    <3>2. g.hi <= f.hi
      BY <1>1, <2>1, <2>2
    <3> QED
      BY <2>2, <3>1, <3>2 DEF Waiting
  <2>6. /\ stack' \in Seq(FrameRecord) /\ stack' # <<>> /\ stack'[Len(stack')] = g
        /\ Nested(stack', Len(tokens))
    <3>1. LET t == Append([stack EXCEPT ![Len(stack)] = f], g)
          IN  /\ t \in Seq(FrameRecord) /\ t # <<>> /\ t[Len(t)] = g
              /\ Nested(t, Len(tokens))
      BY <1>1, <2>2, <2>3, <2>5, CallNested
    <3> QED
      BY <2>4, <3>1
  <2>7. Within(stack', pos + 1)
    BY <1>1, <2>1, <2>2, <2>6, Points DEF Within
  <2>8. StackInv'
    <3>1. /\ pos' \in Nat \ {0} /\ ret' \in [expr : Nat, error : BOOLEAN]
          /\ tokens' = tokens
      BY <1>1, <1>3 DEF Nothing, NULL
    <3>2. Nested(stack', Len(tokens')) /\ Within(stack', pos')
      BY <1>3, <2>6, <2>7, <3>1
    <3> QED
      BY <1>0, <1>3, <2>6, <3>1, <3>2 DEF StackInv
  <2>9. Node("body", pos, {}) \in NodeRecord
    BY <1>1, NodeTyped DEF NodeTypes
  <2> QED
    BY <1>0, <1>1, <1>3, <2>8, <2>9, NewInv, PtrSame DEF IInv
<1> QED
  BY <1>2, <1>3 DEF ScopeOpen, heap

\* ScopeEnd.
LEMMA ScopeEndInv == IInv /\ ScopeEnd => IInv'
<1> SUFFICES ASSUME IInv, ScopeEnd PROVE IInv'
  OBVIOUS
<1> DEFINE Scope == [Node("scope", Top.close, {}) EXCEPT !.left = ret.expr]
<1>0. /\ StackInv /\ At("scopeEnd") /\ NodesTyped(nodes) /\ nextId \in Nat
      /\ UNCHANGED <<ptr, strings>>
  BY DEF ScopeEnd, IInv, NodeInv
<1>1. /\ stack # <<>> /\ UNCHANGED <<tokens, phase>> /\ Top.hi \in Nat /\ Top.res \in Nat
      /\ Top.close \in 1..Top.hi /\ ret.expr \in Nat
  BY <1>0, AtFacts
<1>2. /\ Top.close \in Nat /\ Top.close + 1 \in Nat \ {0}
      /\ Top.close + 1 <= Top.hi + 1
  BY <1>1
<1>3. Scope \in NodeRecord
  <2>1. Node("scope", Top.close, {}) \in NodeRecord
    BY <1>2, NodeTyped DEF NodeTypes
  <2> QED
    BY <1>1, <2>1 DEF NodeRecord
<1> HIDE DEF Scope
<1>4. ASSUME NEW e \in Nat, NEW ns, NodesTyped(ns), New(ns, Scope),
             Return(e, Top.close + 1)
      PROVE  IInv'
  <2>1. NodeInv' /\ PtrInv'
    BY <1>0, <1>1, <1>3, <1>4, NewInv, PtrSame
  <2>2. StackInv'
    BY <1>0, <1>1, <1>2, <1>4, ReturnInv
  <2> QED
    BY <1>1, <2>1, <2>2 DEF IInv
<1>5. ASSUME NEW func \in Nat, New([nodes EXCEPT ![func].left = nextId], Scope),
             Return(func, Top.close + 1)
      PROVE  IInv'
  <2>1. NodesTyped([nodes EXCEPT ![func].left = nextId])
    BY <1>0, UpdateTyped
  <2> QED
    BY <1>4, <1>5, <2>1
<1>6. CASE Fail(Top.res) /\ UNCHANGED <<nodes, nextId>>
  BY <1>0, <1>1, <1>6, FailInv, HeapSame DEF IInv, heap
<1>7. CASE Crash("func_garbage") /\ UNCHANGED <<nodes, nextId>>
  BY <1>0, <1>1, <1>7, CrashInv, HeapSame DEF IInv, heap, Faults
<1>8. CASE New(nodes, Scope) /\ Return(nextId, Top.close + 1)
  BY <1>0, <1>4, <1>8
<1>9. \A func \in DOMAIN nodes : func \in Nat
  BY <1>0 DEF NodesTyped
<1> QED
  BY <1>1, <1>5, <1>6, <1>7, <1>8, <1>9 DEF ScopeEnd, Scope

\* BodyNext.
LEMMA BodyNextInv == IInv /\ BodyNext => IInv'
<1> SUFFICES ASSUME IInv, BodyNext PROVE IInv'
  OBVIOUS
<1>0. StackInv /\ At("loop") /\ UNCHANGED heap
  BY DEF BodyNext, IInv
<1>1. /\ stack # <<>> /\ UNCHANGED <<tokens, phase>> /\ Top.hi \in Nat /\ Top.res \in Nat
      /\ pos \in Nat \ {0} /\ pos <= Top.hi + 1
  BY <1>0, AtFacts
<1>2. CASE pos > Top.hi /\ Return(Top.res, pos)
  BY <1>0, <1>1, <1>2, ReturnInv, HeapSame DEF IInv
<1>3. CASE ~(pos > Top.hi) /\ Call([Top EXCEPT !.pc = "item"], pos)
  <2>1. pos <= Top.hi /\ "item" \in Waiting /\ "item" # "scopeEnd"
    BY <1>1, <1>3 DEF Waiting
  <2>2. StackInv'
    BY <1>0, <1>1, <1>3, <2>1, CallOnInv
  <2> QED
    BY <1>0, <1>1, <2>2, HeapSame DEF IInv
<1> QED
  BY <1>2, <1>3 DEF BodyNext

\* BodyItem.
LEMMA BodyItemInv == IInv /\ BodyItem => IInv'
<1> SUFFICES ASSUME IInv, BodyItem PROVE IInv'
  OBVIOUS
<1>0. /\ StackInv /\ At("item") /\ NodesTyped(nodes) /\ nextId \in Nat \ {NULL}
      /\ UNCHANGED <<ptr, strings, nextId>>
  BY DEF BodyItem, IInv, NodeInv
<1>1. /\ stack # <<>> /\ UNCHANGED <<tokens, phase>> /\ Top.hi \in Nat /\ Top.res \in Nat
      /\ Top \in FrameRecord /\ pos \in Nat \ {0} /\ pos <= Top.hi + 1 /\ ret.expr \in Nat
  BY <1>0, AtFacts
<1>2. CASE /\ messages' = messages - 1
           /\ calls' = Calls("destroy", <<Top.res>>)
           /\ stack' = Pop /\ ret' = Nothing
           /\ UNCHANGED <<nodes, pos, fault>>
  <2>1. Nested(stack, Len(tokens)) /\ Len(tokens) \in Nat /\ stack \in Seq(FrameRecord)
    BY <1>0, <1>1, TopFacts DEF StackInv
  <2>2. stack' \in Seq(FrameRecord) /\ Nested(stack', Len(tokens)) /\ Within(stack', pos)
    BY <1>1, <1>2, <2>1, PopNested DEF Pop, Top
  <2>3. calls' \in Seq(CallRecord)
    BY <1>1, <1>2, OneNode, CallsTyped
  <2>4. StackInv'
    BY <1>0, <1>1, <1>2, <2>2, <2>3 DEF StackInv, Nothing, NULL, Nested, Within
  <2> QED
    BY <1>0, <1>1, <1>2, <2>4, NodesSame, PtrSame DEF IInv
<1>3. CASE /\ nodes' = IF ret.expr = NULL THEN nodes
                       ELSE [nodes EXCEPT ![Top.res].items = Append(@, ret.expr)]
           /\ Continue([Top EXCEPT !.pc = "loop"], pos)
  <2>1. NodesTyped(nodes')
    BY <1>0, <1>1, <1>3, UpdateTyped
  <2>2. /\ Replaces([Top EXCEPT !.pc = "loop"], stack)
        /\ [Top EXCEPT !.pc = "loop"].pc \notin Reading
    <3>1. "loop" \in PCs /\ "loop" # "scopeEnd" /\ "loop" \notin Reading
      BY Points
    <3> QED
      BY <1>1, <3>1, SameList
  <2>3. StackInv'
    BY <1>0, <1>1, <1>3, <2>2, ContinueInv
  <2> QED
    BY <1>0, <1>1, <2>1, <2>3, PtrSame DEF IInv, NodeInv, NodesTyped
<1> QED
  BY <1>2, <1>3 DEF BodyItem

\* What the first of the pending calls starts from.
LEMMA PendingFacts ==
  ASSUME IInv, NEW fn, Pending(fn)
  PROVE  /\ UNCHANGED <<tokens, phase>> /\ calls \in Seq(CallRecord)
         /\ Head(calls).node \in Nat /\ Tail(calls) \in Seq(CallRecord)
<1>1. calls \in Seq(CallRecord) /\ calls # <<>> /\ UNCHANGED <<tokens, phase>>
  BY DEF Pending, IInv, StackInv
<1>2. Head(calls) \in CallRecord /\ Tail(calls) \in Seq(CallRecord)
  BY <1>1, HeadTailProperties
<1> QED
  BY <1>1, <1>2 DEF CallRecord

\* Going on with other calls pending.
LEMMA CallsInv ==
  ASSUME StackInv, UNCHANGED <<tokens, pos, stack, ret, messages, fault>>,
         calls' \in Seq(CallRecord)
  PROVE  StackInv'
BY DEF StackInv, Nested, Within

\* The rebuilding of an operation keeps the nodes typed.
LEMMA RotateTyped ==
  ASSUME NodesTyped(nodes), NEW n \in DOMAIN nodes, NEW r \in DOMAIN nodes
  PROVE  NodesTyped(Rotate(n, r))
<1> DEFINE a == [nodes[n] EXCEPT !.op = nodes[r].op, !.at = nodes[r].at,
                                 !.left = r, !.right = nodes[r].right]
           b == [nodes[r] EXCEPT !.op = nodes[n].op, !.at = nodes[n].at,
                                 !.left = nodes[n].left, !.right = nodes[r].left]
<1>1. nodes[n] \in NodeRecord /\ nodes[r] \in NodeRecord /\ r \in Nat
  BY DEF NodesTyped
<1>2. a \in NodeRecord /\ b \in NodeRecord
  BY <1>1 DEF NodeRecord
<1>3. Rotate(n, r) = [nodes EXCEPT ![n] = a, ![r] = b]
  BY DEF Rotate
<1> HIDE DEF a, b
<1> QED
  BY <1>2, <1>3 DEF NodesTyped

\* process_operation.
LEMMA ProcessOperationInv == IInv /\ process_operation => IInv'
<1> SUFFICES ASSUME IInv, process_operation PROVE IInv'
  OBVIOUS
<1> DEFINE n == Head(calls).node
           r == nodes[n].right
<1>0. /\ StackInv /\ Pending("process_operation") /\ NodesTyped(nodes)
      /\ nextId \in Nat \ {NULL} /\ UNCHANGED <<ptr, strings, nextId>>
  BY DEF process_operation, IInv, NodeInv
<1>1. /\ UNCHANGED <<tokens, phase>> /\ n \in Nat /\ Tail(calls) \in Seq(CallRecord)
  BY <1>0, PendingFacts
<1>2. CASE Crash("null_operand") /\ UNCHANGED nodes
  BY <1>0, <1>1, <1>2, CrashInv, HeapSame DEF IInv, heap, Faults
<1>3. CASE calls' = Tail(calls) /\ UNCHANGED <<nodes, pos, stack, ret, messages, fault>>
  BY <1>0, <1>1, <1>3, CallsInv, HeapSame DEF IInv, heap
<1>4. CASE /\ n \in DOMAIN nodes /\ r \in DOMAIN nodes
           /\ nodes' = Rotate(n, r) \/ nodes' = nodes
           /\ calls' = Calls("process_operation",
                             <<nodes'[n].left, nodes'[n].right>>) \o Tail(calls)
           /\ UNCHANGED <<pos, stack, ret, messages, fault>>
  <2>1. NodesTyped(nodes') /\ n \in DOMAIN nodes'
    <3>1. NodesTyped(Rotate(n, r)) /\ DOMAIN Rotate(n, r) = DOMAIN nodes
      BY <1>0, <1>4, RotateTyped DEF Rotate
    <3> QED
      BY <1>0, <1>4, <3>1
  <2>2. nodes'[n].left \in Nat /\ nodes'[n].right \in Nat
    BY <2>1 DEF NodesTyped, NodeRecord
  <2>3. <<nodes'[n].left, nodes'[n].right>> \in Seq(Nat)
    BY <2>2
  <2>4. Calls("process_operation", <<nodes'[n].left, nodes'[n].right>>)
          \in Seq(CallRecord)
    BY <2>3, CallsTyped
  <2>5. calls' \in Seq(CallRecord)
    BY <1>1, <1>4, <2>4, ConcatProperties
  <2>6. StackInv'
    BY <1>0, <1>1, <1>4, <2>5, CallsInv
  <2> QED
    BY <1>0, <1>1, <2>1, <2>6, PtrSame DEF IInv, NodeInv, NodesTyped
<1> QED
  BY <1>2, <1>3, <1>4 DEF process_operation

\* DestroyNode.
LEMMA DestroyNodeInv == IInv /\ DestroyNode => IInv'
<1> SUFFICES ASSUME IInv, DestroyNode PROVE IInv'
  OBVIOUS
<1> DEFINE n == Head(calls).node
<1>0. /\ StackInv /\ Pending("destroy") /\ NodesTyped(nodes) /\ PtrInv
      /\ nextId \in Nat \ {NULL} /\ UNCHANGED <<ptr, nextId>>
  BY DEF DestroyNode, IInv, NodeInv
<1>1. /\ UNCHANGED <<tokens, phase>> /\ n \in Nat /\ Tail(calls) \in Seq(CallRecord)
  BY <1>0, PendingFacts
<1>2. CASE /\ calls' = Tail(calls)
           /\ UNCHANGED <<nodes, strings, pos, stack, ret, messages, fault>>
  BY <1>0, <1>1, <1>2, CallsInv, HeapSame DEF IInv, heap
<1>3. CASE /\ Crash("double_free") \/ Crash("wild_free")
           /\ UNCHANGED <<nodes, strings>>
  BY <1>0, <1>1, <1>3, CrashInv, HeapSame DEF IInv, heap, Faults
<1>4. CASE /\ n \in DOMAIN nodes
           /\ nodes' = [m \in DOMAIN nodes \ {n} |-> nodes[m]]
           /\ strings' = strings \ nodes[n].own
           /\ calls' = Calls("destroy", <<nodes[n].left, nodes[n].right>>
                                          \o nodes[n].items) \o Tail(calls)
           /\ UNCHANGED <<pos, stack, ret, messages, fault>>
  <2>1. /\ nodes[n].left \in Nat /\ nodes[n].right \in Nat
        /\ nodes[n].items \in Seq(Nat)
    BY <1>0, <1>4 DEF NodesTyped, NodeRecord
  <2>2. <<nodes[n].left, nodes[n].right>> \in Seq(Nat)
    BY <2>1
  <2>3. <<nodes[n].left, nodes[n].right>> \o nodes[n].items \in Seq(Nat)
    BY <2>1, <2>2, ConcatProperties
  <2>4. Calls("destroy", <<nodes[n].left, nodes[n].right>> \o nodes[n].items)
          \in Seq(CallRecord)
    BY <2>3, CallsTyped
  <2>5. calls' \in Seq(CallRecord)
    BY <1>1, <1>4, <2>4, ConcatProperties
  <2>6. StackInv'
    BY <1>0, <1>1, <1>4, <2>5, CallsInv
  <2>7. NodesTyped(nodes')
    BY <1>0, <1>4 DEF NodesTyped
  <2>8. PtrInv'
    BY <1>0, <1>1, <1>4 DEF PtrInv
  <2> QED
    BY <1>0, <1>1, <2>6, <2>7, <2>8 DEF IInv, NodeInv, NodesTyped
<1> QED
  BY <1>2, <1>3, <1>4 DEF DestroyNode

\* PrintAst.
LEMMA PrintAstInv == IInv /\ PrintAst => IInv'
<1> SUFFICES ASSUME IInv, PrintAst PROVE IInv'
  OBVIOUS
<1>0. /\ StackInv /\ ret.expr \in Nat
      /\ UNCHANGED <<tokens, heap, pos, stack, messages>>
  BY DEF PrintAst, IInv, StackInv
<1>1. CASE /\ fault' \in {"value_printed", "arg_printed"}
           /\ UNCHANGED <<ret, calls, phase>>
  <2>1. StackInv'
    BY <1>0, <1>1 DEF StackInv, Nested, Within, Faults
  <2> QED
    BY <1>0, <1>1, <2>1, HeapSame DEF IInv
<1>2. CASE /\ calls' = Calls("destroy", <<ret.expr>>) /\ ret' = Nothing
           /\ phase' = "free" /\ UNCHANGED fault
  <2>1. calls' \in Seq(CallRecord)
    BY <1>0, <1>2, OneNode, CallsTyped
  <2>2. StackInv'
    BY <1>0, <1>2, <2>1 DEF StackInv, Nested, Within, Nothing, NULL
  <2> QED
    BY <1>0, <1>2, <2>2, HeapSame DEF IInv
<1> QED
  BY <1>1, <1>2 DEF PrintAst

\* LexerFree.
LEMMA LexerFreeInv == IInv /\ LexerFree => IInv'
<1> SUFFICES ASSUME IInv, LexerFree PROVE IInv'
  OBVIOUS
<1>0. /\ StackInv /\ PtrInv /\ NodeInv
      /\ UNCHANGED <<tokens, nodes, nextId, pos, stack, ret, calls, messages>>
  BY DEF LexerFree, IInv
<1>1. fault' \in Faults
  BY <1>0 DEF LexerFree, Faults, StackInv
<1>2. StackInv'
  BY <1>0, <1>1 DEF StackInv, Nested, Within
<1>3. PtrInv' /\ phase' \in {"parse", "free", "exit"}
  <2>1. CASE UNCHANGED <<ptr, strings, phase>>
    BY <1>0, <2>1 DEF PtrInv, IInv
  <2>2. CASE ~UNCHANGED <<ptr, strings, phase>>
    <3>1. /\ strings' \subseteq strings /\ ptr' = [k \in DOMAIN ptr |-> NULL]
          /\ phase' = "exit"
      BY <2>2 DEF LexerFree
    <3> QED
      BY <1>0, <3>1 DEF PtrInv, NULL
  <2> QED
    BY <2>1, <2>2
<1> QED
  BY <1>0, <1>2, <1>3, NodesSame DEF IInv

\* The initial states.
LEMMA InitInv == Init => IInv
<1> SUFFICES ASSUME Init PROVE IInv
  OBVIOUS
<1>1. tokens \in Seq(TokenKinds) /\ Len(tokens) \in Nat
  BY InputsAssumption, LenProperties DEF Init
<1>2. \A k \in 1..Len(tokens) : PtrOf(k, tokens[k]) \in {NULL, Wild, k}
  BY DEF PtrOf
<1>3. PtrInv
  BY <1>1, <1>2 DEF Init, PtrInv, NULL, Wild
<1>4. NodeInv
  <2>1. Node("body", 0, {}) \in NodeRecord
    BY NodeTyped DEF NodeTypes
  <2> QED
    BY <2>1 DEF Init, NodeInv, NodesTyped, NULL
<1>5. StackInv
  <2> DEFINE f == Frame("loop", FALSE, 1, Len(tokens))
  <2>1. f \in FrameRecord /\ f.hi = Len(tokens) /\ f.pc = "loop"
    BY <1>1 DEF Frame, FrameRecord, PCs
  <2> HIDE DEF f
  <2>2. stack = <<f>>
    BY DEF Init, f
  <2>3. /\ stack \in Seq(FrameRecord) /\ Len(stack) = 1 /\ stack[1] = f
    BY <2>1, <2>2
  <2>4. Nested(stack, Len(tokens)) /\ Within(stack, 1)
    BY <1>1, <2>1, <2>3, Points DEF Nested, Within
  <2>5. pos = 1 /\ ret = Nothing /\ calls = <<>> /\ messages = 0 /\ fault = "none"
    BY DEF Init
  <2>6. ret \in [expr : Nat, error : BOOLEAN] /\ pos \in Nat \ {0} /\ messages \in Int
    BY <2>5 DEF Nothing, NULL
  <2>7. calls \in Seq(CallRecord)
    BY <2>5, EmptySeq
  <2> QED
    BY <1>1, <2>3, <2>4, <2>5, <2>6, <2>7 DEF StackInv, Faults
<1> QED
  BY <1>3, <1>4, <1>5 DEF IInv, Init

\* Every step of the program keeps the invariant.
LEMMA NextInv == IInv /\ [Next]_vars => IInv'
<1> SUFFICES ASSUME IInv, [Next]_vars PROVE IInv'
  OBVIOUS
<1>1. CASE UNCHANGED vars
  <2>1. StackInv'
    BY <1>1 DEF vars, IInv, StackInv, Nested, Within
  <2> QED
    BY <1>1, <2>1, HeapSame DEF vars, IInv, heap
<1>2. CASE Next
  BY <1>1, <1>2, DeclStartInv, DeclNameInv, DeclMarkInv, DeclTypeInv, DeclAssignInv,
     DeclValueInv, SkipTokenInv, RejectTokenInv, VariableInv, LiteralInv,
     ParenOpenInv, ParenCloseInv, NextLabelInv, OperandInv, SettleInv, FuncStartInv,
     FuncNameInv, FuncArgInv, FuncReturnInv, ScopeOpenInv, ScopeEndInv, BodyNextInv,
     BodyItemInv, ProcessOperationInv, DestroyNodeInv, PrintAstInv, LexerFreeInv
  DEF Next, Stop
<1> QED
  BY <1>1, <1>2

-----------------------------------------------------------------------------
(* The theorems.                                                           *)

\* IInv holds in every reachable state.
LEMMA Invariance == Spec => []IInv
BY InitInv, NextInv, PTL DEF Spec

\* The variables of the parser have their types, whatever the program that is
\* parsed and whatever the uninitialized local of ast_parse_expr holds.
THEOREM TypeCorrect == Spec => []TypeOK
<1>1. IInv => TypeOK
  BY IInvIsTypeOK
<1> QED
  BY <1>1, Invariance, PTL

\* On every program, of any length and nesting, ast_parse_expr reads only
\* tokens of the list that it was given.
THEOREM CursorCorrect == Spec => []CursorInWindow
<1>1. IInv => CursorInWindow
  BY IInvIsTypeOK
<1> QED
  BY <1>1, Invariance, PTL

-----------------------------------------------------------------------------
(* Errors and the cursor.                                                  *)

\* The calls of ast_from_lexer are at these points, those of ast_parse_expr are
\* not.
Loops == {"loop", "item"}

\* The points at which the result of ast_parse_expr is looked at.
Answered == {"item", "declValue", "paren", "operand"}

\* The program starts in ast_from_lexer with the whole list tk, and calls it
\* again from a scope only, for the tokens before its closing brace.
Shape(s, tk) ==
  /\ s # <<>> => s[1].pc \in Loops /\ s[1].hi = Len(tk)
  /\ \A d \in 1..Len(s) : s[d].pc = "scopeEnd" => tk[s[d].close] = "rbrace"
  /\ \A d \in 1..Len(s) - 1 : s[d].pc = "scopeEnd" <=> s[d + 1].pc \in Loops
  /\ \A d \in 1..Len(s) - 1 : s[d].pc = "scopeEnd" => s[d + 1].hi = s[d].close - 1

\* The tokens with a string that the parser never passes over.
Named == {"keyword", "ident", "string"}

\* From p on the tokens are as the lexer left them, and of those before p the
\* parser has taken the strings.
Fresh(p) ==
  /\ \A k \in p..Len(tokens) : ptr[k] = PtrOf(k, tokens[k])
  /\ \A k \in 1..Len(tokens) : k < p /\ tokens[k] \in Named => ptr[k] # k

\* An error is on its way to a caller that looks at the result.
ErrorInv ==
  /\ ret.error => stack # <<>> /\ Top.pc \in Answered
  /\ ErrorsAccounted

\* No error has happened: the parser is at work, or has the tree.
Sound ==
  /\ phase = "parse" /\ fault = "none" /\ ~ret.error
  /\ ret.expr = NULL => stack # <<>> /\ Top.pc # "scopeEnd"

\* FreshTokens, also while operations are regrouped and when main has the tree;
\* and the cursor is at the braces of a scope before and after it is parsed.
FreshInv ==
  Sound =>
    /\ stack # <<>> => /\ Fresh(pos)
                       /\ Top.pc = "scope" => Token = "lbrace"
                       /\ Top.pc = "scopeEnd" => pos = Top.close
    /\ stack = <<>> => Fresh(Len(tokens) + 1)

FlowInv == Shape(stack, tokens) /\ ErrorInv /\ FreshInv

-----------------------------------------------------------------------------
(* Stacks.                                                                 *)

LEMMA ReplaceShape ==
  ASSUME NEW s \in Seq(FrameRecord), s # <<>>, NEW tk, Shape(s, tk),
         NEW f \in FrameRecord, f.hi = s[Len(s)].hi,
         f.pc \in Loops <=> s[Len(s)].pc \in Loops,
         f.pc = "scopeEnd" => tk[f.close] = "rbrace"
  PROVE  LET t == [s EXCEPT ![Len(s)] = f]
         IN  /\ t \in Seq(FrameRecord) /\ t # <<>> /\ Len(t) = Len(s)
             /\ t[Len(s)] = f /\ Shape(t, tk)
<1> DEFINE t == [s EXCEPT ![Len(s)] = f]
<1>1. Len(s) \in Nat \ {0}
  BY EmptySeq, ElementOfSeq
<1>2. /\ t \in Seq(FrameRecord) /\ Len(t) = Len(s)
      /\ \A d \in 1..Len(s) : t[d] = IF d = Len(s) THEN f ELSE s[d]
  BY <1>1, ExceptSeq
<1>3. t # <<>>
  BY <1>1, <1>2, EmptySeq
<1> HIDE DEF t
<1>4. /\ t[1].pc \in Loops /\ t[1].hi = Len(tk)
      /\ \A d \in 1..Len(t) : t[d].pc = "scopeEnd" => tk[t[d].close] = "rbrace"
  BY <1>1, <1>2 DEF Shape
<1>5. \A d \in 1..Len(s) - 1 :
        /\ t[d] = s[d] /\ t[d + 1].hi = s[d + 1].hi
        /\ t[d + 1].pc \in Loops <=> s[d + 1].pc \in Loops
  BY <1>1, <1>2
<1>6. Shape(t, tk)
  BY <1>2, <1>4, <1>5 DEF Shape
<1> QED
  BY <1>1, <1>2, <1>3, <1>6 DEF t

LEMMA AppendShape ==
  ASSUME NEW s \in Seq(FrameRecord), s # <<>>, NEW tk, Shape(s, tk),
         NEW g \in FrameRecord, g.pc # "scopeEnd",
         s[Len(s)].pc = "scopeEnd" <=> g.pc \in Loops,
         s[Len(s)].pc = "scopeEnd" => g.hi = s[Len(s)].close - 1
  PROVE  LET t == Append(s, g)
         IN  t \in Seq(FrameRecord) /\ t # <<>> /\ t[Len(t)] = g /\ Shape(t, tk)
<1> DEFINE t == Append(s, g)
<1>1. Len(s) \in Nat \ {0}
  BY EmptySeq, ElementOfSeq
<1>2. /\ t \in Seq(FrameRecord) /\ Len(t) = Len(s) + 1 /\ t[Len(s) + 1] = g
      /\ \A d \in 1..Len(s) : t[d] = s[d]
  BY <1>1, AppendProperties
<1>3. t # <<>>
  BY <1>1, <1>2, EmptySeq
<1> HIDE DEF t
<1>4. /\ t[1].pc \in Loops /\ t[1].hi = Len(tk)
      /\ \A d \in 1..Len(t) : t[d].pc = "scopeEnd" => tk[t[d].close] = "rbrace"
  BY <1>1, <1>2 DEF Shape
<1>5. ASSUME NEW d \in 1..Len(t) - 1
      PROVE  /\ t[d].pc = "scopeEnd" <=> t[d + 1].pc \in Loops
             /\ t[d].pc = "scopeEnd" => t[d + 1].hi = t[d].close - 1
  <2>1. CASE d = Len(s)
    BY <1>1, <1>2, <2>1
  <2>2. CASE d # Len(s)
    <3>1. d \in 1..Len(s) - 1 /\ t[d] = s[d] /\ t[d + 1] = s[d + 1]
      BY <1>1, <1>2, <2>2
    <3> QED
      BY <3>1 DEF Shape
  <2> QED
    BY <2>1, <2>2
<1> QED
  BY <1>2, <1>3, <1>4, <1>5 DEF t, Shape

LEMMA PopShape ==
  ASSUME NEW s \in Seq(FrameRecord), s # <<>>, NEW tk, Shape(s, tk)
  PROVE  LET t == SubSeq(s, 1, Len(s) - 1)
         IN  /\ Shape(t, tk)
             /\ Len(s) \in Nat \ {0} /\ Len(t) = Len(s) - 1
             /\ t # <<>> => /\ Len(s) > 1 /\ t[Len(t)] = s[Len(s) - 1]
                            /\ s[Len(s) - 1] \in FrameRecord
             /\ t = <<>> => s[Len(s)].pc \in Loops /\ s[Len(s)].hi = Len(tk)
<1> DEFINE t == SubSeq(s, 1, Len(s) - 1)
<1>1. Len(s) \in Nat \ {0} /\ \A d \in 1..Len(s) : s[d] \in FrameRecord
  BY EmptySeq, ElementOfSeq
<1>2. /\ t \in Seq(FrameRecord) /\ Len(t) = Len(s) - 1
      /\ \A d \in 1..Len(s) - 1 : t[d] = s[d]
  <2>1. \A d \in 1..Len(s) - 1 : s[d] \in FrameRecord
    BY <1>1
  <2>2. /\ t \in Seq(FrameRecord)
        /\ Len(t) = IF 1 <= Len(s) - 1 THEN Len(s) - 1 - 1 + 1 ELSE 0
        /\ \A d \in 1..Len(s) - 1 - 1 + 1 : t[d] = s[1 + d - 1]
    BY <1>1, <2>1, SubSeqProperties
  <2>3. ASSUME NEW m, m \in Nat \ {0}
        PROVE  /\ (IF 1 <= m - 1 THEN m - 1 - 1 + 1 ELSE 0) = m - 1
               /\ m - 1 - 1 + 1 = m - 1
               /\ \A d \in 1..m - 1 : 1 + d - 1 = d
    BY <2>3
  <2> HIDE DEF t
  <2>4. /\ Len(s) - 1 - 1 + 1 = Len(s) - 1
        /\ \A d \in 1..Len(s) - 1 : 1 + d - 1 = d
        /\ Len(t) = Len(s) - 1
    BY <1>1, <2>2, <2>3
  <2> QED
    BY <2>2, <2>4
<1>3. /\ t # <<>> => Len(t) \in Nat \ {0}
      /\ t = <<>> => Len(t) = 0
  BY <1>2, EmptySeq
<1> HIDE DEF t
<1>4. Shape(t, tk)
  <2>0. \A m \in Nat \ {0} : \A d \in 1..m - 1 - 1 : d \in 1..m - 1 /\ d + 1 \in 1..m - 1
    OBVIOUS
  <2>3. \A d \in 1..Len(t) - 1 : d \in 1..Len(s) - 1 /\ d + 1 \in 1..Len(s) - 1
    BY <1>1, <1>2, <2>0
  <2>1. \A d \in 1..Len(t) - 1 : /\ d \in 1..Len(s) - 1
                                 /\ t[d] = s[d] /\ t[d + 1] = s[d + 1]
    BY <1>2, <2>3
  <2>2. t # <<>> => t[1] = s[1]
    BY <1>1, <1>2, <1>3
  <2>4. \A d \in 1..Len(t) : d \in 1..Len(s) /\ t[d] = s[d]
    BY <1>1, <1>2
  <2> QED
    BY <2>1, <2>2, <2>4 DEF Shape
<1>5. t # <<>> => /\ Len(s) > 1 /\ t[Len(t)] = s[Len(s) - 1]
                  /\ s[Len(s) - 1] \in FrameRecord
  <2>1. ASSUME t # <<>>
        PROVE  Len(s) - 1 \in 1..Len(s) - 1 /\ Len(s) - 1 \in 1..Len(s)
    BY <1>1, <1>2, <1>3, <2>1
  <2>2. ASSUME t # <<>>
        PROVE  t[Len(s) - 1] = s[Len(s) - 1] /\ s[Len(s) - 1] \in FrameRecord
    BY <1>1, <1>2, <2>1, <2>2
  <2>3. t # <<>> => Len(s) > 1
    BY <1>1, <2>1
  <2> QED
    BY <1>2, <2>2, <2>3
<1>6. t = <<>> => s[Len(s)].pc \in Loops /\ s[Len(s)].hi = Len(tk)
  <2>1. t = <<>> => Len(s) = 1
    BY <1>1, <1>2, <1>3
  <2>2. s[1].pc \in Loops /\ s[1].hi = Len(tk)
    BY DEF Shape
  <2> QED
    BY <2>1, <2>2
<1> QED
  BY <1>1, <1>2, <1>4, <1>5, <1>6 DEF t

-----------------------------------------------------------------------------
(* Moving between calls.                                                   *)

\* What an action of the call on top starts from.
LEMMA AtFlow ==
  ASSUME IInv, FlowInv, NEW pc, At(pc)
  PROVE  /\ stack # <<>> /\ Top.pc = pc /\ StackInv
         /\ phase = "parse" /\ fault = "none" /\ UNCHANGED <<tokens, phase>>
         /\ ret.error => pc \in Answered
         /\ pc \notin Waiting => ~ret.error
         /\ ~ret.error /\ ~(pc = "scopeEnd" /\ ret.expr = NULL) => Fresh(pos)
<1>1. /\ stack # <<>> /\ Top.pc = pc /\ StackInv
      /\ phase = "parse" /\ fault = "none" /\ UNCHANGED <<tokens, phase>>
  BY DEF At, IInv
<1>2. Answered \subseteq Waiting
  BY DEF Answered, Waiting
<1>3. ret.error => pc \in Answered
  BY <1>1 DEF FlowInv, ErrorInv
<1>4. ~ret.error /\ ~(pc = "scopeEnd" /\ ret.expr = NULL) => Fresh(pos)
  BY <1>1 DEF FlowInv, FreshInv, Sound
<1> QED
  BY <1>1, <1>2, <1>3, <1>4

\* What is fresh from p on is fresh from q on, if what was taken comes before q.
LEMMA FreshLater ==
  ASSUME PtrInv, UNCHANGED tokens, Len(tokens) \in Nat,
         NEW p \in Nat \ {0}, NEW q \in Nat, p <= q, Fresh(p),
         UNCHANGED ptr \/ \E S : Steal(S) /\ \A k \in S : k < q,
         \A k \in p..q - 1 : k \in 1..Len(tokens) /\ tokens[k] \in Named => ptr'[k] # k
  PROVE  Fresh(q)'
<1>1. \A k \in q..Len(tokens) : k \in p..Len(tokens) /\ k \in DOMAIN ptr
  BY DEF PtrInv
<1>4. ASSUME NEW k \in 1..Len(tokens), k < q, tokens[k] \in Named PROVE ptr'[k] # k
  <2>1. CASE k < p
    <3>1. ptr[k] # k /\ k \in DOMAIN ptr /\ k # 0
      BY <1>4, <2>1 DEF Fresh, PtrInv
    <3>2. ptr'[k] = ptr[k] \/ ptr'[k] = NULL
      BY <3>1 DEF Steal
    <3> QED
      BY <3>1, <3>2 DEF NULL
  <2>2. CASE ~(k < p)
    <3>1. k \in p..q - 1
      BY <1>4, <2>2
    <3> QED
      BY <1>4, <3>1
  <2> QED
    BY <2>1, <2>2
<1>2. CASE UNCHANGED ptr
  BY <1>1, <1>2, <1>4 DEF Fresh
<1>3. CASE \E S : Steal(S) /\ \A k \in S : k < q
  <2>1. PICK S : Steal(S) /\ \A k \in S : k < q
    BY <1>3
  <2>2. \A k \in q..Len(tokens) : k \notin S
    BY <2>1
  <2>3. \A k \in q..Len(tokens) : ptr'[k] = ptr[k]
    BY <1>1, <2>1, <2>2 DEF Steal
  <2> QED
    BY <1>1, <1>4, <2>3 DEF Fresh
<1> QED
  BY <1>2, <1>3

\* Continue.
LEMMA ContinueFlow ==
  ASSUME StackInv, FlowInv, stack # <<>>, UNCHANGED tokens, ~ret.error,
         NEW f \in FrameRecord, f.hi = Top.hi, f.pc # "scopeEnd",
         NEW p, f.pc = "scope" => tokens[p] = "lbrace",
         f.pc \in Loops <=> Top.pc \in Loops,
         Fresh(p)', Continue(f, p)
  PROVE  FlowInv'
<1>1. /\ stack' # <<>> /\ stack'[Len(stack')] = f /\ Shape(stack', tokens)
  BY ReplaceShape DEF StackInv, FlowInv, Continue, Top
<1>2. /\ pos' = p /\ ret' = Nothing /\ UNCHANGED <<messages, fault>>
  BY DEF Continue
<1>3. ErrorInv'
  BY <1>2 DEF FlowInv, ErrorInv, ErrorsAccounted, Nothing
<1>4. FreshInv'
  BY <1>1, <1>2 DEF FreshInv, Fresh, Top, Token
<1> QED
  BY <1>1, <1>3, <1>4 DEF FlowInv

\* Going on at another point of ast_parse_expr.
LEMMA GoOnFlow ==
  ASSUME StackInv, FlowInv, stack # <<>>, UNCHANGED tokens, ~ret.error,
         Top.pc \notin Loops, NEW pc \in Reading, NEW r \in Nat, NEW p, Fresh(p)',
         pc = "scope" => tokens[p] = "lbrace",
         \/ Continue([Top EXCEPT !.pc = pc], p)
         \/ Continue([Top EXCEPT !.pc = pc, !.res = r], p)
  PROVE  FlowInv'
<1>1. Top \in FrameRecord /\ pc \in PCs /\ pc # "scopeEnd" /\ pc \notin Loops
  BY TopFacts, Points DEF Loops, Reading
<1>2. /\ [Top EXCEPT !.pc = pc] \in FrameRecord
      /\ [Top EXCEPT !.pc = pc].pc = pc /\ [Top EXCEPT !.pc = pc].hi = Top.hi
      /\ [Top EXCEPT !.pc = pc, !.res = r] \in FrameRecord
      /\ [Top EXCEPT !.pc = pc, !.res = r].pc = pc
      /\ [Top EXCEPT !.pc = pc, !.res = r].hi = Top.hi
  BY <1>1 DEF FrameRecord
<1> QED
  BY <1>1, <1>2, ContinueFlow

\* Call.
LEMMA CallFlow ==
  ASSUME StackInv, FlowInv, stack # <<>>, UNCHANGED tokens, ~ret.error,
         NEW f \in FrameRecord, f.hi = Top.hi, f.pc # "scopeEnd",
         NEW p, f.pc = "scope" => tokens[p] = "lbrace",
         f.pc \in Loops <=> Top.pc \in Loops,
         Fresh(p)', Call(f, p)
  PROVE  FlowInv'
<1> DEFINE g == Frame("start", f.pc = "item", NULL, f.hi)
           r == [stack EXCEPT ![Len(stack)] = f]
<1>1. g \in FrameRecord /\ g.pc = "start"
  BY FrameFields DEF Frame, FrameRecord, PCs, NULL
<1>2. stack' = Append(r, g)
  BY DEF Call
<1>3. r \in Seq(FrameRecord) /\ r # <<>> /\ Len(r) = Len(stack) /\ r[Len(stack)] = f /\ Shape(r, tokens)
  BY ReplaceShape DEF StackInv, FlowInv, Top
<1> HIDE DEF g, r
<1>4. stack' # <<>> /\ stack'[Len(stack')] = g /\ Shape(stack', tokens)
  BY <1>1, <1>2, <1>3, AppendShape DEF Loops
<1>5. /\ pos' = p /\ ret' = Nothing /\ UNCHANGED <<messages, fault>>
  BY DEF Call
<1>6. ErrorInv'
  BY <1>5 DEF FlowInv, ErrorInv, ErrorsAccounted, Nothing
<1>7. FreshInv'
  BY <1>1, <1>4, <1>5 DEF FreshInv, Fresh, Top, Token
<1> QED
  BY <1>4, <1>6, <1>7 DEF FlowInv

\* A call from another point of ast_parse_expr.
LEMMA CallOnFlow ==
  ASSUME StackInv, FlowInv, stack # <<>>, UNCHANGED tokens, ~ret.error,
         Top.pc \notin Loops, NEW pc \in {"declValue", "paren", "operand"},
         NEW r \in Nat, NEW p, Fresh(p)',
         \/ Call([Top EXCEPT !.pc = pc], p)
         \/ Call([Top EXCEPT !.pc = pc, !.res = r], p)
  PROVE  FlowInv'
<1>1. Top \in FrameRecord /\ pc \in PCs /\ pc \notin {"scopeEnd", "scope"} /\ pc \notin Loops
  BY TopFacts DEF Loops, PCs
<1>2. /\ [Top EXCEPT !.pc = pc] \in FrameRecord
      /\ [Top EXCEPT !.pc = pc].pc = pc /\ [Top EXCEPT !.pc = pc].hi = Top.hi
      /\ [Top EXCEPT !.pc = pc, !.res = r] \in FrameRecord
      /\ [Top EXCEPT !.pc = pc, !.res = r].pc = pc
      /\ [Top EXCEPT !.pc = pc, !.res = r].hi = Top.hi
  BY <1>1 DEF FrameRecord
<1> QED
  BY <1>1, <1>2, CallFlow

\* The caller of ast_parse_expr, and of ast_from_lexer.
LEMMA CallerFlow ==
  ASSUME StackInv, FlowInv, stack # <<>>, stack' = Pop
  PROVE  /\ Shape(stack', tokens)
         /\ Top.pc \notin Loops => stack' # <<>> /\ Top'.pc \in Answered
         /\ stack' = <<>> => Top.hi = Len(tokens)
         /\ Top.pc \in Loops /\ stack' # <<>> =>
              Top'.pc = "scopeEnd" /\ Top.hi = Top'.close - 1 /\ Top'.close \in Nat
<1>1. /\ Shape(stack', tokens) /\ Len(stack) \in Nat \ {0} /\ Len(stack') = Len(stack) - 1
      /\ stack' # <<>> => /\ Len(stack) > 1 /\ stack'[Len(stack')] = stack[Len(stack) - 1]
                          /\ stack[Len(stack) - 1] \in FrameRecord
      /\ stack' = <<>> => Top.pc \in Loops /\ Top.hi = Len(tokens)
  BY PopShape DEF StackInv, FlowInv, Pop, Top
<1>2. stack' # <<>> => Len(stack) - 1 \in 1..Len(stack) - 1 /\ Len(stack) - 1 + 1 = Len(stack)
  BY <1>1
<1>3. stack' # <<>> => /\ stack[Len(stack) - 1].pc \in Waiting
                       /\ stack[Len(stack) - 1].pc = "scopeEnd" <=> Top.pc \in Loops
                       /\ stack[Len(stack) - 1].pc = "scopeEnd" =>
                            Top.hi = stack[Len(stack) - 1].close - 1
  BY <1>2 DEF StackInv, FlowInv, Nested, Shape, Top
<1>4. Top' = stack'[Len(stack')]
  BY DEF Top
<1>5. \A pc \in Waiting : pc # "scopeEnd" => pc \in Answered
  BY DEF Waiting, Answered
<1> QED
  BY <1>1, <1>3, <1>4, <1>5, FrameFields

\* Return.
LEMMA ReturnFlow ==
  ASSUME StackInv, FlowInv, stack # <<>>, UNCHANGED tokens, ~ret.error,
         Top.pc \notin Loops, NEW e, NEW p, Fresh(p)', Return(e, p)
  PROVE  FlowInv'
<1>1. /\ pos' = p /\ ret' = [expr |-> e, error |-> FALSE] /\ stack' = Pop
      /\ UNCHANGED <<messages, fault>>
  BY DEF Return
<1>2. Shape(stack', tokens) /\ stack' # <<>> /\ Top'.pc \notin {"scope", "scopeEnd"}
  BY <1>1, CallerFlow DEF Answered
<1>3. ErrorInv'
  BY <1>1 DEF FlowInv, ErrorInv, ErrorsAccounted
<1>4. FreshInv'
  BY <1>1, <1>2 DEF FreshInv, Fresh
<1> QED
  BY <1>2, <1>3, <1>4 DEF FlowInv

\* Fail and FailAgain.
LEMMA FailFlow ==
  ASSUME StackInv, FlowInv, stack # <<>>, UNCHANGED tokens, Top.pc \notin Loops,
         NEW r, \/ Fail(r) /\ ~ret.error
                \/ FailAgain(r) /\ ret.error
  PROVE  FlowInv'
<1>1. /\ ret' = [expr |-> NULL, error |-> TRUE] /\ stack' = Pop /\ UNCHANGED fault
      /\ messages' = messages + IF ret.error THEN 0 ELSE 1
  BY DEF Fail, FailAgain, Abort, StackInv
<1>2. Shape(stack', tokens) /\ stack' # <<>> /\ Top'.pc \in Answered
  BY <1>1, CallerFlow
<1>3. ErrorInv'
  BY <1>1, <1>2 DEF FlowInv, ErrorInv, ErrorsAccounted
<1>4. FreshInv'
  BY <1>1 DEF FreshInv, Sound
<1> QED
  BY <1>2, <1>3, <1>4 DEF FlowInv

\* Crash.
LEMMA CrashFlow ==
  ASSUME FlowInv, UNCHANGED tokens, NEW site, site # "none", Crash(site)
  PROVE  FlowInv'
<1>1. UNCHANGED <<stack, ret>> /\ fault' = site
  BY DEF Crash
<1> QED
  BY <1>1 DEF FlowInv, ErrorInv, FreshInv, Sound, ErrorsAccounted, Top

-----------------------------------------------------------------------------
(* The actions.                                                            *)

\* The call on top goes on, calls or returns with the cursor at q.
Moves(q) ==
  \/ \E e \in Nat : Return(e, q)
  \/ Top.pc \in Reading \ {"scope"} /\ Continue(Top, q)
  \/ \E pc \in Reading, r \in Nat :
       /\ pc = "scope" => tokens[q] = "lbrace"
       /\ \/ Continue([Top EXCEPT !.pc = pc], q)
          \/ Continue([Top EXCEPT !.pc = pc, !.res = r], q)
  \/ \E pc \in {"declValue", "paren", "operand"}, r \in Nat :
       Call([Top EXCEPT !.pc = pc], q) \/ Call([Top EXCEPT !.pc = pc, !.res = r], q)

\* The strings of the tokens from the cursor to q are taken, and no others.
TakenBefore(q) ==
  /\ UNCHANGED ptr \/ \E S : Steal(S) /\ \A k \in S : k < q
  /\ \A k \in pos..q - 1 : k \in 1..Len(tokens) /\ tokens[k] \in Named => ptr'[k] # k

\* Taking from some tokens, and passing over others that have no string.
LEMMA TakeSome ==
  ASSUME PtrInv, pos \in Nat \ {0}, NEW q \in Nat,
         NEW S \in SUBSET Nat, Steal(S), \A k \in S : k < q,
         \A k \in pos..q - 1 : k \in S \/ tokens[k] \notin Named
  PROVE  TakenBefore(q)
<1>1. ASSUME NEW k \in pos..q - 1, k \in 1..Len(tokens), tokens[k] \in Named
      PROVE  ptr'[k] # k
  <2>1. k \in S /\ k \in DOMAIN ptr
    BY <1>1 DEF PtrInv
  <2>2. ptr'[k] = NULL /\ k # 0
    BY <1>1, <2>1 DEF Steal
  <2> QED
    BY <2>2 DEF NULL
<1> QED
  BY <1>1 DEF TakenBefore

LEMMA TakeOne ==
  ASSUME PtrInv, pos \in Nat \ {0}, NEW k \in Nat, Steal({k}), NEW q \in Nat, k < q,
         \A j \in pos..q - 1 : j = k \/ tokens[j] \notin Named
  PROVE  TakenBefore(q)
BY TakeSome

\* Only passing over tokens.
LEMMA TakeNone ==
  ASSUME pos \in Nat \ {0}, NEW q \in Nat, UNCHANGED ptr,
         \A j \in pos..q - 1 : tokens[j] \notin Named
  PROVE  TakenBefore(q)
BY DEF TakenBefore

\* A step of ast_parse_expr that moves the cursor forward, past what it takes.
LEMMA MovesFlow ==
  ASSUME IInv, FlowInv, NEW pc, At(pc), pc \notin Loops, pc # "scopeEnd", ~ret.error,
         NEW q \in Nat, pos <= q, TakenBefore(q), Moves(q)
  PROVE  FlowInv'
<1>1. /\ stack # <<>> /\ Top.pc = pc /\ StackInv /\ Fresh(pos) /\ UNCHANGED tokens
  BY AtFlow
<1>2. Top \in FrameRecord /\ Len(tokens) \in Nat /\ pos \in Nat \ {0} /\ PtrInv
  BY <1>1, TopFacts DEF StackInv, IInv
<1>3. Fresh(q)'
  BY <1>1, <1>2, FreshLater DEF TakenBefore
<1>4. CASE \E e \in Nat : Return(e, q)
  BY <1>1, <1>3, <1>4, ReturnFlow
<1>5. CASE Top.pc \in Reading \ {"scope"} /\ Continue(Top, q)
  BY <1>1, <1>2, <1>3, <1>5, ContinueFlow
<1>6. CASE \E pd \in Reading, r \in Nat :
             /\ pd = "scope" => tokens[q] = "lbrace"
             /\ \/ Continue([Top EXCEPT !.pc = pd], q)
                \/ Continue([Top EXCEPT !.pc = pd, !.res = r], q)
  BY <1>1, <1>3, <1>6, GoOnFlow
<1>7. CASE \E pd \in {"declValue", "paren", "operand"}, r \in Nat :
             \/ Call([Top EXCEPT !.pc = pd], q)
             \/ Call([Top EXCEPT !.pc = pd, !.res = r], q)
  BY <1>1, <1>3, <1>7, CallOnFlow
<1> QED
  BY <1>4, <1>5, <1>6, <1>7 DEF Moves

\* A step of ast_parse_expr that fails or dies.
LEMMA EndsFlow ==
  ASSUME IInv, FlowInv, NEW pc, At(pc), pc \notin Loops,
         \/ ~ret.error /\ \E r : Fail(r)
         \/ ret.error /\ \E r : FailAgain(r)
         \/ \E site \in Faults : site # "none" /\ Crash(site)
  PROVE  FlowInv'
<1>1. /\ stack # <<>> /\ Top.pc = pc /\ StackInv /\ UNCHANGED tokens
  BY AtFlow
<1> QED
  BY <1>1, FailFlow, CrashFlow

\* DeclStart.
LEMMA DeclStartFlow == IInv /\ FlowInv /\ DeclStart => FlowInv'
<1> SUFFICES ASSUME IInv, FlowInv, DeclStart PROVE FlowInv'
  OBVIOUS
<1>0. At("start") /\ ~ret.error
  <2>1. At("start")
    BY DEF DeclStart
  <2> QED
    BY <2>1, AtFlow, Points DEF Waiting
<1>1. /\ "start" \notin Loops /\ "start" # "scopeEnd" /\ pos \in Nat \ {0}
      /\ pos + 1 \in Nat /\ pos <= pos + 1
  BY <1>0, AtFacts DEF Loops
<1>2. CASE Fail(NULL)
  BY <1>0, <1>1, <1>2, EndsFlow
<1>3. CASE /\ Continue([Top EXCEPT !.pc = "declName", !.res = nextId], pos + 1)
           /\ UNCHANGED <<ptr, strings>>
  <2>1. "declName" \in Reading /\ nextId \in Nat
    BY DEF Reading, IInv, NodeInv
  <2>2. Moves(pos + 1)
    BY <1>3, <2>1 DEF Moves
  <2>3. TakenBefore(pos + 1)
    BY <1>1, <1>3, TakeNone DEF DeclStart, Token, Named
  <2> QED
    BY <1>0, <1>1, <2>2, <2>3, MovesFlow
<1> QED
  BY <1>2, <1>3 DEF DeclStart

\* DeclName.
LEMMA DeclNameFlow == IInv /\ FlowInv /\ DeclName => FlowInv'
<1> SUFFICES ASSUME IInv, FlowInv, DeclName PROVE FlowInv'
  OBVIOUS
<1>0. At("declName") /\ ~ret.error
  <2>1. At("declName")
    BY DEF DeclName
  <2> QED
    BY <2>1, AtFlow, Points DEF Waiting
<1>1. /\ "declName" \notin Loops /\ "declName" # "scopeEnd" /\ pos \in Nat \ {0}
      /\ pos + 1 \in Nat /\ pos <= pos + 1
  BY <1>0, AtFacts DEF Loops
<1>2. CASE Fail(Top.res) \/ Crash("name_printed")
  BY <1>0, <1>1, <1>2, EndsFlow DEF Faults
<1>3. CASE Steal({pos}) /\ Continue([Top EXCEPT !.pc = "declMark"], pos + 1)
  <2>1. "declMark" \in Reading /\ 0 \in Nat
    BY DEF Reading
  <2>2. Moves(pos + 1)
    BY <1>1, <1>3, <2>1 DEF Moves
  <2>3. TakenBefore(pos + 1)
    BY <1>1, <1>3, TakeOne DEF IInv
  <2> QED
    BY <1>0, <1>1, <2>2, <2>3, MovesFlow
<1> QED
  BY <1>2, <1>3 DEF DeclName

\* DeclMark.
LEMMA DeclMarkFlow == IInv /\ FlowInv /\ DeclMark => FlowInv'
<1> SUFFICES ASSUME IInv, FlowInv, DeclMark PROVE FlowInv'
  OBVIOUS
<1>0. At("declMark") /\ ~ret.error
  <2>1. At("declMark")
    BY DEF DeclMark
  <2> QED
    BY <2>1, AtFlow, Points DEF Waiting
<1>1. /\ "declMark" \notin Loops /\ "declMark" # "scopeEnd" /\ pos \in Nat \ {0}
      /\ pos + 1 \in Nat /\ pos <= pos + 1
  BY <1>0, AtFacts DEF Loops
<1>2. CASE Fail(Top.res)
  BY <1>0, <1>1, <1>2, EndsFlow
<1>3. CASE /\ UNCHANGED heap
           /\ \/ Token = ":" /\ Continue([Top EXCEPT !.pc = "declType"], pos + 1)
              \/ Continue([Top EXCEPT !.pc = "declAssign"], pos)
  <2>1. {"declType", "declAssign"} \subseteq Reading /\ 0 \in Nat
    BY DEF Reading
  <2>2. TakenBefore(pos)
    BY <1>1, <1>3, TakeNone DEF heap
  <2>3. Token = ":" => TakenBefore(pos + 1)
    BY <1>1, <1>3, TakeNone DEF heap, Token, Named
  <2>4. (Token = ":" /\ Moves(pos + 1)) \/ Moves(pos)
    BY <1>3, <2>1 DEF Moves
  <2> QED
    BY <1>0, <1>1, <2>2, <2>3, <2>4, MovesFlow
<1> QED
  BY <1>2, <1>3 DEF DeclMark

\* DeclType.
LEMMA DeclTypeFlow == IInv /\ FlowInv /\ DeclType => FlowInv'
<1> SUFFICES ASSUME IInv, FlowInv, DeclType PROVE FlowInv'
  OBVIOUS
<1>0. At("declType") /\ ~ret.error
  <2>1. At("declType")
    BY DEF DeclType
  <2> QED
    BY <2>1, AtFlow, Points DEF Waiting
<1>1. /\ "declType" \notin Loops /\ "declType" # "scopeEnd" /\ pos \in Nat \ {0}
      /\ pos + 1 \in Nat /\ pos <= pos + 1
  BY <1>0, AtFacts DEF Loops
<1>2. CASE Fail(Top.res) \/ Crash("type_read")
  BY <1>0, <1>1, <1>2, EndsFlow DEF Faults
<1>3. CASE /\ Steal({pos})
           /\ \/ Return(Top.res, pos + 1)
              \/ Continue([Top EXCEPT !.pc = "declAssign"], pos + 1)
  <2>1. "declAssign" \in Reading /\ Top.res \in Nat
    BY <1>0, AtFacts DEF Reading
  <2>2. Moves(pos + 1)
    BY <1>1, <1>3, <2>1 DEF Moves
  <2>3. TakenBefore(pos + 1)
    BY <1>1, <1>3, TakeOne DEF IInv
  <2> QED
    BY <1>0, <1>1, <2>2, <2>3, MovesFlow
<1> QED
  BY <1>2, <1>3 DEF DeclType

\* DeclAssign.
LEMMA DeclAssignFlow == IInv /\ FlowInv /\ DeclAssign => FlowInv'
<1> SUFFICES ASSUME IInv, FlowInv, DeclAssign PROVE FlowInv'
  OBVIOUS
<1>0. At("declAssign") /\ ~ret.error
  <2>1. At("declAssign")
    BY DEF DeclAssign
  <2> QED
    BY <2>1, AtFlow, Points DEF Waiting
<1>1. /\ "declAssign" \notin Loops /\ "declAssign" # "scopeEnd" /\ pos \in Nat \ {0}
      /\ pos + 1 \in Nat /\ pos <= pos + 1
  BY <1>0, AtFacts DEF Loops
<1>2. CASE Fail(Top.res) \/ Crash("assign_printed")
  BY <1>0, <1>1, <1>2, EndsFlow DEF Faults
<1>3. CASE UNCHANGED heap /\ Token = "=" /\ Call([Top EXCEPT !.pc = "declValue"], pos + 1)
  <2>1. Moves(pos + 1)
    <3>1. 0 \in Nat
      OBVIOUS
    <3> QED
      BY <1>3, <3>1 DEF Moves
  <2>2. TakenBefore(pos + 1)
    BY <1>1, <1>3, TakeNone DEF heap, Token, Named
  <2> QED
    BY <1>0, <1>1, <2>1, <2>2, MovesFlow
<1> QED
  BY <1>2, <1>3 DEF DeclAssign

\* DeclValue.
LEMMA DeclValueFlow == IInv /\ FlowInv /\ DeclValue => FlowInv'
<1> SUFFICES ASSUME IInv, FlowInv, DeclValue PROVE FlowInv'
  OBVIOUS
<1>0. At("declValue")
  BY DEF DeclValue
<1>1. /\ "declValue" \notin Loops /\ "declValue" # "scopeEnd" /\ pos \in Nat \ {0}
      /\ pos + 1 \in Nat /\ pos <= pos + 1
  BY <1>0, AtFacts DEF Loops
<1>2. CASE ret.error
  BY <1>0, <1>1, <1>2, EndsFlow DEF DeclValue
<1>3. CASE ~ret.error /\ Fail(Top.res)
  BY <1>0, <1>1, <1>3, EndsFlow
<1>4. CASE ~ret.error /\ Return(Top.res, pos)
  <2>1. Top.res \in Nat /\ pos <= pos /\ pos \in Nat
    BY <1>0, <1>1, AtFacts
  <2>2. Moves(pos)
    BY <1>4, <2>1 DEF Moves
  <2>3. TakenBefore(pos)
    BY <1>1, TakeNone DEF DeclValue
  <2> QED
    BY <1>0, <1>1, <1>4, <2>1, <2>2, <2>3, MovesFlow
<1> QED
  BY <1>2, <1>3, <1>4 DEF DeclValue

\* ThenNext.
LEMMA ThenNextMoves ==
  ASSUME NEW r \in Nat, NEW q, ThenNext(r, q)
  PROVE  Moves(q)
<1>1. "next" \in Reading
  BY DEF Reading
<1> QED
  BY <1>1 DEF ThenNext, Moves

\* SkipToken.
LEMMA SkipTokenFlow == IInv /\ FlowInv /\ SkipToken => FlowInv'
<1> SUFFICES ASSUME IInv, FlowInv, SkipToken PROVE FlowInv'
  OBVIOUS
<1>0. At("start") /\ ~ret.error
  <2>1. At("start")
    BY DEF SkipToken
  <2> QED
    BY <2>1, AtFlow, Points DEF Waiting
<1>1. /\ "start" \notin Loops /\ "start" # "scopeEnd" /\ pos \in Nat \ {0}
      /\ pos + 1 \in Nat /\ pos <= pos + 1 /\ pos < pos + 1
      /\ Top.hi \in Nat /\ Top.res \in Nat /\ nextId \in Nat /\ NULL \in Nat
      /\ ret.expr \in Nat /\ pos <= Top.hi + 1
  BY <1>0, AtFacts DEF Loops, IInv, NodeInv, NULL
<1>2. Moves(pos + 1)
  BY <1>1 DEF SkipToken, Moves
<1>3. TakenBefore(pos + 1)
  BY <1>1, TakeNone DEF SkipToken, heap, Token, Named
<1> QED
  BY <1>0, <1>1, <1>2, <1>3, MovesFlow

\* RejectToken.
LEMMA RejectTokenFlow == IInv /\ FlowInv /\ RejectToken => FlowInv'
<1> SUFFICES ASSUME IInv, FlowInv, RejectToken PROVE FlowInv'
  OBVIOUS
<1>0. At("start") /\ ~ret.error
  <2>1. At("start")
    BY DEF RejectToken
  <2> QED
    BY <2>1, AtFlow, Points DEF Waiting
<1>1. /\ "start" \notin Loops /\ "start" # "scopeEnd" /\ pos \in Nat \ {0}
      /\ pos + 1 \in Nat /\ pos <= pos + 1 /\ pos < pos + 1
      /\ Top.hi \in Nat /\ Top.res \in Nat /\ nextId \in Nat /\ NULL \in Nat
      /\ ret.expr \in Nat /\ pos <= Top.hi + 1
  BY <1>0, AtFacts DEF Loops, IInv, NodeInv, NULL
<1> QED
  BY <1>0, <1>1, EndsFlow DEF RejectToken

\* Variable.
LEMMA VariableFlow == IInv /\ FlowInv /\ Variable => FlowInv'
<1> SUFFICES ASSUME IInv, FlowInv, Variable PROVE FlowInv'
  OBVIOUS
<1>0. At("start") /\ ~ret.error
  <2>1. At("start")
    BY DEF Variable
  <2> QED
    BY <2>1, AtFlow, Points DEF Waiting
<1>1. /\ "start" \notin Loops /\ "start" # "scopeEnd" /\ pos \in Nat \ {0}
      /\ pos + 1 \in Nat /\ pos <= pos + 1 /\ pos < pos + 1
      /\ Top.hi \in Nat /\ Top.res \in Nat /\ nextId \in Nat /\ NULL \in Nat
      /\ ret.expr \in Nat /\ pos <= Top.hi + 1
  BY <1>0, AtFacts DEF Loops, IInv, NodeInv, NULL
<1>2. CASE Fail(nextId)
  BY <1>0, <1>1, <1>2, EndsFlow
<1>3. CASE \/ Return(nextId, pos + 1)
           \/ Continue([Top EXCEPT !.pc = "next", !.res = nextId], pos + 1)
  <2>1. "next" \in Reading
    BY DEF Reading
  <2>2. Moves(pos + 1)
    BY <1>1, <1>3, <2>1 DEF Moves
  <2>3. TakenBefore(pos + 1)
    BY <1>1, TakeOne DEF Variable, IInv
  <2> QED
    BY <1>0, <1>1, <2>2, <2>3, MovesFlow
<1> QED
  BY <1>2, <1>3 DEF Variable

\* Literal.
LEMMA LiteralFlow == IInv /\ FlowInv /\ Literal => FlowInv'
<1> SUFFICES ASSUME IInv, FlowInv, Literal PROVE FlowInv'
  OBVIOUS
<1>0. At("start") /\ ~ret.error
  <2>1. At("start")
    BY DEF Literal
  <2> QED
    BY <2>1, AtFlow, Points DEF Waiting
<1>1. /\ "start" \notin Loops /\ "start" # "scopeEnd" /\ pos \in Nat \ {0}
      /\ pos + 1 \in Nat /\ pos <= pos + 1 /\ pos < pos + 1
      /\ Top.hi \in Nat /\ Top.res \in Nat /\ nextId \in Nat /\ NULL \in Nat
      /\ ret.expr \in Nat /\ pos <= Top.hi + 1
  BY <1>0, AtFacts DEF Loops, IInv, NodeInv, NULL
<1>2. Moves(pos + 1)
  BY <1>1, ThenNextMoves DEF Literal
<1>3. PICK S \in SUBSET {pos} : Steal(S) /\ (pos \in S \/ Token = "num")
  BY DEF Literal
<1>4. TakenBefore(pos + 1)
  BY <1>1, <1>3, TakeSome DEF IInv, Token, Named
<1> QED
  BY <1>0, <1>1, <1>2, <1>4, MovesFlow

\* ParenOpen.
LEMMA ParenOpenFlow == IInv /\ FlowInv /\ ParenOpen => FlowInv'
<1> SUFFICES ASSUME IInv, FlowInv, ParenOpen PROVE FlowInv'
  OBVIOUS
<1>0. At("start") /\ ~ret.error
  <2>1. At("start")
    BY DEF ParenOpen
  <2> QED
    BY <2>1, AtFlow, Points DEF Waiting
<1>1. /\ "start" \notin Loops /\ "start" # "scopeEnd" /\ pos \in Nat \ {0}
      /\ pos + 1 \in Nat /\ pos <= pos + 1 /\ pos < pos + 1
      /\ Top.hi \in Nat /\ Top.res \in Nat /\ nextId \in Nat /\ NULL \in Nat
      /\ ret.expr \in Nat /\ pos <= Top.hi + 1
  BY <1>0, AtFacts DEF Loops, IInv, NodeInv, NULL
<1>2. PICK q : q = NextToken(pos + 1, Top.hi)
  OBVIOUS
<1>3. /\ q \in Nat /\ pos <= q /\ q + 1 \in Nat /\ pos <= q + 1
      /\ \A j \in pos..q - 1 : tokens[j] \notin Named
  <2>1. pos + 1 <= Top.hi + 1
    BY <1>0, <1>1, AtFacts, Points
  <2>2. q \in pos + 1..Top.hi + 1
    BY <1>1, <1>2, <2>1, NextTokenInWindow
  <2>3. \A j \in pos + 1..q - 1 : tokens[j] = "newline"
    BY <1>1, <1>2, <2>1, NextTokenStops
  <2>4. tokens[pos] = "lparen"
    BY DEF ParenOpen, Token
  <2> QED
    BY <1>1, <2>2, <2>3, <2>4 DEF Named
<1>4. TakenBefore(q) /\ (tokens[q] = "rparen" => TakenBefore(q + 1))
  <2>1. UNCHANGED ptr
    BY DEF ParenOpen, heap
  <2>2. TakenBefore(q)
    BY <1>1, <1>3, <2>1, TakeNone
  <2>3. ASSUME tokens[q] = "rparen" PROVE TakenBefore(q + 1)
    <3>1. \A j \in pos..q + 1 - 1 : tokens[j] \notin Named
      BY <1>1, <1>3, <2>3 DEF Named
    <3> QED
      BY <1>1, <1>3, <2>1, <3>1, TakeNone
  <2> QED
    BY <2>2, <2>3
<1>5. \/ Fail(NULL) \/ Call([Top EXCEPT !.pc = "paren"], q)
      \/ tokens[q] = "rparen" /\ ThenNext(NULL, q + 1)
  BY <1>2 DEF ParenOpen
<1>6. Fail(NULL) \/ (tokens[q] = "rparen" /\ Moves(q + 1)) \/ Moves(q)
  BY <1>1, <1>5, ThenNextMoves DEF Moves
<1>7. CASE Fail(NULL)
  BY <1>0, <1>1, <1>7, EndsFlow
<1>8. CASE (tokens[q] = "rparen" /\ Moves(q + 1)) \/ Moves(q)
  BY <1>0, <1>1, <1>3, <1>4, <1>8, MovesFlow
<1> QED
  BY <1>6, <1>7, <1>8

\* ParenClose.
LEMMA ParenCloseFlow == IInv /\ FlowInv /\ ParenClose => FlowInv'
<1> SUFFICES ASSUME IInv, FlowInv, ParenClose PROVE FlowInv'
  OBVIOUS
<1>0. At("paren")
  BY DEF ParenClose
<1>1. /\ "paren" \notin Loops /\ "paren" # "scopeEnd" /\ pos \in Nat \ {0}
      /\ pos + 1 \in Nat /\ pos <= pos + 1 /\ pos < pos + 1
      /\ Top.hi \in Nat /\ Top.res \in Nat /\ nextId \in Nat /\ NULL \in Nat
      /\ ret.expr \in Nat /\ pos <= Top.hi + 1
  BY <1>0, AtFacts DEF Loops, IInv, NodeInv, NULL
<1>2. CASE ret.error
  BY <1>0, <1>1, <1>2, EndsFlow DEF ParenClose
<1>3. CASE ~ret.error
  <2>1. PICK q : q = NextToken(pos, Top.hi)
    OBVIOUS
  <2>2. q \in pos..Top.hi + 1
    BY <1>1, <2>1, NextTokenInWindow
  <2>3. q + 1 \in Nat /\ pos <= q + 1 /\ (tokens[q] = "rparen" => TakenBefore(q + 1))
    <3>1. \A j \in pos..q - 1 : tokens[j] = "newline"
      BY <1>1, <2>1, NextTokenStops
    <3>2. q + 1 \in Nat /\ pos <= q + 1
      BY <1>1, <2>2
    <3>3. ASSUME tokens[q] = "rparen" PROVE TakenBefore(q + 1)
      <4>1. \A j \in pos..q + 1 - 1 : tokens[j] \notin Named
        <5>1. \A j \in pos..q : tokens[j] \notin Named
          BY <1>1, <2>2, <3>1, <3>3 DEF Named
        <5> QED
          BY <1>1, <2>2, <5>1
      <4> QED
        <5>1. UNCHANGED ptr
          BY DEF ParenClose
        <5> QED
          BY <1>1, <2>2, <3>2, <4>1, <5>1, TakeNone
    <3> QED
      BY <3>2, <3>3
  <2>4. \/ Crash("paren_value") \/ Crash("paren_close") \/ Fail(ret.expr)
        \/ tokens[q] = "rparen" /\ ThenNext(ret.expr, q + 1)
    BY <1>3, <2>1 DEF ParenClose
  <2>5. CASE Crash("paren_value") \/ Crash("paren_close") \/ Fail(ret.expr)
    BY <1>0, <1>1, <1>3, <2>5, EndsFlow DEF Faults
  <2>6. CASE tokens[q] = "rparen" /\ ThenNext(ret.expr, q + 1)
    <3>1. Moves(q + 1)
      BY <1>1, <2>6, ThenNextMoves
    <3> QED
      BY <1>0, <1>1, <1>3, <2>3, <2>6, <3>1, MovesFlow
  <2> QED
    BY <2>4, <2>5, <2>6
<1> QED
  BY <1>2, <1>3

\* NextLabel.
LEMMA NextLabelFlow == IInv /\ FlowInv /\ NextLabel => FlowInv'
<1> SUFFICES ASSUME IInv, FlowInv, NextLabel PROVE FlowInv'
  OBVIOUS
<1>0. At("next") /\ ~ret.error
  <2>1. At("next")
    BY DEF NextLabel
  <2> QED
    BY <2>1, AtFlow, Points DEF Waiting
<1>1. /\ "next" \notin Loops /\ "next" # "scopeEnd" /\ pos \in Nat \ {0}
      /\ pos + 1 \in Nat /\ pos <= pos + 1 /\ pos < pos + 1
      /\ Top.hi \in Nat /\ Top.res \in Nat /\ nextId \in Nat /\ NULL \in Nat
      /\ ret.expr \in Nat /\ pos <= Top.hi + 1
  BY <1>0, AtFacts DEF Loops, IInv, NodeInv, NULL
<1>2. CASE Return(Top.res, pos) /\ UNCHANGED heap
  <2>1. pos <= pos /\ pos \in Nat
    BY <1>1
  <2>2. Moves(pos)
    BY <1>1, <1>2 DEF Moves
  <2>3. TakenBefore(pos)
    BY <1>1, <1>2, TakeNone DEF heap
  <2> QED
    BY <1>0, <1>1, <2>1, <2>2, <2>3, MovesFlow
<1>3. CASE Fail(nextId)
  BY <1>0, <1>1, <1>3, EndsFlow
<1>4. PICK q : q = NextToken(pos + 1, Top.hi)
  OBVIOUS
<1>5. CASE Token \in Operators /\ UNCHANGED ptr /\ Call([Top EXCEPT !.pc = "operand", !.res = nextId], q)
  <2>1. q \in Nat /\ pos <= q /\ \A j \in pos..q - 1 : tokens[j] \notin Named
    <3>1. pos + 1 <= Top.hi + 1
      BY <1>0, <1>1, AtFacts, Points
    <3>2. q \in pos + 1..Top.hi + 1
      BY <1>1, <1>4, <3>1, NextTokenInWindow
    <3>3. \A j \in pos + 1..q - 1 : tokens[j] = "newline"
      BY <1>1, <1>4, <3>1, NextTokenStops
    <3>4. tokens[pos] \notin Named
      BY <1>5 DEF Token, Operators, Named
    <3> QED
      BY <1>1, <3>2, <3>3, <3>4 DEF Named
  <2>2. Moves(q)
    BY <1>1, <1>5 DEF Moves
  <2>3. TakenBefore(q)
    BY <1>1, <1>5, <2>1, TakeNone
  <2> QED
    BY <1>0, <1>1, <2>1, <2>2, <2>3, MovesFlow
<1> QED
  BY <1>2, <1>3, <1>4, <1>5 DEF NextLabel

\* Settle.
LEMMA SettleFlow == IInv /\ FlowInv /\ Settle => FlowInv'
<1> SUFFICES ASSUME IInv, FlowInv, Settle PROVE FlowInv'
  OBVIOUS
<1>0. At("settle") /\ ~ret.error
  <2>1. At("settle")
    BY DEF Settle
  <2> QED
    BY <2>1, AtFlow, Points DEF Waiting
<1>1. /\ "settle" \notin Loops /\ "settle" # "scopeEnd" /\ pos \in Nat \ {0}
      /\ pos + 1 \in Nat /\ pos <= pos + 1 /\ pos < pos + 1
      /\ Top.hi \in Nat /\ Top.res \in Nat /\ nextId \in Nat /\ NULL \in Nat
      /\ ret.expr \in Nat /\ pos <= Top.hi + 1
  BY <1>0, AtFacts DEF Loops, IInv, NodeInv, NULL
<1>2. pos <= pos /\ pos \in Nat
  BY <1>1
<1>3. Moves(pos)
  BY <1>1 DEF Settle, Moves
<1>4. TakenBefore(pos)
  BY <1>1, TakeNone DEF Settle, heap
<1> QED
  BY <1>0, <1>1, <1>2, <1>3, <1>4, MovesFlow

\* FuncStart.
LEMMA FuncStartFlow == IInv /\ FlowInv /\ FuncStart => FlowInv'
<1> SUFFICES ASSUME IInv, FlowInv, FuncStart PROVE FlowInv'
  OBVIOUS
<1>0. At("start") /\ ~ret.error
  <2>1. At("start")
    BY DEF FuncStart
  <2> QED
    BY <2>1, AtFlow, Points DEF Waiting
<1>1. /\ "start" \notin Loops /\ "start" # "scopeEnd" /\ pos \in Nat \ {0}
      /\ pos + 1 \in Nat /\ pos <= pos + 1 /\ pos < pos + 1
      /\ Top.hi \in Nat /\ Top.res \in Nat /\ nextId \in Nat /\ NULL \in Nat
      /\ ret.expr \in Nat /\ pos <= Top.hi + 1
  BY <1>0, AtFacts DEF Loops, IInv, NodeInv, NULL
<1>2. CASE Fail(NULL)
  BY <1>0, <1>1, <1>2, EndsFlow
<1>3. CASE /\ Continue([Top EXCEPT !.pc = "funcName", !.res = nextId], pos + 1)
           /\ UNCHANGED <<ptr, strings>>
  <2>1. "funcName" \in Reading
    BY DEF Reading
  <2>2. Moves(pos + 1)
    BY <1>1, <1>3, <2>1 DEF Moves
  <2>3. TakenBefore(pos + 1)
    BY <1>1, <1>3, TakeNone DEF FuncStart, Token, Named
  <2> QED
    BY <1>0, <1>1, <2>2, <2>3, MovesFlow
<1> QED
  BY <1>2, <1>3 DEF FuncStart

\* FuncName.
LEMMA FuncNameFlow == IInv /\ FlowInv /\ FuncName => FlowInv'
<1> SUFFICES ASSUME IInv, FlowInv, FuncName PROVE FlowInv'
  OBVIOUS
<1>0. At("funcName") /\ ~ret.error
  <2>1. At("funcName")
    BY DEF FuncName
  <2> QED
    BY <2>1, AtFlow, Points DEF Waiting
<1>1. /\ "funcName" \notin Loops /\ "funcName" # "scopeEnd" /\ pos \in Nat \ {0}
      /\ pos + 1 \in Nat /\ pos <= pos + 1 /\ pos < pos + 1
      /\ Top.hi \in Nat /\ Top.res \in Nat /\ nextId \in Nat /\ NULL \in Nat
      /\ ret.expr \in Nat /\ pos <= Top.hi + 1
  BY <1>0, AtFacts DEF Loops, IInv, NodeInv, NULL
<1>2. CASE Fail(Top.res) \/ Crash("args_end")
  BY <1>0, <1>1, <1>2, EndsFlow DEF Faults
<1>3. PICK q : q = NextToken(pos + 2, Top.hi)
  OBVIOUS
<1>4. CASE /\ Follows({"lparen"}) /\ Steal({pos})
           /\ Continue([Top EXCEPT !.pc = "funcArgs"], q)
  <2>1. pos + 2 \in Nat /\ pos + 2 <= Top.hi + 1
    BY <1>1, <1>4 DEF Follows, LastToken
  <2>2. q \in pos + 2..Top.hi + 1
    BY <1>1, <1>3, <2>1, NextTokenInWindow
  <2>3. q \in Nat /\ pos < q /\ pos <= q
    BY <1>1, <2>2
  <2>4. "funcArgs" \in Reading
    BY DEF Reading
  <2>5. Moves(q)
    BY <1>1, <1>4, <2>4 DEF Moves
  <2>6. TakenBefore(q)
    <3>1. \A j \in pos + 2..q - 1 : tokens[j] = "newline"
      BY <1>1, <1>3, <2>1, NextTokenStops
    <3>2. tokens[pos + 1] = "lparen"
      BY <1>4 DEF Follows
    <3>3. \A j \in pos..q - 1 : j = pos \/ tokens[j] \notin Named
      BY <1>1, <2>2, <3>1, <3>2 DEF Named
    <3> QED
      BY <1>1, <1>4, <2>3, <3>3, TakeOne DEF IInv
  <2> QED
    BY <1>0, <1>1, <2>3, <2>5, <2>6, MovesFlow
<1> QED
  BY <1>2, <1>3, <1>4 DEF FuncName

\* FuncArg.
LEMMA FuncArgFlow == IInv /\ FlowInv /\ FuncArg => FlowInv'
<1> SUFFICES ASSUME IInv, FlowInv, FuncArg PROVE FlowInv'
  OBVIOUS
<1>0. At("funcArgs") /\ ~ret.error
  <2>1. At("funcArgs")
    BY DEF FuncArg
  <2> QED
    BY <2>1, AtFlow, Points DEF Waiting
<1>1. /\ "funcArgs" \notin Loops /\ "funcArgs" # "scopeEnd" /\ pos \in Nat \ {0}
      /\ pos + 1 \in Nat /\ pos <= pos + 1 /\ pos < pos + 1
      /\ Top.hi \in Nat /\ Top.res \in Nat /\ nextId \in Nat /\ NULL \in Nat
      /\ ret.expr \in Nat /\ pos <= Top.hi + 1
  BY <1>0, AtFacts DEF Loops, IInv, NodeInv, NULL
<1>2. CASE Fail(Top.res)
  BY <1>0, <1>1, <1>2, EndsFlow
<1>3. PICK q : q = NextToken(pos + 2, Top.hi)
  OBVIOUS
<1>4. CASE /\ ~LastToken /\ Steal({pos, pos + 1})
           /\ Continue(Top, q) \/ (tokens[q] = "comma" /\ Continue(Top, q + 1))
  <2>1. pos + 2 \in Nat /\ pos + 2 <= Top.hi + 1
    BY <1>1, <1>4 DEF LastToken
  <2>2. q \in pos + 2..Top.hi + 1
    BY <1>1, <1>3, <2>1, NextTokenInWindow
  <2>3. /\ q \in Nat /\ pos <= q /\ q + 1 \in Nat /\ pos <= q + 1
        /\ \A k \in {pos, pos + 1} : k < q /\ k < q + 1
    BY <1>1, <2>2
  <2>4. Top.pc \in Reading \ {"scope"}
    BY <1>0, AtFlow DEF Reading
  <2>5. Moves(q) \/ (tokens[q] = "comma" /\ Moves(q + 1))
    BY <1>4, <2>4 DEF Moves
  <2>6. \A j \in pos + 2..q - 1 : tokens[j] = "newline"
    BY <1>1, <1>3, <2>1, NextTokenStops
  <2>7. TakenBefore(q)
    <3>1. \A j \in pos..q - 1 : j \in {pos, pos + 1} \/ tokens[j] \notin Named
      BY <1>1, <2>2, <2>6 DEF Named
    <3> QED
      BY <1>1, <1>4, <2>3, <3>1, TakeSome DEF IInv
  <2>8. ASSUME tokens[q] = "comma" PROVE TakenBefore(q + 1)
    <3>1. \A j \in pos..q + 1 - 1 : j \in {pos, pos + 1} \/ tokens[j] \notin Named
      BY <1>1, <2>2, <2>6, <2>8 DEF Named
    <3> QED
      BY <1>1, <1>4, <2>3, <3>1, TakeSome DEF IInv
  <2> QED
    BY <1>0, <1>1, <2>3, <2>5, <2>7, <2>8, MovesFlow
<1> QED
  BY <1>2, <1>3, <1>4 DEF FuncArg

\* FuncReturn.
LEMMA FuncReturnFlow == IInv /\ FlowInv /\ FuncReturn => FlowInv'
<1> SUFFICES ASSUME IInv, FlowInv, FuncReturn PROVE FlowInv'
  OBVIOUS
<1>0. At("funcArgs") /\ ~ret.error
  <2>1. At("funcArgs")
    BY DEF FuncReturn
  <2> QED
    BY <2>1, AtFlow, Points DEF Waiting
<1>1. /\ "funcArgs" \notin Loops /\ "funcArgs" # "scopeEnd" /\ pos \in Nat \ {0}
      /\ pos + 1 \in Nat /\ pos <= pos + 1 /\ pos < pos + 1
      /\ Top.hi \in Nat /\ Top.res \in Nat /\ nextId \in Nat /\ NULL \in Nat
      /\ ret.expr \in Nat /\ pos <= Top.hi + 1
  BY <1>0, AtFacts DEF Loops, IInv, NodeInv, NULL
<1>2. CASE Fail(Top.res)
  BY <1>0, <1>1, <1>2, EndsFlow
<1>3. CASE /\ Steal({pos + 1})
           /\ \/ Return(Top.res, pos + 2)
              \/ tokens[pos + 2] = "lbrace" /\ Continue([Top EXCEPT !.pc = "scope"], pos + 2)
  <2>1. pos + 2 \in Nat /\ pos <= pos + 2 /\ pos + 1 < pos + 2
    BY <1>1
  <2>2. "scope" \in Reading
    BY DEF Reading
  <2>3. Moves(pos + 2)
    BY <1>1, <1>3, <2>2 DEF Moves
  <2>4. TakenBefore(pos + 2)
    <3>1. tokens[pos] = "rparen"
      BY DEF FuncReturn, Token
    <3>2. \A j \in pos..pos + 2 - 1 : j = pos + 1 \/ tokens[j] \notin Named
      BY <1>1, <3>1 DEF Named
    <3> QED
      BY <1>1, <1>3, <2>1, <3>2, TakeOne DEF IInv
  <2> QED
    BY <1>0, <1>1, <2>1, <2>3, <2>4, MovesFlow
<1> QED
  BY <1>2, <1>3 DEF FuncReturn

\* Operand.
LEMMA OperandFlow == IInv /\ FlowInv /\ Operand => FlowInv'
<1> SUFFICES ASSUME IInv, FlowInv, Operand PROVE FlowInv'
  OBVIOUS
<1>0. At("operand")
  BY DEF Operand
<1>1. /\ stack # <<>> /\ Top.pc = "operand" /\ StackInv /\ UNCHANGED <<tokens, phase>>
      /\ "operand" \notin Loops
      /\ ~ret.error => Fresh(pos)
      /\ UNCHANGED ptr
      /\ Top \in FrameRecord
  <2>1. /\ stack # <<>> /\ Top.pc = "operand" /\ StackInv /\ UNCHANGED <<tokens, phase>>
        /\ ~ret.error => Fresh(pos)
    BY <1>0, AtFlow
  <2> QED
    BY <2>1, TopFacts DEF Loops, Operand
<1>2. CASE ret.error
  BY <1>0, <1>1, <1>2, EndsFlow DEF Operand
<1>3. CASE ~ret.error
  <2>1. PICK f : f = [Top EXCEPT !.pc = "settle"]
    OBVIOUS
  <2>2. /\ f \in FrameRecord /\ f.hi = Top.hi /\ f.pc = "settle"
    BY <1>1, <2>1 DEF FrameRecord, PCs
  <2>3. /\ stack' = [stack EXCEPT ![Len(stack)] = f]
        /\ ret' = Nothing /\ UNCHANGED <<pos, messages, fault>>
    BY <1>3, <2>1 DEF Operand, Top
  <2>4. /\ stack' # <<>> /\ stack'[Len(stack')] = f /\ Shape(stack', tokens)
    BY <1>1, <2>2, <2>3, ReplaceShape DEF StackInv, FlowInv, Top, Loops
  <2>5. ErrorInv'
    BY <1>3, <2>3 DEF FlowInv, ErrorInv, ErrorsAccounted, Nothing
  <2>6. Fresh(pos)'
    <3>1. UNCHANGED pos
      BY <2>3
    <3>2. /\ \A k \in pos..Len(tokens) : ptr'[k] = PtrOf(k, tokens[k])
          /\ \A k \in 1..Len(tokens) : k < pos /\ tokens[k] \in Named => ptr'[k] # k
      BY <1>1, <1>3 DEF Fresh
    <3> QED
      BY <1>1, <3>1, <3>2 DEF Fresh
  <2>7. FreshInv'
    BY <2>2, <2>4, <2>6 DEF FreshInv, Top
  <2> QED
    BY <1>1, <2>4, <2>5, <2>7 DEF FlowInv
<1> QED
  BY <1>2, <1>3

\* ScopeOpen.
LEMMA ScopeOpenFlow == IInv /\ FlowInv /\ ScopeOpen => FlowInv'
<1> SUFFICES ASSUME IInv, FlowInv, ScopeOpen PROVE FlowInv'
  OBVIOUS
<1>1. PICK pc \in {"scope", "start"} : At(pc)
  BY DEF ScopeOpen
<1>2. /\ stack # <<>> /\ Top.pc = pc /\ StackInv /\ UNCHANGED tokens
      /\ ~ret.error /\ Fresh(pos)
  BY <1>1, AtFlow, Points DEF Waiting
<1>3. /\ Top \in FrameRecord /\ Top.hi \in Nat /\ nextId \in Nat /\ pos \in Nat \ {0}
      /\ pc \notin Loops /\ pc # "scopeEnd" /\ PtrInv /\ Len(tokens) \in Nat
  BY <1>2, TopFacts DEF Loops, IInv, NodeInv, StackInv
<1>4. CASE Fail(Top.res)
  BY <1>1, <1>2, <1>3, <1>4, EndsFlow
<1>5. ASSUME NEW q \in pos + 1..Top.hi,
             stack' = Append([stack EXCEPT ![Len(stack)].pc = "scopeEnd",
                                           ![Len(stack)].close = q],
                             Frame("loop", FALSE, nextId, q - 1)),
             Closes(pos + 1, q), pos' = pos + 1, ret' = Nothing,
             UNCHANGED <<messages, fault>>
      PROVE  FlowInv'
  <2>1. q \in Nat /\ q - 1 \in Nat
    BY <1>3
  <2>2. PICK f, g : /\ f = [Top EXCEPT !.pc = "scopeEnd", !.close = q]
                    /\ g = Frame("loop", FALSE, nextId, q - 1)
    OBVIOUS
  <2>3. /\ f \in FrameRecord /\ f.hi = Top.hi /\ f.pc = "scopeEnd" /\ f.close = q
        /\ g \in FrameRecord /\ g.hi = q - 1 /\ g.pc = "loop"
    BY <1>3, <2>1, <2>2 DEF FrameRecord, Frame, PCs
  <2>4. stack' = Append([stack EXCEPT ![Len(stack)] = f], g)
    BY <1>5, <2>2 DEF Top
  <2>5. PICK t : t = [stack EXCEPT ![Len(stack)] = f]
    OBVIOUS
  <2>0. tokens[f.close] = "rbrace"
    BY <1>5, <2>3 DEF Closes
  <2>11. /\ stack \in Seq(FrameRecord) /\ stack # <<>> /\ Shape(stack, tokens)
         /\ f \in FrameRecord /\ f.hi = stack[Len(stack)].hi
         /\ f.pc \in Loops <=> stack[Len(stack)].pc \in Loops
         /\ f.pc = "scopeEnd" => tokens[f.close] = "rbrace"
    BY <1>2, <1>3, <2>0, <2>3 DEF StackInv, FlowInv, Top, Loops
  <2>6. t \in Seq(FrameRecord) /\ t # <<>> /\ t[Len(t)] = f /\ Shape(t, tokens)
    <3>1. LET u == [stack EXCEPT ![Len(stack)] = f]
          IN  /\ u \in Seq(FrameRecord) /\ u # <<>> /\ Len(u) = Len(stack)
              /\ u[Len(stack)] = f /\ Shape(u, tokens)
      BY <2>11, ReplaceShape
    <3> QED
      BY <2>5, <3>1
  <2>7. stack' # <<>> /\ stack'[Len(stack')] = g /\ Shape(stack', tokens)
    BY <2>3, <2>4, <2>5, <2>6, AppendShape DEF Loops
  <2>8. ErrorInv'
    BY <1>2, <1>5 DEF FlowInv, ErrorInv, ErrorsAccounted, Nothing
  <2>9. Fresh(pos)'
    <3>1. UNCHANGED ptr
      BY DEF ScopeOpen
    <3>2. PICK p \in Nat : p = pos + 1
      BY <1>3
    <3>3. pos <= p
      BY <1>3, <3>2
    <3>5. \A k \in pos..p - 1 : k \in 1..Len(tokens) /\ tokens[k] \in Named => ptr'[k] # k
      <4>1. tokens[pos] = "lbrace"
        BY <1>2 DEF ScopeOpen, At, FlowInv, FreshInv, Sound, Token
      <4> QED
        BY <1>3, <3>2, <4>1 DEF Named
    <3>4. Fresh(p)'
      BY <1>2, <1>3, <3>1, <3>3, <3>5, FreshLater
    <3> QED
      BY <1>5, <3>2, <3>4 DEF Fresh
  <2>10. FreshInv'
    BY <2>3, <2>7, <2>9 DEF FreshInv, Top
  <2> QED
    BY <1>2, <2>7, <2>8, <2>10 DEF FlowInv
<1> QED
  BY <1>4, <1>5 DEF ScopeOpen

\* ScopeEnd.
LEMMA ScopeEndFlow == IInv /\ FlowInv /\ ScopeEnd => FlowInv'
<1> SUFFICES ASSUME IInv, FlowInv, ScopeEnd PROVE FlowInv'
  OBVIOUS
<1>1. At("scopeEnd") /\ UNCHANGED ptr
  BY DEF ScopeEnd
<1>2. /\ stack # <<>> /\ Top.pc = "scopeEnd" /\ StackInv /\ UNCHANGED tokens
      /\ phase = "parse" /\ fault = "none"
  BY <1>1, AtFlow
<1>3. ~ret.error /\ "scopeEnd" \notin Loops
  BY <1>1, AtFlow DEF Answered, Loops
<1>4. CASE Fail(Top.res) \/ Crash("func_garbage")
  BY <1>1, <1>3, <1>4, EndsFlow DEF Faults
<1>5. CASE ret.expr # NULL /\ \E e : Return(e, Top.close + 1)
  <2>1. Fresh(pos) /\ pos = Top.close
    BY <1>2, <1>3, <1>5 DEF FlowInv, FreshInv, Sound
  <2>2. /\ Top.close + 1 \in Nat /\ pos \in Nat \ {0} /\ PtrInv /\ Len(tokens) \in Nat
    BY <1>2, TopFacts DEF IInv, StackInv
  <2>5. tokens[pos] = "rbrace"
    <3>1. Len(stack) \in 1..Len(stack)
      BY <1>2, EmptySeq DEF StackInv
    <3> QED
      BY <1>2, <2>1, <3>1 DEF FlowInv, Shape, Top
  <2>3. PICK p : p = Top.close + 1
    OBVIOUS
  <2>6. \A k \in pos..p - 1 : k \in 1..Len(tokens) /\ tokens[k] \in Named => ptr'[k] # k
    BY <2>1, <2>2, <2>3, <2>5 DEF Named
  <2>7. pos <= p /\ p \in Nat
    BY <2>1, <2>2, <2>3
  <2>4. Fresh(p)'
    BY <1>1, <1>2, <2>1, <2>2, <2>6, <2>7, FreshLater
  <2> QED
    BY <1>2, <1>3, <1>5, <2>3, <2>4, ReturnFlow
<1> QED
  BY <1>4, <1>5 DEF ScopeEnd

\* BodyNext.
LEMMA BodyNextFlow == IInv /\ FlowInv /\ BodyNext => FlowInv'
<1> SUFFICES ASSUME IInv, FlowInv, BodyNext PROVE FlowInv'
  OBVIOUS
<1>1. At("loop") /\ UNCHANGED ptr
  BY DEF BodyNext, heap
<1>2. /\ stack # <<>> /\ Top.pc = "loop" /\ StackInv /\ UNCHANGED <<tokens, phase>>
      /\ ~ret.error /\ Fresh(pos)
  BY <1>1, AtFlow DEF Waiting
<1>3. /\ Top \in FrameRecord /\ Top.hi \in Nat /\ pos <= Top.hi + 1 /\ pos \in Nat
      /\ "loop" \in Loops
  BY <1>2, TopFacts DEF Loops, StackInv
<1>4. CASE pos > Top.hi /\ Return(Top.res, pos)
  <2>1. /\ stack' = Pop /\ pos' = pos /\ ret' = [expr |-> Top.res, error |-> FALSE]
        /\ UNCHANGED <<messages, fault>>
    BY <1>4 DEF Return
  <2>2. /\ Shape(stack', tokens)
        /\ stack' # <<>> => /\ Top'.pc = "scopeEnd"
                            /\ Top.hi = Top'.close - 1 /\ Top'.close \in Nat
        /\ stack' = <<>> => Top.hi = Len(tokens)
    BY <1>2, <1>3, <2>1, CallerFlow
  <2>3. ErrorInv'
    BY <1>2, <2>1 DEF FlowInv, ErrorInv, ErrorsAccounted
  <2>0. pos = Top.hi + 1
    BY <1>3, <1>4
  <2>4. stack' # <<>> => pos' = Top'.close
    <3>1. ASSUME NEW c \in Nat, Top.hi = c - 1
          PROVE  pos = c
      BY <1>3, <2>0, <3>1
    <3> QED
      BY <2>1, <2>2, <3>1
  <2>5. Fresh(pos)'
    BY <1>1, <1>2, <2>1 DEF Fresh
  <2>6. FreshInv'
    <3>1. stack' = <<>> => pos = Len(tokens) + 1
      BY <2>0, <2>2
    <3>2. stack' = <<>> => Fresh(Len(tokens) + 1)'
      BY <1>2, <2>1, <2>5, <3>1 DEF Fresh
    <3> QED
      BY <2>2, <2>4, <2>5, <3>2 DEF FreshInv
  <2> QED
    BY <1>2, <2>2, <2>3, <2>6 DEF FlowInv
<1>5. CASE Call([Top EXCEPT !.pc = "item"], pos)
  <2>1. PICK f : f = [Top EXCEPT !.pc = "item"]
    OBVIOUS
  <2>2. f \in FrameRecord /\ f.hi = Top.hi /\ f.pc = "item" /\ f.pc \in Loops
    BY <1>3, <2>1 DEF FrameRecord, PCs, Loops
  <2>3. PICK p : p = pos
    OBVIOUS
  <2>4. Fresh(p)'
    BY <1>1, <1>2, <2>3 DEF Fresh
  <2> QED
    BY <1>2, <1>3, <1>5, <2>1, <2>2, <2>3, <2>4, CallFlow
<1> QED
  BY <1>4, <1>5 DEF BodyNext

\* BodyItem.
LEMMA BodyItemFlow == IInv /\ FlowInv /\ BodyItem => FlowInv'
<1> SUFFICES ASSUME IInv, FlowInv, BodyItem PROVE FlowInv'
  OBVIOUS
<1>1. At("item") /\ UNCHANGED ptr
  BY DEF BodyItem
<1>2. /\ stack # <<>> /\ Top.pc = "item" /\ StackInv /\ UNCHANGED <<tokens, phase>>
      /\ fault = "none" /\ Top \in FrameRecord
      /\ ~ret.error => Fresh(pos)
  BY <1>1, AtFlow, TopFacts
<1>3. CASE ret.error
  <2>1. stack' = Pop /\ ret' = Nothing /\ messages' = messages - 1 /\ fault' = fault
    BY <1>3 DEF BodyItem
  <2>2. messages = 1
    BY <1>2, <1>3 DEF FlowInv, ErrorInv, ErrorsAccounted
  <2>3. ErrorInv'
    BY <2>1, <2>2 DEF ErrorInv, ErrorsAccounted, Nothing
  <2>4. Shape(stack', tokens) /\ (stack' # <<>> => Top'.pc = "scopeEnd")
    BY <1>2, <2>1, CallerFlow DEF Loops
  <2>5. FreshInv'
    BY <2>1, <2>4 DEF FreshInv, Sound, Nothing, NULL
  <2> QED
    BY <1>2, <2>3, <2>4, <2>5 DEF FlowInv
<1>4. CASE ~ret.error
  <2>1. Continue([Top EXCEPT !.pc = "loop"], pos)
    BY <1>4 DEF BodyItem
  <2>2. PICK f : f = [Top EXCEPT !.pc = "loop"]
    OBVIOUS
  <2>3. f \in FrameRecord /\ f.hi = Top.hi /\ f.pc = "loop"
    BY <1>2, <2>2 DEF FrameRecord, PCs
  <2>4. PICK p : p = pos
    OBVIOUS
  <2>5. Fresh(p)'
    BY <1>1, <1>2, <1>4, <2>4 DEF Fresh
  <2> QED
    BY <1>2, <1>4, <2>1, <2>2, <2>3, <2>4, <2>5, ContinueFlow DEF Loops
<1> QED
  BY <1>3, <1>4

\* What only changes the pending calls and the nodes.
LEMMA SameFlow ==
  ASSUME FlowInv, UNCHANGED <<tokens, ptr, pos, stack, ret, messages, phase>>,
         fault' = fault \/ fault' # "none"
  PROVE  FlowInv'
<1>1. Shape(stack', tokens) /\ Top' = Top
  BY DEF FlowInv, Top
<1>2. ErrorInv'
  BY <1>1 DEF FlowInv, ErrorInv, ErrorsAccounted
<1>3. FreshInv'
  BY <1>1 DEF FlowInv, FreshInv, Sound, Fresh, Token
<1> QED
  BY <1>1, <1>2, <1>3 DEF FlowInv

\* process_operation.
LEMMA ProcessOperationFlow == IInv /\ FlowInv /\ process_operation => FlowInv'
<1> SUFFICES ASSUME IInv, FlowInv, process_operation PROVE FlowInv'
  OBVIOUS
<1> QED
  BY SameFlow DEF process_operation, Pending, Crash

\* DestroyNode.
LEMMA DestroyNodeFlow == IInv /\ FlowInv /\ DestroyNode => FlowInv'
<1> SUFFICES ASSUME IInv, FlowInv, DestroyNode PROVE FlowInv'
  OBVIOUS
<1> QED
  BY SameFlow DEF DestroyNode, Pending, Crash

\* PrintAst.
LEMMA PrintAstFlow == IInv /\ FlowInv /\ PrintAst => FlowInv'
<1> SUFFICES ASSUME IInv, FlowInv, PrintAst PROVE FlowInv'
  OBVIOUS
<1>1. stack = <<>> /\ UNCHANGED <<stack, messages>> /\ fault = "none"
  BY DEF PrintAst
<1>2. ~ret.error /\ messages = 0
  BY <1>1 DEF FlowInv, ErrorInv, ErrorsAccounted
<1>3. ~ret'.error
  BY <1>2 DEF PrintAst, Nothing
<1>4. FreshInv'
  <2>1. CASE UNCHANGED <<ret, phase>> /\ fault' # "none"
    BY <2>1 DEF FreshInv, Sound
  <2>2. CASE phase' = "free"
    BY <2>2 DEF FreshInv, Sound
  <2>3. \A n \in Unprintable :
          (IF nodes[n].type = "decl" THEN "value_printed" ELSE "arg_printed") # "none"
    OBVIOUS
  <2> QED
    BY <2>1, <2>2, <2>3 DEF PrintAst
<1>5. Shape(stack', tokens') /\ UNCHANGED tokens
  BY <1>1 DEF FlowInv, PrintAst
<1> QED
  BY <1>1, <1>2, <1>3, <1>4, <1>5 DEF FlowInv, ErrorInv, ErrorsAccounted

\* LexerFree.
LEMMA LexerFreeFlow == IInv /\ FlowInv /\ LexerFree => FlowInv'
<1> SUFFICES ASSUME IInv, FlowInv, LexerFree PROVE FlowInv'
  OBVIOUS
<1>1. /\ phase # "parse" /\ UNCHANGED <<stack, ret, messages>>
      /\ UNCHANGED tokens /\ phase' # "parse" /\ (fault' = fault \/ fault' # "none")
  BY DEF LexerFree
<1>2. Shape(stack', tokens) /\ Top' = Top
  BY <1>1 DEF FlowInv, Top
<1>3. ErrorInv' /\ FreshInv'
  BY <1>1, <1>2 DEF FlowInv, ErrorInv, ErrorsAccounted, FreshInv, Sound
<1> QED
  BY <1>1, <1>2, <1>3 DEF FlowInv

\* The initial states.
LEMMA InitFlow == Init => FlowInv
<1> SUFFICES ASSUME Init PROVE FlowInv
  OBVIOUS
<1>1. /\ stack = <<Frame("loop", FALSE, 1, Len(tokens))>>
      /\ ptr = [k \in 1..Len(tokens) |-> PtrOf(k, tokens[k])]
      /\ pos = 1 /\ ret = Nothing /\ messages = 0
  BY DEF Init
<1>2. Len(stack) = 1 /\ stack[1].pc = "loop" /\ stack[1].hi = Len(tokens)
  BY <1>1 DEF Frame
<1>3. Shape(stack, tokens)
  BY <1>2 DEF Shape, Loops
<1>4. ErrorInv
  BY <1>1 DEF ErrorInv, ErrorsAccounted, Nothing
<1>5. Fresh(pos)
  BY <1>1 DEF Fresh
<1>6. FreshInv
  BY <1>1, <1>2, <1>5 DEF FreshInv, Top
<1> QED
  BY <1>3, <1>4, <1>6 DEF FlowInv

\* Every step of the program keeps the invariant.
LEMMA NextFlow == IInv /\ FlowInv /\ [Next]_vars => FlowInv'
<1> SUFFICES ASSUME IInv, FlowInv, [Next]_vars PROVE FlowInv'
  OBVIOUS
<1>1. CASE UNCHANGED vars
  BY <1>1, SameFlow DEF vars, heap
<1>2. CASE Next
  BY <1>1, <1>2, DeclStartFlow, DeclNameFlow, DeclMarkFlow, DeclTypeFlow, DeclAssignFlow,
     DeclValueFlow, SkipTokenFlow, RejectTokenFlow, VariableFlow, LiteralFlow,
     ParenOpenFlow, ParenCloseFlow, NextLabelFlow, OperandFlow, SettleFlow, FuncStartFlow,
     FuncNameFlow, FuncArgFlow, FuncReturnFlow, ScopeOpenFlow, ScopeEndFlow, BodyNextFlow,
     BodyItemFlow, ProcessOperationFlow, DestroyNodeFlow, PrintAstFlow, LexerFreeFlow
  DEF Next, Stop
<1> QED
  BY <1>1, <1>2

-----------------------------------------------------------------------------
(* The theorems.                                                           *)

\* FlowInv holds in every reachable state.
LEMMA FlowInvariance == Spec => []FlowInv
BY Invariance, InitFlow, NextFlow, PTL DEF Spec

\* However deep the scopes and expressions in which a parse error happens, one
\* error String is alive while it unwinds the calls, and none at any other time:
\* ERROR_STR hands the String on, and ast_from_lexer clears it before its caller
\* makes the next one.
THEOREM ErrorsAreAccounted == Spec => []ErrorsAccounted
<1>1. FlowInv => ErrorsAccounted
  BY DEF FlowInv, ErrorInv
<1> QED
  BY <1>1, FlowInvariance, PTL

\* On every program the parser takes a string from its token only behind the
\* cursor: no token that it will still read has lost its string.
THEOREM TokensStayFresh == Spec => []FreshTokens
<1>1. FlowInv => FreshTokens
  BY DEF FlowInv, FreshInv, Sound, Fresh, FreshTokens
<1> QED
  BY <1>1, FlowInvariance, PTL

\* A program that is accepted, however it is nested, is in the tree with all its
\* names and strings: when main gets the tree, the parser has taken the string of
\* every token that has one, but for def and fn.
THEOREM ProgramsAreComplete == Spec => []NothingDropped
<1>1. IInv /\ FlowInv => NothingDropped
  <2> SUFFICES ASSUME IInv, FlowInv, phase = "parse", stack = <<>>, fault = "none",
                      ret.expr # NULL, NEW k \in DOMAIN tokens,
                      tokens[k] \in Identifiers \cup {"string"}, ptr[k] = k
               PROVE  tokens[k] \in {"def", "fn"}
    BY DEF NothingDropped
  <2>1. tokens \in Seq(TokenKinds) /\ k \in 1..Len(tokens) /\ k < Len(tokens) + 1
    BY DEF IInv, StackInv
  <2>2. Sound
    BY DEF FlowInv, ErrorInv, Sound
  <2>3. Fresh(Len(tokens) + 1)
    BY <2>2 DEF FlowInv, FreshInv
  <2>4. tokens[k] \notin Named
    BY <2>1, <2>3 DEF Fresh
  <2> QED
    BY <2>4 DEF Named, Identifiers, Keywords
<1> QED
  BY <1>1, Invariance, FlowInvariance, PTL

=============================================================================
