-------------------------- MODULE Ast_order_proofs --------------------------
(***************************************************************************)
(* Proofs about the shape of the tree in module Ast, for every set of      *)
(* token lists, unless the uninitialized local holds an earlier function.  *)
(*                                                                         *)
(* First: process_operation groups every expression by the priorities.  At *)
(* most one operation does not fit its right operand yet, the one that the *)
(* pending call is for.  Then: it keeps every operand on its side of the   *)
(* operator in the source.  Each node has a stretch of the source that     *)
(* holds it and all that is below it.                                      *)
(***************************************************************************)
EXTENDS Ast_memory_proofs

-----------------------------------------------------------------------------
(* The priorities.                                                         *)

\* The row of every operator, and its place in the list of process_operation.
LEMMA RowOf ==
  ASSUME NEW i \in 1..8, NEW op, op \in Rows[i], \A j \in 1..8 : op \in Rows[j] => j = i
  PROVE  Row(op) = i
<1>1. DOMAIN Rows = 1..8
  BY DEF Rows
<1> QED
  BY <1>1 DEF Row

LEMMA RowsAre ==
  /\ Rows[1] = {"=", "<", ">", "?", ":"} /\ Rows[2] = {"!"} /\ Rows[3] = {"~"}
  /\ Rows[4] = {"*", "/", "%"} /\ Rows[5] = {"+", "-"} /\ Rows[6] = {"&"}
  /\ Rows[7] = {"^"} /\ Rows[8] = {"|"}
BY DEF Rows

LEMMA RowTable ==
  /\ \A op \in {"=", "<", ">", "?", ":"} : Row(op) = 1
  /\ Row("!") = 2 /\ Row("~") = 3
  /\ \A op \in {"*", "/", "%"} : Row(op) = 4
  /\ \A op \in {"+", "-"} : Row(op) = 5
  /\ Row("&") = 6 /\ Row("^") = 7 /\ Row("|") = 8
<1>1. ASSUME NEW i \in 1..8, NEW op \in Rows[i] PROVE Row(op) = i
  <2>1. \A j \in 1..8 : op \in Rows[j] => j = i
    BY RowsAre
  <2> QED
    BY <2>1, RowOf
<1> QED
  BY <1>1, RowsAre

LEMMA PlaceOf ==
  ASSUME NEW i \in 1..10, NEW op, OPS_ORDERED_LIST[i] = op,
         \A j \in 1..10 : OPS_ORDERED_LIST[j] = op => j = i
  PROVE  OP_PRIORITY(op) = i - 1
<1>1. DOMAIN OPS_ORDERED_LIST = 1..10
  BY DEF OPS_ORDERED_LIST
<1> QED
  BY <1>1 DEF OP_PRIORITY

LEMMA PriorityTable ==
  /\ \A op \in {"=", "<", ">", "?", ":"} : OP_PRIORITY(op) = -1
  /\ OP_PRIORITY("!") = 0 /\ OP_PRIORITY("~") = 1
  /\ OP_PRIORITY("*") = 2 /\ OP_PRIORITY("/") = 3 /\ OP_PRIORITY("%") = 4
  /\ OP_PRIORITY("+") = 5 /\ OP_PRIORITY("-") = 6
  /\ OP_PRIORITY("&") = 7 /\ OP_PRIORITY("^") = 8 /\ OP_PRIORITY("|") = 9
<1> DEFINE L == OPS_ORDERED_LIST
<1>1. /\ DOMAIN L = 1..10
      /\ L[1] = "!" /\ L[2] = "~" /\ L[3] = "*" /\ L[4] = "/" /\ L[5] = "%"
      /\ L[6] = "+" /\ L[7] = "-" /\ L[8] = "&" /\ L[9] = "^" /\ L[10] = "|"
  BY DEF OPS_ORDERED_LIST
<1> HIDE DEF L
<1>2. ASSUME NEW i \in 1..10 PROVE OP_PRIORITY(L[i]) = i - 1
  <2>1. \A j \in 1..10 : L[j] = L[i] => j = i
    BY <1>1
  <2> QED
    BY <2>1, PlaceOf DEF L
<1>3. ASSUME NEW op \in {"=", "<", ">", "?", ":"} PROVE OP_PRIORITY(op) = -1
  <2>1. \A j \in 1..10 : L[j] # op
    BY <1>1
  <2> QED
    BY <1>1, <2>1 DEF OP_PRIORITY, L
<1> QED
  BY <1>1, <1>2, <1>3

\* The rows whose operations group to the left.
ToTheLeft == {4, 5}

\* An operation with operator a may be the left operand of one with b, without
\* parentheses, and one with c the right operand.
FitsLeft(a, b) == Row(a) < Row(b) \/ (Row(a) = Row(b) /\ Row(b) \in ToTheLeft)
FitsRight(c, b) == Row(c) < Row(b) \/ (Row(c) = Row(b) /\ Row(b) \notin ToTheLeft)

\* process_operation rebuilds what does not fit, and what it makes fits.
Regroups(a, b) == OP_PRIORITY(a) < OP_PRIORITY(b) \/ isLeftToRightPr(a, b)

LEMMA GroupingIsRight ==
  \A a, b \in Operators :
    /\ Regroups(a, b) => FitsLeft(a, b)
    /\ Regroups(a, b) <=> ~FitsRight(b, a)
<1> SUFFICES ASSUME NEW a \in Operators, NEW b \in Operators
             PROVE  /\ Regroups(a, b) => FitsLeft(a, b)
                    /\ Regroups(a, b) <=> ~FitsRight(b, a)
  OBVIOUS
<1> DEFINE r == Row(a)
           s == Row(b)
           p == OP_PRIORITY(a)
           q == OP_PRIORITY(b)
<1>1. \A op \in Operators :
        LET i == Row(op)
            j == OP_PRIORITY(op)
        IN  /\ i \in 1..8 /\ j \in -1..9
            /\ i = 1 <=> j = -1
            /\ i = 2 <=> j = 0
            /\ i = 3 <=> j = 1
            /\ i = 4 <=> op \in {"*", "/", "%"}
            /\ i = 4 <=> j \in 2..4
            /\ i = 5 <=> op \in {"+", "-"}
            /\ i = 5 <=> j \in 5..6
            /\ i = 6 <=> j = 7
            /\ i = 7 <=> j = 8
            /\ i = 8 <=> j = 9
  <2> SUFFICES ASSUME NEW op \in Operators
               PROVE  LET i == Row(op)
                          j == OP_PRIORITY(op)
                      IN  /\ i \in 1..8 /\ j \in -1..9
                          /\ i = 1 <=> j = -1
                          /\ i = 2 <=> j = 0
                          /\ i = 3 <=> j = 1
                          /\ i = 4 <=> op \in {"*", "/", "%"}
                          /\ i = 4 <=> j \in 2..4
                          /\ i = 5 <=> op \in {"+", "-"}
                          /\ i = 5 <=> j \in 5..6
                          /\ i = 6 <=> j = 7
                          /\ i = 7 <=> j = 8
                          /\ i = 8 <=> j = 9
    OBVIOUS
  <2>1. CASE op \in {"=", "<", ">", "?", ":"}
    BY <2>1, RowTable, PriorityTable
  <2>2. CASE op \in {"*", "/", "%"}
    BY <2>2, RowTable, PriorityTable
  <2>3. CASE op \in {"+", "-"}
    BY <2>3, RowTable, PriorityTable
  <2>4. CASE op \in {"!", "~", "&", "^", "|"}
    BY <2>4, RowTable, PriorityTable
  <2> QED
    BY <2>1, <2>2, <2>3, <2>4 DEF Operators
<1>2. /\ r \in 1..8 /\ p \in -1..9 /\ s \in 1..8 /\ q \in -1..9
      /\ r = 1 <=> p = -1
      /\ r = 2 <=> p = 0
      /\ r = 3 <=> p = 1
      /\ r = 4 <=> p \in 2..4
      /\ r = 5 <=> p \in 5..6
      /\ r = 6 <=> p = 7
      /\ r = 7 <=> p = 8
      /\ r = 8 <=> p = 9
      /\ s = 1 <=> q = -1
      /\ s = 2 <=> q = 0
      /\ s = 3 <=> q = 1
      /\ s = 4 <=> q \in 2..4
      /\ s = 5 <=> q \in 5..6
      /\ s = 6 <=> q = 7
      /\ s = 7 <=> q = 8
      /\ s = 8 <=> q = 9
      /\ isLeftToRightPr(a, b) <=> r = s /\ r \in {4, 5}
  BY <1>1 DEF isLeftToRightPr
<1> HIDE DEF r, s, p, q
<1>3. /\ (p < q \/ (r = s /\ r \in {4, 5})) => (r < s \/ (r = s /\ s \in {4, 5}))
      /\ (p < q \/ (r = s /\ r \in {4, 5})) <=> ~(s < r \/ (s = r /\ r \notin {4, 5}))
  BY <1>2
<1> QED
  BY <1>2, <1>3 DEF r, s, p, q, Regroups, FitsLeft, FitsRight, ToTheLeft

-----------------------------------------------------------------------------
(* The invariant of the grouping.                                          *)

\* m is an operation without parentheses.
Open(ns, m) == m \in DOMAIN ns /\ ns[m].type = "oper" /\ ~ns[m].wrapped

\* What process_operation asks of the operands of n while it is at work on h:
\* the operand on the left fits; if it is h, what h has on its right would fit
\* in its place; the operand on the right fits unless n is h.
LeftFits(ns, n, h) ==
  LET l == ns[n].left
  IN  Open(ns, l) =>
        /\ FitsLeft(ns[l].op, ns[n].op)
        /\ l = h /\ Open(ns, ns[l].right) => FitsLeft(ns[ns[l].right].op, ns[n].op)

RightFits(ns, n, h) ==
  LET r == ns[n].right
  IN  Open(ns, r) => r # h /\ (n = h \/ FitsRight(ns[r].op, ns[n].op))

Grouped(ns, h) ==
  /\ h # NULL => Open(ns, h)
  /\ \A n \in DOMAIN ns : ns[n].type = "oper" =>
       /\ ns[n].op \in Operators /\ ns[n].items = <<>>
       /\ LeftFits(ns, n, h) /\ RightFits(ns, n, h)

\* What a call knows of the type of its result.
FrameGroup(f, ns) ==
  /\ f.pc = "operand" => Open(ns, f.res)
  /\ f.pc = "next" => ~Open(ns, f.res)
  /\ f.pc \in {"loop", "item"} => f.res \in DOMAIN ns /\ ns[f.res].type = "body"

FramesGroup(s, ns) == \A d \in 1..Len(s) : FrameGroup(s[d], ns)

GroupInv ==
  /\ FramesGroup(stack, nodes)
  /\ \/ Grouped(nodes, NULL)
     \/ /\ calls # <<>> /\ Head(calls).fn = "process_operation"
        /\ Grouped(nodes, Head(calls).node)

\* The operations of t are operations of ns, with the same operands; they may have
\* got parentheses.
Quiet(ns, t) ==
  \A m \in DOMAIN t : t[m].type = "oper" =>
    /\ m \in DOMAIN ns /\ ns[m].type = "oper" /\ (ns[m].wrapped => t[m].wrapped)
    /\ t[m].op = ns[m].op /\ t[m].items = ns[m].items
    /\ t[m].left = ns[m].left /\ t[m].right = ns[m].right

LEMMA QuietGrouped ==
  ASSUME NEW ns, NEW t, Grouped(ns, NULL), Quiet(ns, t)
  PROVE  Grouped(t, NULL)
<1>1. \A m : Open(t, m) => Open(ns, m) /\ t[m].op = ns[m].op /\ t[m].right = ns[m].right
  BY DEF Quiet, Open
<1> SUFFICES ASSUME NEW n \in DOMAIN t, t[n].type = "oper"
             PROVE  /\ t[n].op \in Operators /\ t[n].items = <<>>
                    /\ LeftFits(t, n, NULL) /\ RightFits(t, n, NULL)
  BY DEF Grouped
<1>2. /\ n \in DOMAIN ns /\ ns[n].type = "oper" /\ t[n].op = ns[n].op
      /\ t[n].items = ns[n].items /\ t[n].left = ns[n].left /\ t[n].right = ns[n].right
  BY DEF Quiet
<1>3. /\ ns[n].op \in Operators /\ ns[n].items = <<>>
      /\ LeftFits(ns, n, NULL) /\ RightFits(ns, n, NULL)
  BY <1>2 DEF Grouped
<1>4. LeftFits(t, n, NULL)
  BY <1>1, <1>2, <1>3 DEF LeftFits
<1>5. RightFits(t, n, NULL)
  BY <1>1, <1>2, <1>3 DEF RightFits
<1> QED
  BY <1>2, <1>3, <1>4, <1>5

-----------------------------------------------------------------------------
(* Steps of the call on top.                                               *)

\* The results of the calls below are as they were.
Untouched == \A n \in Below(stack) : n \in DOMAIN nodes' /\ nodes'[n] = nodes[n]

\* What an action of the call on top starts from.
LEMMA AtGroup ==
  ASSUME IInv, NodesInv, GroupInv, NEW pc, At(pc)
  PROVE  /\ Grouped(nodes, NULL) /\ FrameGroup(Top, nodes)
         /\ stack # <<>> /\ stack \in Seq(FrameRecord) /\ Top \in FrameRecord /\ Top.pc = pc
         /\ Len(stack) \in Nat \ {0}
         /\ \A d \in 1..Len(stack) - 1 :
              /\ stack[d].pc \in Waiting /\ FrameGroup(stack[d], nodes)
              /\ stack[d].res = NULL \/ stack[d].res \in Below(stack)
<1>1. /\ stack # <<>> /\ Top.pc = pc /\ calls = <<>> /\ StackInv
  BY DEF At, IInv
<1>2. Len(stack) \in Nat \ {0} /\ Top \in FrameRecord /\ stack \in Seq(FrameRecord)
  BY <1>1, TopFacts DEF StackInv
<1>3. Len(stack) \in 1..Len(stack) /\ \A d \in 1..Len(stack) - 1 : d \in 1..Len(stack)
  BY <1>2
<1>4. \A d \in 1..Len(stack) - 1 : stack[d].pc \in Waiting
  BY <1>1 DEF StackInv, Nested
<1> QED
  BY <1>1, <1>2, <1>3, <1>4 DEF GroupInv, FramesGroup, Top, Below

\* The stack without its last element.
LEMMA PopFacts ==
  ASSUME stack \in Seq(FrameRecord), stack # <<>>
  PROVE  /\ Pop \in Seq(FrameRecord) /\ Len(Pop) = Len(stack) - 1
         /\ \A d \in 1..Len(stack) - 1 : Pop[d] = stack[d]
<1>1. Len(stack) \in Nat \ {0} /\ \A d \in 1..Len(stack) : stack[d] \in FrameRecord
  BY EmptySeq, ElementOfSeq
<1>2. \A d \in 1..Len(stack) - 1 : stack[d] \in FrameRecord
  BY <1>1
<1>3. /\ Pop \in Seq(FrameRecord)
      /\ Len(Pop) = IF 1 <= Len(stack) - 1 THEN Len(stack) - 1 - 1 + 1 ELSE 0
      /\ \A d \in 1..Len(stack) - 1 - 1 + 1 : Pop[d] = stack[1 + d - 1]
  BY <1>1, <1>2, SubSeqProperties DEF Pop
<1>4. ASSUME NEW m \in Nat \ {0}
      PROVE  /\ (IF 1 <= m - 1 THEN m - 1 - 1 + 1 ELSE 0) = m - 1
             /\ m - 1 - 1 + 1 = m - 1
             /\ \A d \in 1..m - 1 : 1 + d - 1 = d
  OBVIOUS
<1>5. /\ Len(stack) - 1 - 1 + 1 = Len(stack) - 1
      /\ \A d \in 1..Len(stack) - 1 : 1 + d - 1 = d
      /\ Len(Pop) = Len(stack) - 1
  BY <1>1, <1>3, <1>4
<1> QED
  BY <1>3, <1>5

\* It goes on, calls, or is done.
LEMMA MovesGroup ==
  ASSUME IInv, NodesInv, GroupInv, NEW pc, At(pc), Grouped(nodes', NULL), Untouched,
         \/ stack' = Pop
         \/ \E f \in FrameRecord :
              /\ FrameGroup(f, nodes')
              /\ \/ stack' = [stack EXCEPT ![Len(stack)] = f]
                 \/ \E g \in FrameRecord :
                      /\ FrameGroup(g, nodes')
                      /\ stack' = Append([stack EXCEPT ![Len(stack)] = f], g)
  PROVE  GroupInv'
<1>1. /\ stack # <<>> /\ stack \in Seq(FrameRecord) /\ Len(stack) \in Nat \ {0}
      /\ NULL \notin DOMAIN nodes
  BY AtGroup, AtNodes
<1>2. \A d \in 1..Len(stack) - 1 : FrameGroup(stack[d], nodes')
  <2> SUFFICES ASSUME NEW d \in 1..Len(stack) - 1 PROVE FrameGroup(stack[d], nodes')
    OBVIOUS
  <2>1. /\ stack[d].pc \in Waiting /\ FrameGroup(stack[d], nodes)
        /\ stack[d].res = NULL \/ stack[d].res \in Below(stack)
    BY AtGroup
  <2>2. stack[d].pc # "next" /\ stack[d].pc # "loop"
    BY <2>1, Points
  <2>3. CASE stack[d].res = NULL
    BY <1>1, <2>1, <2>2, <2>3 DEF FrameGroup, Open
  <2>4. CASE stack[d].res \in Below(stack)
    BY <2>1, <2>2, <2>4 DEF FrameGroup, Open, Untouched
  <2> QED
    BY <2>1, <2>3, <2>4
<1>3. CASE stack' = Pop
  <2>1. Len(stack') = Len(stack) - 1 /\ \A d \in 1..Len(stack) - 1 : stack'[d] = stack[d]
    BY <1>1, <1>3, PopFacts
  <2> QED
    BY <1>2, <2>1 DEF GroupInv, FramesGroup
<1>4. ASSUME NEW f \in FrameRecord, FrameGroup(f, nodes')
      PROVE  LET t == [stack EXCEPT ![Len(stack)] = f]
             IN  t \in Seq(FrameRecord) /\ Len(t) = Len(stack) /\ FramesGroup(t, nodes')
  <2> DEFINE t == [stack EXCEPT ![Len(stack)] = f]
  <2>1. /\ t \in Seq(FrameRecord) /\ Len(t) = Len(stack)
        /\ \A d \in 1..Len(stack) : t[d] = IF d = Len(stack) THEN f ELSE stack[d]
    BY <1>1, ExceptSeq
  <2> HIDE DEF t
  <2>2. \A d \in 1..Len(stack) : d = Len(stack) \/ d \in 1..Len(stack) - 1
    BY <1>1
  <2> QED
    BY <1>2, <1>4, <2>1, <2>2 DEF FramesGroup, t
<1>5. ASSUME NEW f \in FrameRecord, FrameGroup(f, nodes'),
             stack' = [stack EXCEPT ![Len(stack)] = f]
      PROVE  GroupInv'
  BY <1>4, <1>5 DEF GroupInv
<1>6. ASSUME NEW f \in FrameRecord, FrameGroup(f, nodes'), NEW g \in FrameRecord,
             FrameGroup(g, nodes'), stack' = Append([stack EXCEPT ![Len(stack)] = f], g)
      PROVE  GroupInv'
  <2> DEFINE t == [stack EXCEPT ![Len(stack)] = f]
  <2>1. t \in Seq(FrameRecord) /\ Len(t) = Len(stack) /\ FramesGroup(t, nodes')
    BY <1>4, <1>6
  <2>2. stack' = Append(t, g)
    BY <1>6
  <2> HIDE DEF t
  <2>3. /\ Len(stack') = Len(t) + 1 /\ stack'[Len(t) + 1] = g
        /\ \A d \in 1..Len(t) : stack'[d] = t[d]
    BY <2>1, <2>2, AppendProperties
  <2>4. \A d \in 1..Len(stack') : d = Len(t) + 1 \/ d \in 1..Len(t)
    BY <1>1, <2>1, <2>3
  <2>5. FramesGroup(stack', nodes')
    BY <1>6, <2>1, <2>3, <2>4 DEF FramesGroup
  <2> QED
    BY <2>5 DEF GroupInv
<1> QED
  BY <1>3, <1>5, <1>6

\* At these points it knows nothing of the type of its result.
Simple == PCs \ {"operand", "next", "loop", "item"}

LEMMA SimpleGroup == \A f, ns : f.pc \in Simple => FrameGroup(f, ns)
BY DEF Simple, FrameGroup

\* It returns or fails.
LEMMA EndsGroup ==
  ASSUME IInv, NodesInv, GroupInv, NEW pc, At(pc), Grouped(nodes', NULL), Untouched,
         \E x : Fail(x) \/ FailAgain(x) \/ \E p : Return(x, p)
  PROVE  GroupInv'
BY MovesGroup DEF Fail, FailAgain, Abort, Return

\* It goes on, or calls, at another point.
LEMMA GoesGroup ==
  ASSUME IInv, NodesInv, GroupInv, NEW pc, At(pc), Grouped(nodes', NULL), Untouched,
         NEW x \in Nat, NEW pd \in PCs,
         \A f : f.pc = pd /\ f.res = x => FrameGroup(f, nodes'),
         \E p : \/ Continue([Top EXCEPT !.pc = pd, !.res = x], p)
                \/ Call([Top EXCEPT !.pc = pd, !.res = x], p)
                \/ x = Top.res /\ Continue([Top EXCEPT !.pc = pd], p)
                \/ x = Top.res /\ Call([Top EXCEPT !.pc = pd], p)
  PROVE  GroupInv'
<1>1. Top \in FrameRecord
  BY AtGroup
<1>2. /\ [Top EXCEPT !.pc = pd, !.res = x] \in FrameRecord
      /\ [Top EXCEPT !.pc = pd, !.res = x].pc = pd
      /\ [Top EXCEPT !.pc = pd, !.res = x].res = x
      /\ [Top EXCEPT !.pc = pd] \in FrameRecord
      /\ [Top EXCEPT !.pc = pd].pc = pd
      /\ [Top EXCEPT !.pc = pd].res = Top.res
  BY <1>1 DEF FrameRecord
<1>3. \A f \in FrameRecord : LET g == Frame("start", f.pc = "item", NULL, f.hi)
                             IN  g \in FrameRecord /\ FrameGroup(g, nodes')
  <2> SUFFICES ASSUME NEW f \in FrameRecord
               PROVE  LET g == Frame("start", f.pc = "item", NULL, f.hi)
                      IN  g \in FrameRecord /\ FrameGroup(g, nodes')
    OBVIOUS
  <2> DEFINE g == Frame("start", f.pc = "item", NULL, f.hi)
  <2>1. g \in FrameRecord /\ g.pc = "start"
    BY FrameFields DEF Frame, FrameRecord, PCs, NULL
  <2> HIDE DEF g
  <2>2. FrameGroup(g, nodes')
    BY <2>1 DEF FrameGroup
  <2> QED
    BY <2>1, <2>2 DEF g
<1>4. ASSUME NEW f \in FrameRecord, FrameGroup(f, nodes'), NEW p, Continue(f, p) \/ Call(f, p)
      PROVE  GroupInv'
  <2>1. CASE Continue(f, p)
    BY <1>4, <2>1, MovesGroup DEF Continue
  <2>2. CASE Call(f, p)
    BY <1>3, <1>4, <2>2, MovesGroup DEF Call
  <2> QED
    BY <1>4, <2>1, <2>2
<1> QED
  BY <1>2, <1>4

\* It stops where it is: the program dies.
LEMMA StaysGroup ==
  ASSUME IInv, NodesInv, GroupInv, NEW pc \in Simple, At(pc), Grouped(nodes', NULL),
         Untouched, NEW site, Crash(site)
  PROVE  GroupInv'
<1>1. /\ Top \in FrameRecord /\ Top.pc = pc /\ FrameGroup(Top, nodes') /\ Len(stack) \in Nat \ {0}
      /\ stack \in Seq(FrameRecord)
  BY AtGroup, SimpleGroup
<1>2. stack' = [stack EXCEPT ![Len(stack)] = Top]
  BY <1>1, LenProperties DEF Crash, Top
<1> QED
  BY <1>1, <1>2, MovesGroup

LEMMA ThenNextGroup ==
  ASSUME IInv, NodesInv, GroupInv, NEW pc, At(pc), Grouped(nodes', NULL), Untouched,
         NEW x \in Nat, ~Open(nodes', x), NEW p, ThenNext(x, p)
  PROVE  GroupInv'
<1>1. \A f : f.pc = "next" /\ f.res = x => FrameGroup(f, nodes')
  BY DEF FrameGroup
<1>2. CASE Return(x, p)
  BY <1>2, EndsGroup
<1>3. CASE Continue([Top EXCEPT !.pc = "next", !.res = x], p)
  BY <1>1, <1>3, GoesGroup, Points
<1> QED
  BY <1>2, <1>3 DEF ThenNext

\* Its nodes change, but no operation does.
LEMMA SameQuiet ==
  ASSUME IInv, NodesInv, GroupInv, NEW pc, At(pc), DOMAIN nodes' = DOMAIN nodes,
         \A m \in DOMAIN nodes : m # Top.res => nodes'[m] = nodes[m],
         Top.res \in DOMAIN nodes =>
           \/ nodes'[Top.res] = nodes[Top.res]
           \/ /\ nodes'[Top.res].type = nodes[Top.res].type
              /\ nodes[Top.res].type # "oper"
  PROVE  Grouped(nodes', NULL) /\ Untouched
<1>1. Quiet(nodes, nodes')
  BY DEF Quiet
<1>2. Below(stack) \subseteq DOMAIN nodes /\ Top.res \notin Below(stack)
  BY AtNodes
<1> QED
  BY <1>1, <1>2, AtGroup, QuietGrouped DEF Untouched

LEMMA UnchangedQuiet ==
  ASSUME IInv, NodesInv, GroupInv, NEW pc, At(pc), UNCHANGED nodes
  PROVE  Grouped(nodes', NULL) /\ Untouched
BY SameQuiet

\* A node is added that is no operation.
LEMMA FreshQuiet ==
  ASSUME IInv, NodesInv, GroupInv, NEW pc, At(pc),
         NEW rec, rec.type # "oper", NEW ns, New(ns, rec), DOMAIN ns = DOMAIN nodes,
         \A m \in DOMAIN nodes : m # Top.res => ns[m] = nodes[m],
         Top.res \in DOMAIN nodes =>
           \/ ns[Top.res] = nodes[Top.res]
           \/ ns[Top.res].type = nodes[Top.res].type /\ nodes[Top.res].type # "oper"
  PROVE  /\ Grouped(nodes', NULL) /\ Untouched
         /\ nextId \in DOMAIN nodes' /\ nodes'[nextId] = rec /\ nextId \in Nat
         /\ Top.res \in DOMAIN nodes =>
              Top.res \in DOMAIN nodes' /\ nodes'[Top.res].type = nodes[Top.res].type
<1>1. /\ Below(stack) \subseteq DOMAIN nodes /\ Top.res \notin Below(stack)
      /\ nextId \notin DOMAIN nodes /\ nextId \in Nat
  BY AtNodes
<1>2. /\ DOMAIN nodes' = DOMAIN nodes \cup {nextId} /\ nodes'[nextId] = rec
      /\ \A m \in DOMAIN nodes : nodes'[m] = ns[m]
  BY <1>1, AddedNode
<1>3. Quiet(nodes, nodes')
  BY <1>2 DEF Quiet
<1> QED
  BY <1>1, <1>2, <1>3, AtGroup, QuietGrouped DEF Untouched

\* The same for a point where it knows nothing of the type of its result.
LEMMA WalksGroup ==
  ASSUME IInv, NodesInv, GroupInv, NEW pc, At(pc), Grouped(nodes', NULL), Untouched,
         NEW x \in Nat, NEW pd \in Simple,
         \E p : \/ Continue([Top EXCEPT !.pc = pd, !.res = x], p)
                \/ Call([Top EXCEPT !.pc = pd, !.res = x], p)
                \/ x = Top.res /\ Continue([Top EXCEPT !.pc = pd], p)
                \/ x = Top.res /\ Call([Top EXCEPT !.pc = pd], p)
  PROVE  GroupInv'
<1>1. pd \in PCs
  BY DEF Simple
<1> QED
  BY <1>1, SimpleGroup, GoesGroup

\* Points of the program.
LEMMA SimplePoints ==
  /\ {"start", "declName", "declMark", "declType", "declAssign", "declValue", "paren",
      "settle", "funcName", "funcArgs", "scope", "scopeEnd"} \subseteq Simple
  /\ {"next", "loop", "item", "operand"} \subseteq PCs
BY DEF Simple, PCs

-----------------------------------------------------------------------------
(* The actions.                                                            *)

\* DeclStart.
LEMMA DeclStartGroup == IInv /\ NodesInv /\ GroupInv /\ DeclStart => GroupInv'
<1> SUFFICES ASSUME IInv, NodesInv, GroupInv, DeclStart PROVE GroupInv'
  OBVIOUS
<1>0. At("start") /\ nextId \in Nat
  BY AtNodes DEF DeclStart
<1>1. CASE Fail(NULL) /\ UNCHANGED heap
  BY <1>0, <1>1, UnchangedQuiet, EndsGroup DEF heap
<1>2. CASE /\ New(nodes, Node("decl", pos, {}))
           /\ Continue([Top EXCEPT !.pc = "declName", !.res = nextId], pos + 1)
  <2> DEFINE x == Node("decl", pos, {})
  <2>1. x.type # "oper"
    BY FreshNode
  <2> HIDE DEF x
  <2>2. Grouped(nodes', NULL) /\ Untouched
    BY <1>0, <1>2, <2>1, FreshQuiet DEF x
  <2> QED
    BY <1>0, <1>2, <2>2, SimplePoints, WalksGroup
<1> QED
  BY <1>1, <1>2 DEF DeclStart

\* DeclName.
LEMMA DeclNameGroup == IInv /\ NodesInv /\ GroupInv /\ DeclName => GroupInv'
<1> SUFFICES ASSUME IInv, NodesInv, GroupInv, DeclName PROVE GroupInv'
  OBVIOUS
<1>0. At("declName") /\ Top.res \in Nat
  BY AtNodes DEF DeclName
<1>1. CASE UNCHANGED heap /\ (Crash("name_printed") \/ Fail(Top.res))
  <2>1. Grouped(nodes', NULL) /\ Untouched
    BY <1>0, <1>1, UnchangedQuiet DEF heap
  <2> QED
    BY <1>0, <1>1, <2>1, SimplePoints, EndsGroup, StaysGroup
<1>2. CASE /\ New([nodes EXCEPT ![Top.res].left = nextId], Node("string", pos, {ptr[pos]}))
           /\ Fail(Top.res) \/ Continue([Top EXCEPT !.pc = "declMark"], pos + 1)
  <2> DEFINE ns == [nodes EXCEPT ![Top.res].left = nextId]
             x == Node("string", pos, {ptr[pos]})
  <2>1. /\ Top.res \in DOMAIN nodes /\ nodes[Top.res] \in NodeRecord
        /\ nodes[Top.res].type = "decl"
    BY <1>0, AtNodes DEF FrameOK, IInv, NodeInv, NodesTyped
  <2>2. /\ DOMAIN ns = DOMAIN nodes /\ \A m \in DOMAIN nodes : m # Top.res => ns[m] = nodes[m]
        /\ ns[Top.res].type = nodes[Top.res].type /\ nodes[Top.res].type # "oper"
    BY <2>1 DEF NodeRecord
  <2>3. x.type # "oper"
    BY FreshNode
  <2> HIDE DEF ns, x
  <2>4. Grouped(nodes', NULL) /\ Untouched
    BY <1>0, <1>2, <2>2, <2>3, FreshQuiet DEF ns, x
  <2>5. CASE Fail(Top.res)
    BY <1>0, <2>4, <2>5, EndsGroup
  <2>6. CASE Continue([Top EXCEPT !.pc = "declMark"], pos + 1)
    BY <1>0, <2>4, <2>6, SimplePoints, WalksGroup
  <2> QED
    BY <1>2, <2>5, <2>6
<1> QED
  BY <1>1, <1>2 DEF DeclName

\* DeclMark.
LEMMA DeclMarkGroup == IInv /\ NodesInv /\ GroupInv /\ DeclMark => GroupInv'
<1> SUFFICES ASSUME IInv, NodesInv, GroupInv, DeclMark PROVE GroupInv'
  OBVIOUS
<1>0. At("declMark") /\ UNCHANGED heap /\ Top.res \in Nat
  BY AtNodes DEF DeclMark
<1>1. Grouped(nodes', NULL) /\ Untouched
  BY <1>0, UnchangedQuiet DEF heap
<1>2. CASE Fail(Top.res)
  BY <1>0, <1>1, <1>2, EndsGroup
<1>3. ASSUME NEW pd \in {"declType", "declAssign"}, NEW p, Continue([Top EXCEPT !.pc = pd], p)
      PROVE  GroupInv'
  BY <1>0, <1>1, <1>3, SimplePoints, WalksGroup
<1> QED
  BY <1>2, <1>3 DEF DeclMark

\* A node that is no operation gets pointers to strings, or another node.
LEMMA GivenQuiet ==
  ASSUME IInv, NodesInv, GroupInv, NEW pc, At(pc), Top.res \in DOMAIN nodes,
         nodes[Top.res].type # "oper",
         \/ \E S : nodes' = Give(Top.res, S)
         \/ \E c : nodes' = [nodes EXCEPT ![Top.res].right = c]
         \/ \E c : nodes' = [nodes EXCEPT ![Top.res].items = Append(@, c)]
  PROVE  /\ Grouped(nodes', NULL) /\ Untouched
         /\ Top.res \in DOMAIN nodes' /\ nodes'[Top.res].type = nodes[Top.res].type
<1>1. nodes[Top.res] \in NodeRecord
  BY DEF IInv, NodeInv, NodesTyped
<1>2. /\ DOMAIN nodes' = DOMAIN nodes /\ nodes'[Top.res].type = nodes[Top.res].type
      /\ \A m \in DOMAIN nodes : m # Top.res => nodes'[m] = nodes[m]
  BY <1>1 DEF Give, NodeRecord
<1> QED
  BY <1>2, SameQuiet

\* DeclType.
LEMMA DeclTypeGroup == IInv /\ NodesInv /\ GroupInv /\ DeclType => GroupInv'
<1> SUFFICES ASSUME IInv, NodesInv, GroupInv, DeclType PROVE GroupInv'
  OBVIOUS
<1>0. At("declType") /\ Top.res \in Nat
  BY AtNodes DEF DeclType
<1>1. CASE Crash("type_read") /\ UNCHANGED heap
  BY <1>0, <1>1, UnchangedQuiet, SimplePoints, StaysGroup DEF heap
<1>2. CASE /\ nodes' = Give(Top.res, {ptr[pos]})
           /\ \/ Fail(Top.res) \/ Return(Top.res, pos + 1)
              \/ Continue([Top EXCEPT !.pc = "declAssign"], pos + 1)
  <2>1. Top.res \in DOMAIN nodes /\ nodes[Top.res].type # "oper"
    BY <1>0, AtDecl
  <2>2. Grouped(nodes', NULL) /\ Untouched
    BY <1>0, <1>2, <2>1, GivenQuiet
  <2>3. CASE Fail(Top.res) \/ Return(Top.res, pos + 1)
    BY <1>0, <2>2, <2>3, EndsGroup
  <2>4. CASE Continue([Top EXCEPT !.pc = "declAssign"], pos + 1)
    BY <1>0, <2>2, <2>4, SimplePoints, WalksGroup
  <2> QED
    BY <1>2, <2>3, <2>4
<1> QED
  BY <1>1, <1>2 DEF DeclType

\* DeclAssign.
LEMMA DeclAssignGroup == IInv /\ NodesInv /\ GroupInv /\ DeclAssign => GroupInv'
<1> SUFFICES ASSUME IInv, NodesInv, GroupInv, DeclAssign PROVE GroupInv'
  OBVIOUS
<1>0. At("declAssign") /\ UNCHANGED heap /\ Top.res \in Nat
  BY AtNodes DEF DeclAssign
<1>1. Grouped(nodes', NULL) /\ Untouched
  BY <1>0, UnchangedQuiet DEF heap
<1>2. CASE Fail(Top.res)
  BY <1>0, <1>1, <1>2, EndsGroup
<1>3. CASE Crash("assign_printed")
  BY <1>0, <1>1, <1>3, SimplePoints, StaysGroup
<1>4. CASE Call([Top EXCEPT !.pc = "declValue"], pos + 1)
  BY <1>0, <1>1, <1>4, SimplePoints, WalksGroup
<1> QED
  BY <1>2, <1>3, <1>4 DEF DeclAssign

\* DeclValue.
LEMMA DeclValueGroup == IInv /\ NodesInv /\ GroupInv /\ DeclValue => GroupInv'
<1> SUFFICES ASSUME IInv, NodesInv, GroupInv, DeclValue PROVE GroupInv'
  OBVIOUS
<1>0. /\ At("declValue") /\ (FailAgain(Top.res) \/ Fail(Top.res) \/ Return(Top.res, pos))
      /\ nodes' = [nodes EXCEPT ![Top.res].right = ret.expr]
  BY DEF DeclValue
<1>1. Top.res \in DOMAIN nodes /\ nodes[Top.res].type # "oper"
  BY <1>0, AtNodes DEF FrameOK
<1>2. Grouped(nodes', NULL) /\ Untouched
  BY <1>0, <1>1, GivenQuiet
<1> QED
  BY <1>0, <1>2, EndsGroup

\* SkipToken, RejectToken, Settle.
LEMMA EndingGroup ==
  IInv /\ NodesInv /\ GroupInv /\ (SkipToken \/ RejectToken \/ Settle) => GroupInv'
<1> SUFFICES ASSUME IInv, NodesInv, GroupInv, SkipToken \/ RejectToken \/ Settle
             PROVE  GroupInv'
  OBVIOUS
<1>1. PICK pc : /\ At(pc) /\ UNCHANGED nodes
                /\ \E x : Fail(x) \/ \E p : Return(x, p)
  BY DEF SkipToken, RejectToken, Settle, heap
<1>2. Grouped(nodes', NULL) /\ Untouched
  BY <1>1, UnchangedQuiet
<1> QED
  BY <1>1, <1>2, EndsGroup

\* Variable.
LEMMA VariableGroup == IInv /\ NodesInv /\ GroupInv /\ Variable => GroupInv'
<1> SUFFICES ASSUME IInv, NodesInv, GroupInv, Variable PROVE GroupInv'
  OBVIOUS
<1> DEFINE x == Node("var", pos, {ptr[pos]})
<1>1. /\ At("start") /\ New(nodes, x)
      /\ \/ Return(nextId, pos + 1)
         \/ Continue([Top EXCEPT !.pc = "next", !.res = nextId], pos + 1)
         \/ Fail(nextId)
  BY DEF Variable
<1>2. x.type # "oper"
  BY FreshNode
<1> HIDE DEF x
<1>3. Grouped(nodes', NULL) /\ Untouched /\ nodes'[nextId] = x /\ nextId \in Nat
  BY <1>1, <1>2, FreshQuiet
<1>4. CASE Return(nextId, pos + 1) \/ Fail(nextId)
  BY <1>1, <1>3, <1>4, EndsGroup
<1>5. CASE Continue([Top EXCEPT !.pc = "next", !.res = nextId], pos + 1)
  <2>1. \A f : f.pc = "next" /\ f.res = nextId => FrameGroup(f, nodes')
    BY <1>2, <1>3 DEF FrameGroup, Open
  <2> QED
    BY <1>1, <1>3, <1>5, <2>1, SimplePoints, GoesGroup
<1> QED
  BY <1>1, <1>4, <1>5

\* Literal.
LEMMA LiteralGroup == IInv /\ NodesInv /\ GroupInv /\ Literal => GroupInv'
<1> SUFFICES ASSUME IInv, NodesInv, GroupInv, Literal PROVE GroupInv'
  OBVIOUS
<1> DEFINE x == Node(Token, pos, IF Token = "string" THEN {ptr[pos]} ELSE {})
<1>1. At("start") /\ New(nodes, x) /\ ThenNext(nextId, pos + 1) /\ Token \in {"string", "num"}
  BY DEF Literal
<1>2. x.type # "oper"
  BY <1>1, FreshNode
<1> HIDE DEF x
<1>3. Grouped(nodes', NULL) /\ Untouched /\ nodes'[nextId] = x /\ nextId \in Nat
  BY <1>1, <1>2, FreshQuiet
<1>4. ~Open(nodes', nextId)
  BY <1>2, <1>3 DEF Open
<1> QED
  BY <1>1, <1>3, <1>4, ThenNextGroup

\* ParenOpen.
LEMMA ParenOpenGroup == IInv /\ NodesInv /\ GroupInv /\ ParenOpen => GroupInv'
<1> SUFFICES ASSUME IInv, NodesInv, GroupInv, ParenOpen PROVE GroupInv'
  OBVIOUS
<1> DEFINE q == NextToken(pos + 1, Top.hi)
<1>1. /\ At("start") /\ UNCHANGED nodes
      /\ Fail(NULL) \/ ThenNext(NULL, q + 1) \/ Call([Top EXCEPT !.pc = "paren"], q)
  BY DEF ParenOpen, heap
<1> HIDE DEF q
<1>2. Grouped(nodes', NULL) /\ Untouched /\ Top.res \in Nat
  BY <1>1, UnchangedQuiet, AtNodes
<1>3. NULL \in Nat /\ ~Open(nodes', NULL)
  BY <1>1, AtNodes DEF Open, NULL
<1>4. CASE Fail(NULL)
  BY <1>1, <1>2, <1>4, EndsGroup
<1>5. CASE ThenNext(NULL, q + 1)
  BY <1>1, <1>2, <1>3, <1>5, ThenNextGroup
<1>6. CASE Call([Top EXCEPT !.pc = "paren"], q)
  BY <1>1, <1>2, <1>6, SimplePoints, WalksGroup
<1> QED
  BY <1>1, <1>4, <1>5, <1>6

\* ParenClose.
LEMMA ParenCloseGroup == IInv /\ NodesInv /\ GroupInv /\ ParenClose => GroupInv'
<1> SUFFICES ASSUME IInv, NodesInv, GroupInv, ParenClose PROVE GroupInv'
  OBVIOUS
<1> DEFINE q == NextToken(pos, Top.hi)
           w == nodes[ret.expr].type = "oper"
<1>0. At("paren")
  BY DEF ParenClose
<1>1. /\ ret.expr \in Nat /\ ret.expr \in DOMAIN nodes \cup {NULL} /\ ret.expr \notin Below(stack)
      /\ Below(stack) \subseteq DOMAIN nodes
  BY <1>0, AtNodes
<1>2. CASE UNCHANGED nodes /\ FailAgain(NULL)
  BY <1>0, <1>2, UnchangedQuiet, EndsGroup
<1>3. CASE UNCHANGED nodes /\ Crash("paren_value")
  BY <1>0, <1>3, UnchangedQuiet, SimplePoints, StaysGroup
<1>4. CASE /\ ret.expr # NULL /\ nodes' = [nodes EXCEPT ![ret.expr].wrapped = w]
           /\ \/ Crash("paren_close") \/ Fail(ret.expr)
              \/ ThenNext(ret.expr, q + 1)
  <2> HIDE DEF q
  <2>1. /\ DOMAIN nodes' = DOMAIN nodes /\ nodes[ret.expr] \in NodeRecord
        /\ \A m \in DOMAIN nodes : m # ret.expr => nodes'[m] = nodes[m]
        /\ nodes'[ret.expr] = [nodes[ret.expr] EXCEPT !.wrapped = w]
    BY <1>1, <1>4 DEF IInv, NodeInv, NodesTyped
  <2>2. /\ nodes'[ret.expr].type = nodes[ret.expr].type /\ nodes'[ret.expr].wrapped = w
        /\ nodes'[ret.expr].op = nodes[ret.expr].op
        /\ nodes'[ret.expr].left = nodes[ret.expr].left
        /\ nodes'[ret.expr].right = nodes[ret.expr].right
        /\ nodes'[ret.expr].items = nodes[ret.expr].items
    BY <2>1 DEF NodeRecord
  <2>3. Grouped(nodes', NULL)
    <3>1. Quiet(nodes, nodes')
      BY <2>1, <2>2 DEF Quiet
    <3> QED
      BY <1>0, <3>1, AtGroup, QuietGrouped
  <2>4. Untouched
    BY <1>1, <2>1 DEF Untouched
  <2>5. ~Open(nodes', ret.expr)
    BY <2>2 DEF Open
  <2>6. CASE Crash("paren_close")
    BY <1>0, <2>3, <2>4, <2>6, SimplePoints, StaysGroup
  <2>7. CASE Fail(ret.expr)
    BY <1>0, <2>3, <2>4, <2>7, EndsGroup
  <2>8. CASE ThenNext(ret.expr, q + 1)
    BY <1>0, <1>1, <2>3, <2>4, <2>5, <2>8, ThenNextGroup
  <2> QED
    BY <1>4, <2>6, <2>7, <2>8
<1> QED
  BY <1>2, <1>3, <1>4 DEF ParenClose

\* The pointers of a node.
LEMMA Pointers ==
  ASSUME NEW ns, Forest(ns), NEW n \in DOMAIN ns
  PROVE  /\ ns[n].left \in Kids(ns) \cup {NULL} /\ ns[n].right \in Kids(ns) \cup {NULL}
         /\ Kids(ns) \subseteq DOMAIN ns
<1>1. /\ -1 \in Slots(ns[n]) /\ 0 \in Slots(ns[n])
      /\ Kid(ns[n], -1) = ns[n].left /\ Kid(ns[n], 0) = ns[n].right
  BY KidFields
<1> QED
  BY <1>1, KidSlot DEF Forest

\* A new operation, without a right operand, above what is no open operation.
LEMMA NewOperation ==
  ASSUME NEW ns, Grouped(ns, NULL), Forest(ns), NULL \notin DOMAIN ns,
         NEW id, id \notin DOMAIN ns, id # NULL,
         NEW t, DOMAIN t = DOMAIN ns \cup {id}, \A m \in DOMAIN ns : t[m] = ns[m],
         t[id].op \in Operators, t[id].items = <<>>, t[id].right = NULL,
         ~Open(ns, t[id].left), t[id].left # id
  PROVE  Grouped(t, NULL)
<1>1. \A m : m # id => (Open(t, m) <=> Open(ns, m))
  BY DEF Open
<1>2. ~Open(t, NULL)
  BY <1>1 DEF Open
<1> SUFFICES ASSUME NEW n \in DOMAIN t, t[n].type = "oper"
             PROVE  /\ t[n].op \in Operators /\ t[n].items = <<>>
                    /\ LeftFits(t, n, NULL) /\ RightFits(t, n, NULL)
  BY DEF Grouped
<1>3. CASE n = id
  BY <1>1, <1>2, <1>3 DEF LeftFits, RightFits
<1>4. CASE n # id
  <2>1. /\ n \in DOMAIN ns /\ t[n] = ns[n] /\ ns[n].left # id /\ ns[n].right # id
    BY <1>4, Pointers
  <2>2. /\ ns[n].op \in Operators /\ ns[n].items = <<>>
        /\ LeftFits(ns, n, NULL) /\ RightFits(ns, n, NULL)
    BY <2>1 DEF Grouped
  <2>3. LeftFits(t, n, NULL)
    <3>1. ~Open(ns, ns[n].left) \/ ns[n].left # NULL
      BY DEF Open
    <3> QED
      BY <1>1, <2>1, <2>2, <3>1 DEF LeftFits, Open
  <2>4. RightFits(t, n, NULL)
    BY <1>1, <2>1, <2>2 DEF RightFits, Open
  <2> QED
    BY <2>1, <2>2, <2>3, <2>4
<1> QED
  BY <1>3, <1>4

\* NextLabel.
LEMMA NextLabelGroup == IInv /\ NodesInv /\ GroupInv /\ NextLabel => GroupInv'
<1> SUFFICES ASSUME IInv, NodesInv, GroupInv, NextLabel PROVE GroupInv'
  OBVIOUS
<1> DEFINE q == NextToken(pos + 1, Top.hi)
           rec == [Node("oper", pos, {}) EXCEPT !.op = Token, !.left = Top.res]
<1>0. At("next")
  BY DEF NextLabel
<1>1. /\ Top.res \in Nat /\ nextId \in Nat \ {NULL} /\ nextId \notin DOMAIN nodes
      /\ Top.res \in DOMAIN nodes \cup {NULL} /\ NULL \notin DOMAIN nodes /\ Forest(nodes)
      /\ Below(stack) \subseteq DOMAIN nodes /\ Grouped(nodes, NULL)
      /\ FrameGroup(Top, nodes) /\ Top.pc = "next"
  BY <1>0, AtNodes, AtGroup DEF IInv, NodeInv
<1>2. CASE Return(Top.res, pos) /\ UNCHANGED nodes
  BY <1>0, <1>2, UnchangedQuiet, EndsGroup
<1>3. CASE /\ New(nodes, rec) /\ Token \in Operators
           /\ Fail(nextId) \/ Call([Top EXCEPT !.pc = "operand", !.res = nextId], q)
  <2>1. /\ rec.type = "oper" /\ rec.op = Token /\ rec.left = Top.res /\ rec.right = NULL
        /\ rec.items = <<>> /\ rec.wrapped = FALSE
    BY DEF Node
  <2> HIDE DEF rec, q
  <2>2. /\ DOMAIN nodes' = DOMAIN nodes \cup {nextId} /\ nodes'[nextId] = rec
        /\ \A m \in DOMAIN nodes : nodes'[m] = nodes[m]
    BY <1>1, <1>3, AddedNode
  <2>3. ~Open(nodes, Top.res) /\ Top.res # nextId
    BY <1>1 DEF FrameGroup
  <2>4. Grouped(nodes', NULL)
    BY <1>1, <1>3, <2>1, <2>2, <2>3, NewOperation
  <2>5. Untouched
    BY <1>1, <2>2 DEF Untouched
  <2>6. CASE Fail(nextId)
    BY <1>0, <2>4, <2>5, <2>6, EndsGroup
  <2>7. CASE Call([Top EXCEPT !.pc = "operand", !.res = nextId], q)
    <3>1. \A f : f.pc = "operand" /\ f.res = nextId => FrameGroup(f, nodes')
      BY <2>1, <2>2 DEF FrameGroup, Open
    <3> QED
      BY <1>0, <1>1, <2>4, <2>5, <2>7, <3>1, SimplePoints, GoesGroup
  <2> QED
    BY <1>3, <2>6, <2>7
<1> QED
  BY <1>2, <1>3 DEF NextLabel, heap

\* The operation h, which is nobody's operand, gets its right operand.
LEMMA GivenOperand ==
  ASSUME NEW ns, Grouped(ns, NULL), Forest(ns), NULL \notin DOMAIN ns,
         NEW h, Open(ns, h), h \notin Kids(ns), NEW c, c # h,
         NEW t, DOMAIN t = DOMAIN ns, \A m \in DOMAIN ns : m # h => t[m] = ns[m],
         t[h] = [ns[h] EXCEPT !.right = c], ns[h] \in NodeRecord
  PROVE  Grouped(t, h)
<1>1. /\ h \in DOMAIN ns /\ t[h].type = ns[h].type /\ t[h].wrapped = ns[h].wrapped
      /\ t[h].op = ns[h].op /\ t[h].items = ns[h].items /\ t[h].left = ns[h].left
      /\ t[h].right = c
  BY DEF Open, NodeRecord
<1>2. \A m \in DOMAIN ns : t[m].type = ns[m].type /\ t[m].op = ns[m].op
  BY <1>1
<1>3. \A m : Open(t, m) <=> Open(ns, m)
  BY <1>1 DEF Open
<1> SUFFICES ASSUME NEW n \in DOMAIN ns, ns[n].type = "oper"
             PROVE  /\ t[n].op \in Operators /\ t[n].items = <<>>
                    /\ LeftFits(t, n, h) /\ RightFits(t, n, h)
  BY <1>2, <1>3 DEF Grouped
<1>4. /\ ns[n].op \in Operators /\ ns[n].items = <<>>
      /\ LeftFits(ns, n, NULL) /\ RightFits(ns, n, NULL)
  BY DEF Grouped
<1>5. ns[n].left # h /\ ns[n].right # h
  <2>1. h # NULL
    BY <1>1
  <2> QED
    BY <2>1, Pointers
<1>6. LeftFits(t, n, h)
  <2>1. t[n].left = ns[n].left /\ t[n].op = ns[n].op
    BY <1>1
  <2>2. Open(ns, ns[n].left) => t[ns[n].left].op = ns[ns[n].left].op
    BY <1>2 DEF Open
  <2> QED
    BY <1>3, <1>4, <1>5, <2>1, <2>2 DEF LeftFits
<1>7. RightFits(t, n, h)
  <2>1. CASE n = h
    BY <1>1, <2>1 DEF RightFits
  <2>2. CASE n # h
    <3>1. t[n] = ns[n]
      BY <2>2
    <3>2. Open(ns, ns[n].right) => t[ns[n].right].op = ns[ns[n].right].op /\ ns[n].right # NULL
      BY <1>2 DEF Open
    <3> QED
      BY <1>3, <1>4, <1>5, <2>2, <3>1, <3>2 DEF RightFits
  <2> QED
    BY <2>1, <2>2
<1> QED
  BY <1>1, <1>4, <1>6, <1>7

\* Operand.
LEMMA OperandGroup == IInv /\ NodesInv /\ GroupInv /\ Operand => GroupInv'
<1> SUFFICES ASSUME IInv, NodesInv, GroupInv, Operand PROVE GroupInv'
  OBVIOUS
<1>0. At("operand") /\ nodes' = [nodes EXCEPT ![Top.res].right = ret.expr]
  BY DEF Operand
<1>1. /\ Top.res \in Nat /\ Forest(nodes) /\ NULL \notin DOMAIN nodes
      /\ Below(stack) \subseteq DOMAIN nodes /\ Top.res \notin Below(stack)
      /\ ret.expr \in Nat /\ Top.pc = "operand" /\ FrameOK(Top, nodes)
      /\ Top.res = NULL \/ Top.res # ret.expr
      /\ DOMAIN nodes \ Kids(nodes) = Below(stack) \cup Only(Top.res) \cup Only(ret.expr)
      /\ ret.error => ret.expr = NULL
  BY <1>0, AtNodes
<1>2. /\ Grouped(nodes, NULL) /\ FrameGroup(Top, nodes) /\ stack # <<>>
      /\ stack \in Seq(FrameRecord) /\ Top \in FrameRecord /\ Len(stack) \in Nat \ {0}
      /\ \A d \in 1..Len(stack) - 1 :
           /\ stack[d].pc \in Waiting /\ FrameGroup(stack[d], nodes)
           /\ stack[d].res = NULL \/ stack[d].res \in Below(stack)
  BY <1>0, AtGroup
<1>3. /\ Open(nodes, Top.res) /\ Top.res \in DOMAIN nodes /\ Top.res # NULL
      /\ nodes[Top.res] \in NodeRecord /\ nodes[Top.res].right = NULL
      /\ Top.res \notin Kids(nodes)
  BY <1>1, <1>2 DEF FrameGroup, Open, FrameOK, IInv, NodeInv, NodesTyped, Only
<1>4. /\ DOMAIN nodes' = DOMAIN nodes /\ \A m \in DOMAIN nodes : m # Top.res => nodes'[m] = nodes[m]
      /\ nodes'[Top.res] = [nodes[Top.res] EXCEPT !.right = ret.expr]
  BY <1>0, <1>3
<1>5. CASE ret.error /\ FailAgain(Top.res)
  <2>1. nodes'[Top.res] = nodes[Top.res]
    <3>1. \A x \in NodeRecord : x.right = NULL => [x EXCEPT !.right = NULL] = x
      BY DEF NodeRecord
    <3> QED
      BY <1>1, <1>3, <1>4, <1>5, <3>1
  <2> QED
    BY <1>0, <1>4, <1>5, <2>1, SameQuiet, EndsGroup
<1>6. CASE /\ stack' = [stack EXCEPT ![Len(stack)].pc = "settle"]
           /\ calls' = Calls("process_operation", <<Top.res>>)
  <2> DEFINE f == [Top EXCEPT !.pc = "settle"]
  <2>1. Grouped(nodes', Top.res)
    BY <1>1, <1>2, <1>3, <1>4, GivenOperand
  <2>2. calls' # <<>> /\ Head(calls').fn = "process_operation" /\ Head(calls').node = Top.res
    <3> DEFINE c == <<[fn |-> "process_operation", node |-> Top.res]>>
    <3>1. calls' = c
      BY <1>6 DEF Calls
    <3>2. c # <<>> /\ Head(c) = [fn |-> "process_operation", node |-> Top.res]
      OBVIOUS
    <3> QED
      BY <3>1, <3>2
  <2>3. f \in FrameRecord /\ f.pc = "settle"
    BY <1>2, Points DEF FrameRecord
  <2>4. stack' = [stack EXCEPT ![Len(stack)] = f]
    BY <1>6 DEF Top
  <2> HIDE DEF f
  <2>5. /\ Len(stack') = Len(stack)
        /\ \A d \in 1..Len(stack) : stack'[d] = IF d = Len(stack) THEN f ELSE stack[d]
    BY <1>2, <2>3, <2>4, ExceptSeq
  <2>6. ASSUME NEW d \in 1..Len(stack) PROVE FrameGroup(stack'[d], nodes')
    <3>1. CASE d = Len(stack)
      BY <2>3, <2>5, <3>1, SimplePoints, SimpleGroup
    <3>2. CASE d # Len(stack)
      <4>1. d \in 1..Len(stack) - 1 /\ stack'[d] = stack[d]
        BY <1>2, <2>5, <3>2
      <4>2. stack[d].res = NULL \/ (nodes'[stack[d].res] = nodes[stack[d].res]
                                      /\ stack[d].res \in DOMAIN nodes')
        BY <1>1, <1>2, <1>4, <4>1
      <4>3. stack[d].pc # "next" /\ FrameGroup(stack[d], nodes)
        BY <1>2, <4>1 DEF Waiting
      <4> QED
        BY <1>1, <4>1, <4>2, <4>3 DEF FrameGroup, Open
    <3> QED
      BY <3>1, <3>2
  <2>7. FramesGroup(stack', nodes')
    BY <2>5, <2>6 DEF FramesGroup
  <2> QED
    BY <2>1, <2>2, <2>7 DEF GroupInv
<1> QED
  BY <1>5, <1>6 DEF Operand

\* FuncStart.
LEMMA FuncStartGroup == IInv /\ NodesInv /\ GroupInv /\ FuncStart => GroupInv'
<1> SUFFICES ASSUME IInv, NodesInv, GroupInv, FuncStart PROVE GroupInv'
  OBVIOUS
<1>0. At("start") /\ nextId \in Nat
  BY AtNodes DEF FuncStart
<1>1. CASE Fail(NULL) /\ UNCHANGED heap
  BY <1>0, <1>1, UnchangedQuiet, EndsGroup DEF heap
<1>2. CASE /\ New(nodes, Node("func", pos, {}))
           /\ Continue([Top EXCEPT !.pc = "funcName", !.res = nextId], pos + 1)
  <2> DEFINE x == Node("func", pos, {})
  <2>1. x.type # "oper"
    BY FreshNode
  <2> HIDE DEF x
  <2>2. Grouped(nodes', NULL) /\ Untouched
    BY <1>0, <1>2, <2>1, FreshQuiet DEF x
  <2> QED
    BY <1>0, <1>2, <2>2, SimplePoints, WalksGroup
<1> QED
  BY <1>1, <1>2 DEF FuncStart

\* FuncName.
LEMMA FuncNameGroup == IInv /\ NodesInv /\ GroupInv /\ FuncName => GroupInv'
<1> SUFFICES ASSUME IInv, NodesInv, GroupInv, FuncName PROVE GroupInv'
  OBVIOUS
<1>0. At("funcName") /\ Top.res \in Nat
  BY AtNodes DEF FuncName
<1>1. CASE Fail(Top.res) /\ UNCHANGED nodes
  BY <1>0, <1>1, UnchangedQuiet, EndsGroup
<1>2. CASE /\ nodes' = Give(Top.res, {ptr[pos]})
           /\ \/ Fail(Top.res) \/ Crash("args_end")
              \/ \E q : Continue([Top EXCEPT !.pc = "funcArgs"], q)
  <2>1. Top.res \in DOMAIN nodes /\ nodes[Top.res].type # "oper"
    BY <1>0, AtFunc
  <2>2. Grouped(nodes', NULL) /\ Untouched
    BY <1>0, <1>2, <2>1, GivenQuiet
  <2>3. CASE Fail(Top.res)
    BY <1>0, <2>2, <2>3, EndsGroup
  <2>4. CASE Crash("args_end")
    BY <1>0, <2>2, <2>4, SimplePoints, StaysGroup
  <2>5. CASE \E q : Continue([Top EXCEPT !.pc = "funcArgs"], q)
    BY <1>0, <2>2, <2>5, SimplePoints, WalksGroup
  <2> QED
    BY <1>2, <2>3, <2>4, <2>5
<1> QED
  BY <1>1, <1>2 DEF FuncName

\* FuncArg.
LEMMA FuncArgGroup == IInv /\ NodesInv /\ GroupInv /\ FuncArg => GroupInv'
<1> SUFFICES ASSUME IInv, NodesInv, GroupInv, FuncArg PROVE GroupInv'
  OBVIOUS
<1> DEFINE q == NextToken(pos + 2, Top.hi)
           own == {ptr[k] : k \in IF LastToken THEN {pos} ELSE {pos, pos + 1}}
           ns == [nodes EXCEPT ![Top.res].items = Append(@, nextId)]
           x == Node("arg", pos, own)
<1>0. At("funcArgs")
  BY DEF FuncArg
<1>1. /\ Top.res \in Nat /\ Top.res \in DOMAIN nodes /\ nodes[Top.res] \in NodeRecord
      /\ nodes[Top.res].type = "func" /\ Top \in FrameRecord /\ Top.pc = "funcArgs"
  BY <1>0, AtFunc, AtNodes DEF IInv, NodeInv, NodesTyped
<1>2. CASE Fail(Top.res) /\ UNCHANGED heap
  BY <1>0, <1>2, UnchangedQuiet, EndsGroup DEF heap
<1>3. CASE /\ New(ns, x)
           /\ Fail(Top.res) \/ Continue(Top, q) \/ Continue(Top, q + 1)
  <2>1. /\ DOMAIN ns = DOMAIN nodes /\ \A m \in DOMAIN nodes : m # Top.res => ns[m] = nodes[m]
        /\ ns[Top.res].type = nodes[Top.res].type /\ nodes[Top.res].type # "oper"
    BY <1>1 DEF NodeRecord
  <2>2. x.type # "oper"
    BY FreshNode
  <2> HIDE DEF ns, x, q
  <2>3. Grouped(nodes', NULL) /\ Untouched
    BY <1>0, <1>3, <2>1, <2>2, FreshQuiet
  <2>4. CASE Fail(Top.res)
    BY <1>0, <2>3, <2>4, EndsGroup
  <2>5. CASE \E p : Continue(Top, p)
    <3>1. FrameGroup(Top, nodes')
      BY <1>1, SimplePoints, SimpleGroup
    <3>2. stack' = [stack EXCEPT ![Len(stack)] = Top]
      BY <2>5 DEF Continue
    <3> QED
      BY <1>0, <1>1, <2>3, <3>1, <3>2, MovesGroup
  <2> QED
    BY <1>3, <2>4, <2>5
<1>4. CASE Token \notin Identifiers \ Keywords
  BY <1>2, <1>4 DEF FuncArg
<1>5. CASE Token \in Identifiers \ Keywords
  <2>1. /\ New(ns, x)
        /\ Fail(Top.res) \/ Continue(Top, q) \/ Continue(Top, q + 1)
    BY <1>5 DEF FuncArg
  <2> QED
    BY <1>3, <2>1
<1> QED
  BY <1>4, <1>5

\* FuncReturn.
LEMMA FuncReturnGroup == IInv /\ NodesInv /\ GroupInv /\ FuncReturn => GroupInv'
<1> SUFFICES ASSUME IInv, NodesInv, GroupInv, FuncReturn PROVE GroupInv'
  OBVIOUS
<1>0. At("funcArgs") /\ Top.res \in Nat
  BY AtNodes DEF FuncReturn
<1>1. CASE Fail(Top.res) /\ UNCHANGED nodes
  BY <1>0, <1>1, UnchangedQuiet, EndsGroup
<1>2. CASE /\ nodes' = Give(Top.res, {ptr[pos + 1]})
           /\ \/ Fail(Top.res) \/ Return(Top.res, pos + 2)
              \/ Continue([Top EXCEPT !.pc = "scope"], pos + 2)
  <2>1. Top.res \in DOMAIN nodes /\ nodes[Top.res].type # "oper"
    BY <1>0, AtFunc
  <2>2. Grouped(nodes', NULL) /\ Untouched
    BY <1>0, <1>2, <2>1, GivenQuiet
  <2>3. CASE Fail(Top.res) \/ Return(Top.res, pos + 2)
    BY <1>0, <2>2, <2>3, EndsGroup
  <2>4. CASE Continue([Top EXCEPT !.pc = "scope"], pos + 2)
    BY <1>0, <2>2, <2>4, SimplePoints, WalksGroup
  <2> QED
    BY <1>2, <2>3, <2>4
<1> QED
  BY <1>1, <1>2 DEF FuncReturn

\* ScopeOpen.
LEMMA ScopeOpenGroup == IInv /\ NodesInv /\ GroupInv /\ ScopeOpen => GroupInv'
<1> SUFFICES ASSUME IInv, NodesInv, GroupInv, ScopeOpen PROVE GroupInv'
  OBVIOUS
<1>0. PICK pc \in {"scope", "start"} : At(pc)
  BY DEF ScopeOpen
<1>1. CASE Fail(Top.res) /\ UNCHANGED nodes
  BY <1>0, <1>1, UnchangedQuiet, EndsGroup
<1>2. ASSUME NEW q \in pos + 1..Top.hi,
             New(nodes, Node("body", pos, {})),
             stack' = Append([stack EXCEPT ![Len(stack)].pc = "scopeEnd",
                                           ![Len(stack)].close = q],
                             Frame("loop", FALSE, nextId, q - 1))
      PROVE  GroupInv'
  <2> DEFINE f == [Top EXCEPT !.pc = "scopeEnd", !.close = q]
             g == Frame("loop", FALSE, nextId, q - 1)
             x == Node("body", pos, {})
  <2>0. /\ stack \in Seq(FrameRecord) /\ Len(stack) \in Nat \ {0} /\ Top \in FrameRecord
        /\ nextId \in Nat /\ pos \in Nat \ {0} /\ Top.hi \in Nat /\ q \in Nat /\ q - 1 \in Nat
    <3>1. /\ stack \in Seq(FrameRecord) /\ Len(stack) \in Nat \ {0} /\ Top \in FrameRecord
          /\ nextId \in Nat /\ pos \in Nat \ {0} /\ Top.hi \in Nat
      BY <1>0, AtGroup, AtNodes, AtFacts DEF FrameRecord
    <3> QED
      BY <3>1
  <2>1. /\ f \in FrameRecord /\ f.pc = "scopeEnd"
        /\ g \in FrameRecord /\ g.pc = "loop" /\ g.res = nextId
    BY <2>0 DEF FrameRecord, Frame, PCs
  <2>2. stack' = Append([stack EXCEPT ![Len(stack)] = f], g)
    BY <1>2, <2>0 DEF Top
  <2>3. x.type = "body"
    BY FreshNode
  <2> HIDE DEF f, g, x
  <2>4. Grouped(nodes', NULL) /\ Untouched /\ nextId \in DOMAIN nodes' /\ nodes'[nextId] = x
    BY <1>0, <1>2, <2>3, FreshQuiet DEF x
  <2>5. FrameGroup(f, nodes') /\ FrameGroup(g, nodes')
    BY <2>1, <2>3, <2>4 DEF FrameGroup
  <2> QED
    BY <1>0, <2>1, <2>2, <2>4, <2>5, MovesGroup
<1> QED
  BY <1>1, <1>2 DEF ScopeOpen

\* ScopeEnd.
LEMMA ScopeEndGroup ==
  ASSUME "stale" \notin FuncSlot, IInv, NodesInv, GroupInv, ScopeEnd
  PROVE  GroupInv'
<1> DEFINE rec == [Node("scope", Top.close, {}) EXCEPT !.left = ret.expr]
           ns == [nodes EXCEPT ![Top.res].left = nextId]
           p == Top.close + 1
<1>0. At("scopeEnd")
  BY DEF ScopeEnd
<1>1. rec.type # "oper"
  BY DEF Node
<1>2. \/ Fail(Top.res) /\ UNCHANGED nodes
      \/ Top.res # NULL /\ New(ns, rec) /\ Return(Top.res, p)
      \/ New(nodes, rec) /\ Return(nextId, p)
      \/ Crash("func_garbage") /\ UNCHANGED nodes
  BY DEF ScopeEnd
<1>3. CASE Fail(Top.res) /\ UNCHANGED nodes
  BY <1>0, <1>3, UnchangedQuiet, EndsGroup
<1>4. CASE Top.res # NULL /\ New(ns, rec) /\ Return(Top.res, p)
  <2>1. /\ Top.res \in DOMAIN nodes /\ nodes[Top.res] \in NodeRecord
        /\ nodes[Top.res].type = "func"
    BY <1>0, <1>4, AtNodes DEF FrameOK, IInv, NodeInv, NodesTyped
  <2>2. /\ DOMAIN ns = DOMAIN nodes /\ \A m \in DOMAIN nodes : m # Top.res => ns[m] = nodes[m]
        /\ ns[Top.res].type = nodes[Top.res].type /\ nodes[Top.res].type # "oper"
    BY <2>1 DEF NodeRecord
  <2> HIDE DEF ns, rec, p
  <2>3. Grouped(nodes', NULL) /\ Untouched
    BY <1>0, <1>1, <1>4, <2>2, FreshQuiet
  <2> QED
    BY <1>0, <1>4, <2>3, EndsGroup
<1>5. CASE New(nodes, rec) /\ Return(nextId, p)
  <2> HIDE DEF rec, p
  <2>1. Grouped(nodes', NULL) /\ Untouched
    BY <1>0, <1>1, <1>5, FreshQuiet
  <2> QED
    BY <1>0, <1>5, <2>1, EndsGroup
<1>6. CASE Crash("func_garbage") /\ UNCHANGED nodes
  BY <1>0, <1>6, UnchangedQuiet, SimplePoints, StaysGroup
<1> QED
  BY <1>2, <1>3, <1>4, <1>5, <1>6

\* BodyNext.
LEMMA BodyNextGroup == IInv /\ NodesInv /\ GroupInv /\ BodyNext => GroupInv'
<1> SUFFICES ASSUME IInv, NodesInv, GroupInv, BodyNext PROVE GroupInv'
  OBVIOUS
<1>0. /\ At("loop") /\ UNCHANGED nodes
      /\ Return(Top.res, pos) \/ Call([Top EXCEPT !.pc = "item"], pos)
  BY DEF BodyNext, heap
<1>1. /\ Grouped(nodes', NULL) /\ Untouched /\ Top.res \in Nat
      /\ FrameGroup(Top, nodes) /\ Top.pc = "loop"
  BY <1>0, UnchangedQuiet, AtNodes, AtGroup
<1>2. CASE Return(Top.res, pos)
  BY <1>0, <1>1, <1>2, EndsGroup
<1>3. CASE Call([Top EXCEPT !.pc = "item"], pos)
  <2>1. \A f : f.pc = "item" /\ f.res = Top.res => FrameGroup(f, nodes')
    BY <1>0, <1>1 DEF FrameGroup
  <2> QED
    BY <1>0, <1>1, <1>3, <2>1, SimplePoints, GoesGroup
<1> QED
  BY <1>0, <1>2, <1>3

\* BodyItem.
LEMMA BodyItemGroup == IInv /\ NodesInv /\ GroupInv /\ BodyItem => GroupInv'
<1> SUFFICES ASSUME IInv, NodesInv, GroupInv, BodyItem PROVE GroupInv'
  OBVIOUS
<1>0. At("item")
  BY DEF BodyItem
<1>1. /\ Top.res \in Nat /\ Top.res \in DOMAIN nodes /\ nodes[Top.res].type = "body"
  BY <1>0, AtNodes, AtGroup DEF FrameGroup
<1>2. CASE stack' = Pop /\ UNCHANGED nodes
  BY <1>0, <1>2, UnchangedQuiet, MovesGroup
<1>3. CASE /\ nodes' = IF ret.expr = NULL THEN nodes
                       ELSE [nodes EXCEPT ![Top.res].items = Append(@, ret.expr)]
           /\ Continue([Top EXCEPT !.pc = "loop"], pos)
  <2>1. /\ Grouped(nodes', NULL) /\ Untouched
        /\ Top.res \in DOMAIN nodes' /\ nodes'[Top.res].type = "body"
    <3>1. CASE ret.expr = NULL
      BY <1>0, <1>1, <1>3, <3>1, UnchangedQuiet
    <3>2. CASE ret.expr # NULL
      <4>1. \E c : nodes' = [nodes EXCEPT ![Top.res].items = Append(@, c)]
        BY <1>3, <3>2
      <4> QED
        BY <1>0, <1>1, <4>1, GivenQuiet
    <3> QED
      BY <3>1, <3>2
  <2>2. \A f : f.pc = "loop" /\ f.res = Top.res => FrameGroup(f, nodes')
    BY <2>1 DEF FrameGroup
  <2> QED
    BY <1>0, <1>1, <1>3, <2>1, <2>2, SimplePoints, GoesGroup
<1> QED
  BY <1>2, <1>3 DEF BodyItem

-----------------------------------------------------------------------------
(* process_operation, the destructors and main.                            *)

\* Where the nodes are that Rotate moves.
LEMMA RotateFacts ==
  ASSUME NodesTyped(nodes), Forest(nodes), NEW n \in DOMAIN nodes, NEW r \in DOMAIN nodes,
         r = nodes[n].right, NEW t, t = Rotate(n, r)
  PROVE  /\ r # n /\ nodes[n].left # n /\ nodes[n].left # r
         /\ nodes[r].left # n /\ nodes[r].left # r /\ nodes[r].right # n /\ nodes[r].right # r
         /\ \A m \in DOMAIN nodes : nodes[m].left # r /\ (m # n => nodes[m].right # r)
         /\ DOMAIN t = DOMAIN nodes
         /\ \A m \in DOMAIN nodes : m # n /\ m # r => t[m] = nodes[m]
         /\ t[n].type = nodes[n].type /\ t[n].wrapped = nodes[n].wrapped
         /\ t[n].items = nodes[n].items /\ t[n].op = nodes[r].op /\ t[n].at = nodes[r].at
         /\ t[n].left = r /\ t[n].right = nodes[r].right
         /\ t[r].type = nodes[r].type /\ t[r].wrapped = nodes[r].wrapped
         /\ t[r].items = nodes[r].items /\ t[r].op = nodes[n].op /\ t[r].at = nodes[n].at
         /\ t[r].left = nodes[n].left /\ t[r].right = nodes[r].left
<1>1. NULL \notin DOMAIN nodes
  BY DEF NodesTyped
<1>2. PICK top \in Nat : \E rank : Ranks(nodes, rank, top)
  BY DEF Forest, Ranked
<1>3. PICK rank : Ranks(nodes, rank, top)
  BY <1>2
<1>4. ASSUME NEW m \in DOMAIN nodes
      PROVE  /\ -1 \in Slots(nodes[m]) /\ Kid(nodes[m], -1) = nodes[m].left
             /\ 0 \in Slots(nodes[m]) /\ Kid(nodes[m], 0) = nodes[m].right
  BY KidFields
<1>5. ASSUME NEW m \in DOMAIN nodes, NEW k \in {nodes[m].left, nodes[m].right}, k # NULL
      PROVE  k \in DOMAIN nodes /\ rank[k] < rank[m] /\ rank[k] \in Nat /\ rank[m] \in Nat
  <2>1. k \in KidsOf(nodes[m]) /\ k \in DOMAIN nodes
    BY <1>4, <1>5, KidSlot DEF Forest
  <2> QED
    BY <1>3, <2>1 DEF Ranks
<1>6. r # NULL /\ rank[r] < rank[n] /\ rank[r] \in Nat /\ rank[n] \in Nat
  BY <1>1, <1>5
<1>7. /\ r # n /\ nodes[n].left # n
      /\ nodes[r].left # n /\ nodes[r].left # r /\ nodes[r].right # n /\ nodes[r].right # r
  BY <1>1, <1>5, <1>6
<1>8. \A m \in DOMAIN nodes : nodes[m].left # r /\ (m # n => nodes[m].right # r)
  <2>1. \A m \in DOMAIN nodes : \A i \in Slots(nodes[m]) :
          Kid(nodes[m], i) = Kid(nodes[n], 0) => m = n /\ i = 0
    BY <1>4, <1>6 DEF Forest, KidsOnce
  <2> QED
    BY <1>4, <2>1
<1>9. /\ DOMAIN t = DOMAIN nodes
      /\ \A m \in DOMAIN nodes : m # n /\ m # r => t[m] = nodes[m]
      /\ t[n] = [nodes[n] EXCEPT !.op = nodes[r].op, !.at = nodes[r].at,
                                 !.left = r, !.right = nodes[r].right]
      /\ t[r] = [nodes[r] EXCEPT !.op = nodes[n].op, !.at = nodes[n].at,
                                 !.left = nodes[n].left, !.right = nodes[r].left]
  BY <1>7 DEF Rotate
<1>10. nodes[n] \in NodeRecord /\ nodes[r] \in NodeRecord
  BY DEF NodesTyped
<1>11. /\ t[n].type = nodes[n].type /\ t[n].wrapped = nodes[n].wrapped
       /\ t[n].items = nodes[n].items /\ t[n].op = nodes[r].op /\ t[n].at = nodes[r].at
       /\ t[n].left = r /\ t[n].right = nodes[r].right
  BY <1>9, <1>10 DEF NodeRecord
<1>12. /\ t[r].type = nodes[r].type /\ t[r].wrapped = nodes[r].wrapped
       /\ t[r].items = nodes[r].items /\ t[r].op = nodes[n].op /\ t[r].at = nodes[n].at
       /\ t[r].left = nodes[n].left /\ t[r].right = nodes[r].left
  BY <1>9, <1>10 DEF NodeRecord
<1> QED
  BY <1>7, <1>8, <1>9, <1>11, <1>12

\* What is on the right of h fits after all.
LEMMA SettledGroup ==
  ASSUME NEW ns, NULL \notin DOMAIN ns, NEW h, Grouped(ns, NULL) \/ Grouped(ns, h),
         Open(ns, h) /\ Open(ns, ns[h].right) => FitsRight(ns[ns[h].right].op, ns[h].op)
  PROVE  Grouped(ns, NULL)
<1>1. CASE Grouped(ns, h) /\ h # NULL
  <2>1. Open(ns, h) /\ ~Open(ns, NULL)
    BY <1>1 DEF Grouped, Open
  <2> SUFFICES ASSUME NEW n \in DOMAIN ns, ns[n].type = "oper"
               PROVE  LeftFits(ns, n, NULL) /\ RightFits(ns, n, NULL)
    BY <1>1 DEF Grouped
  <2>2. LeftFits(ns, n, h) /\ RightFits(ns, n, h)
    BY <1>1 DEF Grouped
  <2>3. LeftFits(ns, n, NULL)
    BY <2>1, <2>2 DEF LeftFits
  <2>4. RightFits(ns, n, NULL)
    BY <2>1, <2>2 DEF RightFits
  <2> QED
    BY <2>3, <2>4
<1> QED
  BY <1>1

\* It moves the operation that does not fit its right operand down to the left.
LEMMA RotateGroup ==
  ASSUME NodesTyped(nodes), Forest(nodes), NEW n, Grouped(nodes, n), Open(nodes, n),
         NEW r, r = nodes[n].right, Open(nodes, r), Regroups(nodes[n].op, nodes[r].op),
         NEW t, t = Rotate(n, r)
  PROVE  Grouped(t, r)
<1>0. /\ n \in DOMAIN nodes /\ r \in DOMAIN nodes
      /\ nodes[n].type = "oper" /\ nodes[r].type = "oper"
  BY DEF Open
<1> DEFINE a == nodes[n].left
           b == nodes[r].left
           c == nodes[r].right
<1>1. /\ r # n /\ a # n /\ a # r /\ b # n /\ b # r /\ c # n /\ c # r
      /\ \A m \in DOMAIN nodes : nodes[m].left # r /\ (m # n => nodes[m].right # r)
      /\ DOMAIN t = DOMAIN nodes
      /\ \A m \in DOMAIN nodes : m # n /\ m # r => t[m] = nodes[m]
  BY <1>0, RotateFacts
<1>2. /\ t[n].type = nodes[n].type /\ t[n].wrapped = nodes[n].wrapped
      /\ t[n].items = nodes[n].items /\ t[n].op = nodes[r].op /\ t[n].left = r /\ t[n].right = c
      /\ t[r].type = nodes[r].type /\ t[r].wrapped = nodes[r].wrapped
      /\ t[r].items = nodes[r].items /\ t[r].op = nodes[n].op /\ t[r].left = a /\ t[r].right = b
  BY <1>0, RotateFacts
<1>3. \A m : Open(t, m) <=> Open(nodes, m)
  BY <1>0, <1>1, <1>2 DEF Open
<1>4. \A m \in DOMAIN nodes : nodes[m].type = "oper" =>
        /\ nodes[m].op \in Operators /\ nodes[m].items = <<>>
        /\ LeftFits(nodes, m, n) /\ RightFits(nodes, m, n)
  BY DEF Grouped
<1>5. \A m : Open(nodes, m) /\ m \notin {n, r} => t[m] = nodes[m]
  BY <1>1 DEF Open
<1>6. LeftFits(t, n, r) /\ RightFits(t, n, r)
  <2>1. FitsLeft(nodes[n].op, nodes[r].op)
    BY <1>0, <1>4, GroupingIsRight
  <2>2. Open(nodes, b) => FitsLeft(nodes[b].op, nodes[r].op)
    BY <1>0, <1>4 DEF LeftFits
  <2>3. Open(nodes, c) => FitsRight(nodes[c].op, nodes[r].op)
    <3>1. RightFits(nodes, r, n)
      BY <1>0, <1>4
    <3> QED
      BY <1>1, <3>1 DEF RightFits
  <2>4. LeftFits(t, n, r)
    BY <1>1, <1>2, <1>3, <1>5, <2>1, <2>2 DEF LeftFits
  <2>5. RightFits(t, n, r)
    BY <1>1, <1>2, <1>3, <1>5, <2>3 DEF RightFits
  <2> QED
    BY <2>4, <2>5
<1>7. LeftFits(t, r, r) /\ RightFits(t, r, r)
  <2>1. Open(nodes, a) => FitsLeft(nodes[a].op, nodes[n].op)
    BY <1>0, <1>4 DEF LeftFits
  <2>2. LeftFits(t, r, r)
    BY <1>1, <1>2, <1>3, <1>5, <2>1 DEF LeftFits
  <2>3. RightFits(t, r, r)
    BY <1>1, <1>2 DEF RightFits
  <2> QED
    BY <2>2, <2>3
<1>8. ASSUME NEW m \in DOMAIN nodes, nodes[m].type = "oper", m # n, m # r
      PROVE  LeftFits(t, m, r) /\ RightFits(t, m, r)
  <2>1. /\ t[m] = nodes[m] /\ nodes[m].left # r /\ nodes[m].right # r
        /\ LeftFits(nodes, m, n) /\ RightFits(nodes, m, n)
    BY <1>1, <1>4, <1>8
  <2>2. LeftFits(t, m, r)
    <3>1. CASE nodes[m].left = n
      <4>1. FitsLeft(nodes[r].op, nodes[m].op)
        BY <2>1, <3>1 DEF LeftFits
      <4> QED
        BY <1>1, <1>2, <2>1, <3>1, <4>1 DEF LeftFits
    <3>2. CASE nodes[m].left # n
      BY <1>3, <1>5, <2>1, <3>2 DEF LeftFits
    <3> QED
      BY <3>1, <3>2
  <2>3. RightFits(t, m, r)
    BY <1>3, <1>5, <1>8, <2>1 DEF RightFits
  <2> QED
    BY <2>2, <2>3
<1>9. ASSUME NEW m \in DOMAIN t, t[m].type = "oper"
      PROVE  t[m].op \in Operators /\ t[m].items = <<>> /\ LeftFits(t, m, r) /\ RightFits(t, m, r)
  <2>1. CASE m = n
    BY <1>0, <1>2, <1>4, <1>6, <2>1
  <2>2. CASE m = r
    BY <1>0, <1>2, <1>4, <1>7, <2>2
  <2>3. CASE m # n /\ m # r
    <3>1. m \in DOMAIN nodes /\ t[m] = nodes[m]
      BY <1>1, <2>3
    <3> QED
      BY <1>4, <1>8, <1>9, <2>3, <3>1
  <2> QED
    BY <2>1, <2>2, <2>3
<1> QED
  BY <1>3, <1>9 DEF Grouped

\* The nodes that are results are none the types and parentheses of which change.
LEMMA StackGroup ==
  ASSUME GroupInv, UNCHANGED stack,
         \A d \in 1..Len(stack) :
           /\ Open(nodes', stack[d].res) <=> Open(nodes, stack[d].res)
           /\ stack[d].res \in DOMAIN nodes =>
                /\ stack[d].res \in DOMAIN nodes'
                /\ nodes'[stack[d].res].type = nodes[stack[d].res].type
  PROVE  FramesGroup(stack', nodes')
BY DEF GroupInv, FramesGroup, FrameGroup

\* process_operation.
LEMMA ProcessOperationGroup == IInv /\ NodesInv /\ GroupInv /\ process_operation => GroupInv'
<1> SUFFICES ASSUME IInv, NodesInv, GroupInv, process_operation PROVE GroupInv'
  OBVIOUS
<1> DEFINE n == Head(calls).node
           r == nodes[n].right
           both == <<nodes'[n].left, nodes'[n].right>>
<1>0. /\ calls \in Seq(CallRecord) /\ calls # <<>> /\ Head(calls).fn = "process_operation"
      /\ NodesTyped(nodes) /\ NULL \notin DOMAIN nodes /\ Forest(nodes) /\ UNCHANGED stack
  BY DEF process_operation, Pending, Crash, IInv, StackInv, NodeInv, NodesTyped, NodesInv
<1>1. Grouped(nodes, NULL) \/ Grouped(nodes, n)
  BY DEF GroupInv
<1>2. ASSUME UNCHANGED nodes PROVE FramesGroup(stack', nodes')
  BY <1>0, <1>2 DEF GroupInv
<1>3. CASE UNCHANGED <<nodes, calls>>
  BY <1>0, <1>2, <1>3 DEF GroupInv
<1>4. CASE n \in DOMAIN nodes /\ (Closed(n) \/ (r \in DOMAIN nodes /\ Closed(r))) /\ UNCHANGED nodes
  <2>1. ~Open(nodes, n) \/ ~Open(nodes, r)
    BY <1>4 DEF Closed, Open
  <2>2. Grouped(nodes, NULL)
    BY <1>0, <1>1, <2>1, SettledGroup
  <2> QED
    BY <1>2, <1>4, <2>2 DEF GroupInv
<1>5. CASE /\ n \in DOMAIN nodes /\ ~Closed(n) /\ r \in DOMAIN nodes /\ ~Closed(r)
           /\ nodes' = IF Regroups(nodes[n].op, nodes[r].op) THEN Rotate(n, r) ELSE nodes
           /\ calls' = Calls("process_operation", both) \o Tail(calls)
  <2>1. Open(nodes, n) /\ Open(nodes, r) /\ n # NULL
    BY <1>0, <1>5 DEF Closed, Open
  <2>2. nodes[n].op \in Operators /\ nodes[r].op \in Operators
    BY <1>1, <2>1 DEF Grouped, Open
  <2>3. CASE Regroups(nodes[n].op, nodes[r].op)
    <3>1. ~Grouped(nodes, NULL)
      <4>1. ~FitsRight(nodes[r].op, nodes[n].op)
        BY <2>2, <2>3, GroupingIsRight
      <4>2. ~RightFits(nodes, n, NULL)
        BY <2>1, <4>1 DEF RightFits
      <4> QED
        BY <2>1, <4>2 DEF Grouped, Open
    <3>2. Grouped(nodes, n) /\ nodes' = Rotate(n, r)
      BY <1>1, <1>5, <2>3, <3>1
    <3> HIDE DEF n, r, both
    <3>3. Grouped(nodes', r)
      BY <1>0, <2>1, <2>3, <3>2, RotateGroup DEF r
    <3>4. n \in DOMAIN nodes /\ r \in DOMAIN nodes /\ r = nodes[n].right
      BY <1>5 DEF r
    <3>5. /\ DOMAIN nodes' = DOMAIN nodes
          /\ \A m \in DOMAIN nodes : m # n /\ m # r => nodes'[m] = nodes[m]
          /\ nodes'[n].type = nodes[n].type /\ nodes'[n].wrapped = nodes[n].wrapped
          /\ nodes'[n].left = r /\ nodes'[n].right = nodes[r].right
          /\ nodes'[r].type = nodes[r].type /\ nodes'[r].wrapped = nodes[r].wrapped
      BY <1>0, <3>2, <3>4, RotateFacts
    <3>9. nodes[r].right \in Nat /\ r \in Nat
      BY <1>0, <3>4 DEF NodeRecord, NodesTyped
    <3>6. \A m \in DOMAIN nodes : /\ nodes'[m].type = nodes[m].type
                                  /\ nodes'[m].wrapped = nodes[m].wrapped
      BY <3>5
    <3>7. FramesGroup(stack', nodes')
      BY <1>0, <3>5, <3>6, StackGroup DEF Open
    <3>8. calls' # <<>> /\ Head(calls') = [fn |-> "process_operation", node |-> r]
      <4>1. both = <<r, nodes[r].right>> /\ both \in Seq(Nat) /\ Len(both) = 2 /\ both[1] = r
        BY <3>5, <3>9 DEF both
      <4>2. Tail(calls) \in Seq(CallRecord)
        BY <1>0, FirstCall
      <4>3. LET w == Calls("process_operation", both) \o Tail(calls)
            IN  /\ Len(w) = Len(both) + Len(Tail(calls)) /\ Len(Tail(calls)) \in Nat
                /\ \A j \in 1..Len(both) : w[j] = [fn |-> "process_operation", node |-> both[j]]
        BY <4>1, <4>2, CallsBefore
      <4>4. /\ Len(calls') = 2 + Len(Tail(calls)) /\ Len(Tail(calls)) \in Nat
            /\ calls'[1] = [fn |-> "process_operation", node |-> r]
        <5>1. 1 \in 1..Len(both)
          BY <4>1
        <5> QED
          BY <1>5, <4>1, <4>3, <5>1
      <4>5. calls' # <<>> /\ Head(calls') = calls'[1]
        <5>1. calls' \in Seq(CallRecord)
          <6>1. Calls("process_operation", both) \in Seq(CallRecord)
            BY <4>1, CallsTyped
          <6> QED
            BY <1>5, <4>2, <6>1, ConcatProperties
        <5>2. Len(calls') # 0
          BY <4>4
        <5>3. calls' # <<>>
          BY <5>2
        <5> QED
          BY <5>1, <5>3, FirstCall
      <4> QED
        BY <4>4, <4>5
    <3> QED
      BY <3>3, <3>7, <3>8 DEF GroupInv
  <2>4. CASE ~Regroups(nodes[n].op, nodes[r].op)
    <3>1. FitsRight(nodes[r].op, nodes[n].op)
      BY <2>2, <2>4, GroupingIsRight
    <3>2. Grouped(nodes, NULL)
      BY <1>0, <1>1, <3>1, SettledGroup
    <3>3. UNCHANGED nodes
      BY <1>5, <2>4
    <3> QED
      BY <1>2, <3>2, <3>3 DEF GroupInv
  <2> QED
    BY <2>3, <2>4
<1> QED
  BY <1>3, <1>4, <1>5 DEF process_operation, Crash, Regroups

\* DestroyNode.
LEMMA DestroyNodeGroup == IInv /\ NodesInv /\ GroupInv /\ DestroyNode => GroupInv'
<1> SUFFICES ASSUME IInv, NodesInv, GroupInv, DestroyNode PROVE GroupInv'
  OBVIOUS
<1> DEFINE n == Head(calls).node
<1>0. /\ calls \in Seq(CallRecord) /\ calls # <<>> /\ Head(calls).fn = "destroy"
      /\ NULL \notin DOMAIN nodes /\ UNCHANGED stack
  BY DEF DestroyNode, Pending, Crash, IInv, StackInv, NodeInv, NodesTyped
<1>1. Grouped(nodes, NULL)
  BY <1>0 DEF GroupInv
<1>2. CASE UNCHANGED nodes
  BY <1>0, <1>1, <1>2 DEF GroupInv
<1>3. CASE n \in DOMAIN nodes /\ nodes' = [m \in DOMAIN nodes \ {n} |-> nodes[m]]
  <2>1. /\ DOMAIN nodes' = DOMAIN nodes \ {n}
        /\ \A m \in DOMAIN nodes' : nodes'[m] = nodes[m]
    BY <1>3
  <2>2. Grouped(nodes', NULL)
    <3>1. Quiet(nodes, nodes')
      BY <2>1 DEF Quiet
    <3> QED
      BY <1>1, <3>1, QuietGrouped
  <2>3. n \in Doomed(calls)
    <3>1. 1 \in 1..Len(calls) /\ Head(calls) = calls[1]
      BY <1>0, FirstCall
    <3> QED
      BY <1>0, <1>3, <3>1 DEF Doomed
  <2>4. \A d \in 1..Len(stack) : stack[d].res = NULL \/ stack[d].res # n
    BY <2>3 DEF NodesInv, Parted, Roots
  <2>5. FramesGroup(stack', nodes')
    BY <1>0, <1>3, <2>1, <2>4, StackGroup DEF Open
  <2> QED
    BY <2>2, <2>5 DEF GroupInv
<1> QED
  BY <1>2, <1>3 DEF DestroyNode

\* PrintAst, LexerFree and the end.
LEMMA SameGroup ==
  IInv /\ GroupInv /\ (PrintAst \/ LexerFree \/ UNCHANGED vars) => GroupInv'
<1> SUFFICES ASSUME IInv, GroupInv, PrintAst \/ LexerFree \/ UNCHANGED vars PROVE GroupInv'
  OBVIOUS
<1>1. CASE UNCHANGED vars
  BY <1>1 DEF GroupInv, vars, heap
<1>2. CASE PrintAst \/ LexerFree
  <2>1. calls = <<>> /\ UNCHANGED <<nodes, stack>>
    BY <1>2 DEF PrintAst, LexerFree, heap
  <2> QED
    BY <2>1 DEF GroupInv
<1> QED
  BY <1>1, <1>2

\* The initial states.
LEMMA InitGroup == Init => GroupInv
<1> SUFFICES ASSUME Init PROVE GroupInv
  OBVIOUS
<1> DEFINE f == Frame("loop", FALSE, 1, Len(tokens))
<1>1. DOMAIN nodes = {1} /\ nodes[1] = Node("body", 0, {}) /\ stack = <<f>>
  BY DEF Init
<1>2. nodes[1].type = "body"
  BY <1>1, FreshNode
<1>3. Grouped(nodes, NULL)
  BY <1>1, <1>2 DEF Grouped
<1>4. f.pc = "loop" /\ f.res = 1
  BY DEF Frame
<1> HIDE DEF f
<1>5. FrameGroup(f, nodes)
  BY <1>1, <1>2, <1>4 DEF FrameGroup
<1>6. Len(stack) = 1 /\ stack[1] = f
  BY <1>1
<1>7. \A d \in 1..Len(stack) : stack[d] = f
  BY <1>6
<1> QED
  BY <1>3, <1>5, <1>7 DEF GroupInv, FramesGroup

\* Every step keeps the invariant.
LEMMA NextGroup ==
  ASSUME "stale" \notin FuncSlot, IInv, NodesInv, GroupInv, [Next]_vars
  PROVE  GroupInv'
BY DeclStartGroup, DeclNameGroup, DeclMarkGroup, DeclTypeGroup, DeclAssignGroup,
   DeclValueGroup, EndingGroup, VariableGroup, LiteralGroup, ParenOpenGroup,
   ParenCloseGroup, NextLabelGroup, OperandGroup, FuncStartGroup, FuncNameGroup,
   FuncArgGroup, FuncReturnGroup, ScopeOpenGroup, ScopeEndGroup, BodyNextGroup,
   BodyItemGroup, ProcessOperationGroup, DestroyNodeGroup, SameGroup
DEF Next, Stop

LEMMA GroupInvariance == ASSUME "stale" \notin FuncSlot PROVE Spec => []GroupInv
<1>1. IInv /\ NodesInv /\ GroupInv /\ [Next]_vars => GroupInv'
  BY NextGroup
<1> QED
  BY <1>1, InitGroup, Invariance, NodesInvariance, PTL DEF Spec

\* The rows that group to the left.
LEMMA LeftRows ==
  \A op \in Operators : Rows[Row(op)] \in {{"*", "/", "%"}, {"+", "-"}} <=> Row(op) \in ToTheLeft
<1> SUFFICES ASSUME NEW op \in Operators
             PROVE  Rows[Row(op)] \in {{"*", "/", "%"}, {"+", "-"}} <=> Row(op) \in ToTheLeft
  OBVIOUS
<1>1. Row(op) \in 1..8
  <2>1. CASE op \in {"=", "<", ">", "?", ":"}
    BY <2>1, RowTable
  <2>2. CASE op \in {"!", "~", "&", "^", "|", "*", "/", "%", "+", "-"}
    BY <2>2, RowTable
  <2> QED
    BY <2>1, <2>2 DEF Operators
<1>2. /\ Rows[4] \in {{"*", "/", "%"}, {"+", "-"}}
      /\ Rows[5] \in {{"*", "/", "%"}, {"+", "-"}}
  BY RowsAre
<1>3. \A i \in {1, 2, 3, 6, 7, 8} : Rows[i] \notin {{"*", "/", "%"}, {"+", "-"}}
  <2>1. "=" \in Rows[1] /\ "!" \in Rows[2] /\ "~" \in Rows[3]
        /\ "&" \in Rows[6] /\ "^" \in Rows[7] /\ "|" \in Rows[8]
    BY RowsAre
  <2> QED
    BY <2>1
<1> QED
  BY <1>1, <1>2, <1>3 DEF ToTheLeft

\* On every program, whatever the operators and the parentheses, process_operation
\* leaves each expression grouped by the priorities: no operand without parentheses
\* binds looser than its operation, and one of the same row is on the side to
\* which the row groups (ast.c:199-223).
THEOREM ExpressionsAreSettled ==
  ASSUME "stale" \notin FuncSlot
  PROVE  Spec => []OperatorsSettled
<1>1. ASSUME IInv, NodesInv, GroupInv PROVE OperatorsSettled
  <2> SUFFICES ASSUME NEW n \in Operations
               PROVE  LET l == nodes[n].left
                          r == nodes[n].right
                          row == Row(nodes[n].op)
                          toTheLeft == Rows[row] \in {{"*", "/", "%"}, {"+", "-"}}
                      IN  /\ l \in DOMAIN nodes /\ ~Closed(l) =>
                               Row(nodes[l].op) < row \/ (Row(nodes[l].op) = row /\ toTheLeft)
                          /\ ~Closed(r) =>
                               Row(nodes[r].op) < row \/ (Row(nodes[r].op) = row /\ ~toTheLeft)
    BY DEF OperatorsSettled
  <2> DEFINE l == nodes[n].left
             r == nodes[n].right
             row == Row(nodes[n].op)
             toTheLeft == Rows[row] \in {{"*", "/", "%"}, {"+", "-"}}
  <2>1. calls = <<>> /\ n \in DOMAIN nodes /\ nodes[n].type = "oper" /\ r # NULL
    BY DEF Operations
  <2>2. Grouped(nodes, NULL)
    BY <1>1, <2>1 DEF GroupInv
  <2>3. nodes[n].op \in Operators /\ LeftFits(nodes, n, NULL) /\ RightFits(nodes, n, NULL)
    BY <2>1, <2>2 DEF Grouped
  <2>4. NULL \notin DOMAIN nodes /\ n # NULL
    BY <1>1, <2>1 DEF IInv, NodeInv, NodesTyped
  <2>5. toTheLeft <=> row \in ToTheLeft
    BY <2>3, LeftRows
  <2>6. l \in DOMAIN nodes /\ ~Closed(l) =>
          Row(nodes[l].op) < row \/ (Row(nodes[l].op) = row /\ toTheLeft)
    <3>1. l \in DOMAIN nodes /\ ~Closed(l) => FitsLeft(nodes[l].op, nodes[n].op)
      BY <2>3 DEF LeftFits, Open, Closed
    <3> QED
      BY <2>5, <3>1 DEF FitsLeft
  <2>7. ~Closed(r) => Row(nodes[r].op) < row \/ (Row(nodes[r].op) = row /\ ~toTheLeft)
    <3>1. r \in DOMAIN nodes
      BY <1>1, <2>1, Pointers DEF NodesInv
    <3>2. ~Closed(r) => FitsRight(nodes[r].op, nodes[n].op)
      BY <2>3, <2>4, <3>1 DEF RightFits, Open, Closed
    <3> QED
      BY <2>5, <3>2 DEF FitsRight
  <2> QED
    BY <2>6, <2>7
<1> QED
  BY <1>1, Invariance, NodesInvariance, GroupInvariance, PTL

-----------------------------------------------------------------------------
(* Where in the source the nodes are.                                      *)

\* The two operands are below an operation.
LEMMA LeftRightKids ==
  \A y : /\ y.left # NULL => y.left \in KidsOf(y)
         /\ y.right # NULL => y.right \in KidsOf(y)
<1> TAKE y
<1>1. -1 \in Slots(y) /\ 0 \in Slots(y) /\ Kid(y, -1) = y.left /\ Kid(y, 0) = y.right
  BY KidFields
<1> QED
  BY <1>1 DEF KidsOf

\* From lo[m] to hi[m] is a stretch of the source that holds m and what is
\* below it; that of the left operand of an operation ends before the operator,
\* that of the right one starts behind it.
Spread(ns, lo, hi, m) ==
  /\ ns[m].at \in Int /\ lo[m] <= ns[m].at /\ ns[m].at <= hi[m]
  /\ \A k \in KidsOf(ns[m]) : k \in DOMAIN ns /\ lo[m] <= lo[k] /\ hi[k] <= hi[m]
  /\ ns[m].type = "oper" =>
       /\ ns[m].left # NULL => hi[ns[m].left] < ns[m].at
       /\ ns[m].right # NULL => ns[m].at < lo[ns[m].right]

Spans(ns, lo, hi) ==
  /\ lo \in [DOMAIN ns -> Int] /\ hi \in [DOMAIN ns -> Int]
  /\ \A m \in DOMAIN ns : Spread(ns, lo, hi, m)

\* The stretches of the results of the calls in s, and of x, come one after the
\* other; the cursor has passed p and, when there is an x, q - 1.
Line(lo, hi, s, x, p, q) ==
  /\ \A d \in 1..Len(s) : s[d].res # NULL =>
       /\ s[d].res \in DOMAIN lo /\ hi[s[d].res] < p
       /\ \A c \in 1..d - 1 : s[c].res # NULL => hi[s[c].res] < lo[s[d].res]
  /\ x # NULL =>
       /\ x \in DOMAIN lo /\ hi[x] < q
       /\ \A d \in 1..Len(s) : s[d].res # NULL => hi[s[d].res] < lo[x]

Placed(ns, s, x, p, q) ==
  \E lo, hi : Spans(ns, lo, hi) /\ Line(lo, hi, s, x, p, q)

SpanInv == Placed(nodes, stack, ret.expr, pos, pos)

\* The stretch of the node x, new or not below another, is made to hold the
\* nodes that are now below x.
LEMMA GrowSpans ==
  ASSUME NEW ns, NEW lo, NEW hi, Spans(ns, lo, hi),
         NEW t, NEW x, DOMAIN t = DOMAIN ns \cup {x}, x \notin Kids(ns),
         \A m \in DOMAIN ns : m # x => t[m] = ns[m],
         NEW low, low \in [DOMAIN t -> Int], NEW high, high \in [DOMAIN t -> Int],
         \A m \in DOMAIN ns : m # x => low[m] = lo[m] /\ high[m] = hi[m],
         Spread(t, low, high, x)
  PROVE  Spans(t, low, high)
<1>1. ASSUME NEW m \in DOMAIN t, m # x PROVE Spread(t, low, high, m)
  <2>1. m \in DOMAIN ns /\ t[m] = ns[m] /\ low[m] = lo[m] /\ high[m] = hi[m]
    BY <1>1
  <2>2. \A k \in KidsOf(ns[m]) : /\ k \in DOMAIN ns /\ k \in DOMAIN t
                                  /\ low[k] = lo[k] /\ high[k] = hi[k]
    BY <2>1 DEF Spans, Spread, Kids
  <2> QED
    BY <2>1, <2>2, LeftRightKids DEF Spans, Spread
<1> QED
  BY <1>1 DEF Spans

\* Only other fields change.
LEMMA LikeSpans ==
  ASSUME NEW ns, NEW lo, NEW hi, Spans(ns, lo, hi), NEW t, DOMAIN t = DOMAIN ns,
         \A m \in DOMAIN ns :
           /\ t[m].type = ns[m].type /\ t[m].at = ns[m].at
           /\ t[m].left = ns[m].left /\ t[m].right = ns[m].right /\ t[m].items = ns[m].items
  PROVE  Spans(t, lo, hi)
<1>1. \A m \in DOMAIN ns : KidsOf(t[m]) = KidsOf(ns[m])
  BY SameKids
<1> QED
  BY <1>1 DEF Spans, Spread

\* A node that is not below another goes.
LEMMA LessSpans ==
  ASSUME NEW ns, NEW lo, NEW hi, Spans(ns, lo, hi), NEW x, x \notin Kids(ns),
         NEW t, DOMAIN t = DOMAIN ns \ {x}, \A m \in DOMAIN t : t[m] = ns[m]
  PROVE  Spans(t, [m \in DOMAIN t |-> lo[m]], [m \in DOMAIN t |-> hi[m]])
<1> DEFINE low == [m \in DOMAIN t |-> lo[m]]
           high == [m \in DOMAIN t |-> hi[m]]
<1>1. /\ low \in [DOMAIN t -> Int] /\ high \in [DOMAIN t -> Int]
      /\ \A m \in DOMAIN t : m \in DOMAIN ns /\ low[m] = lo[m] /\ high[m] = hi[m]
  BY DEF Spans
<1> HIDE DEF low, high
<1>2. \A m \in DOMAIN t : \A k \in KidsOf(t[m]) : k \in DOMAIN t
  BY DEF Spans, Spread, Kids
<1>3. \A y : /\ y.left # NULL => y.left \in KidsOf(y)
             /\ y.right # NULL => y.right \in KidsOf(y)
  BY LeftRightKids
<1>4. Spans(t, low, high)
  BY <1>1, <1>2, <1>3 DEF Spans, Spread
<1> QED
  BY <1>4 DEF low, high

\* What is below an operation.
LEMMA OperandsOnly ==
  ASSUME NEW y, y.items = <<>>
  PROVE  KidsOf(y) = {y.left, y.right} \ {NULL}
<1>1. Slots(y) = {-1, 0}
  BY DEF Slots
<1> QED
  BY <1>1 DEF KidsOf, Kid

\* Two operations pass their operands around.
LEMMA RotateSpans ==
  ASSUME NodesTyped(nodes), Forest(nodes), NEW n \in DOMAIN nodes, NEW r \in DOMAIN nodes,
         r = nodes[n].right, NEW t, t = Rotate(n, r),
         nodes[n].type = "oper", nodes[n].items = <<>>,
         nodes[r].type = "oper", nodes[r].items = <<>>,
         NEW lo, NEW hi, Spans(nodes, lo, hi)
  PROVE  Spans(t, [m \in DOMAIN t |-> IF m = r THEN lo[n] ELSE lo[m]],
                  [m \in DOMAIN t |-> IF m = r THEN nodes[r].at - 1 ELSE hi[m]])
<1> DEFINE a == nodes[n].left
           b == nodes[r].left
           c == nodes[r].right
           low == [m \in DOMAIN t |-> IF m = r THEN lo[n] ELSE lo[m]]
           high == [m \in DOMAIN t |-> IF m = r THEN nodes[r].at - 1 ELSE hi[m]]
<1>1. /\ r # n /\ a # n /\ a # r /\ b # n /\ b # r /\ c # n /\ c # r
      /\ DOMAIN t = DOMAIN nodes
      /\ \A m \in DOMAIN nodes : m # n /\ m # r => t[m] = nodes[m]
      /\ t[n].type = "oper" /\ t[n].items = <<>> /\ t[n].at = nodes[r].at
      /\ t[n].left = r /\ t[n].right = c
      /\ t[r].type = "oper" /\ t[r].items = <<>> /\ t[r].at = nodes[n].at
      /\ t[r].left = a /\ t[r].right = b
  BY RotateFacts
<1>2. r # NULL
  BY DEF NodesTyped
<1>3. /\ KidsOf(nodes[n]) = {a, r} \ {NULL} /\ KidsOf(nodes[r]) = {b, c} \ {NULL}
      /\ KidsOf(t[n]) = {r, c} \ {NULL} /\ KidsOf(t[r]) = {a, b} \ {NULL}
  BY <1>1, OperandsOnly
<1>4. /\ low \in [DOMAIN t -> Int] /\ high \in [DOMAIN t -> Int]
      /\ low[r] = lo[n] /\ high[r] = nodes[r].at - 1
      /\ \A m \in DOMAIN nodes : m # r => low[m] = lo[m] /\ high[m] = hi[m]
  BY <1>1 DEF Spans, Spread
<1>5. /\ lo[n] \in Int /\ hi[n] \in Int /\ lo[r] \in Int /\ hi[r] \in Int
      /\ nodes[n].at \in Int /\ nodes[r].at \in Int
      /\ lo[n] <= nodes[n].at /\ nodes[n].at < lo[r] /\ lo[n] <= lo[r]
      /\ lo[r] <= nodes[r].at /\ nodes[r].at <= hi[r] /\ hi[r] <= hi[n]
  BY <1>2, <1>3 DEF Spans, Spread
<1>6. a # NULL => /\ a \in DOMAIN nodes /\ lo[a] \in Int /\ hi[a] \in Int
                  /\ lo[n] <= lo[a] /\ hi[a] < nodes[n].at
  BY <1>3 DEF Spans, Spread
<1>7. /\ b # NULL => /\ b \in DOMAIN nodes /\ lo[b] \in Int /\ hi[b] \in Int
                     /\ lo[r] <= lo[b] /\ hi[b] < nodes[r].at
      /\ c # NULL => /\ c \in DOMAIN nodes /\ lo[c] \in Int /\ hi[c] \in Int
                     /\ nodes[r].at < lo[c] /\ hi[c] <= hi[r]
  BY <1>3 DEF Spans, Spread
<1>8. \A m \in DOMAIN nodes : m # n /\ m # r => r \notin KidsOf(nodes[m])
  <2>1. 0 \in Slots(nodes[n]) /\ Kid(nodes[n], 0) = r
    BY KidFields
  <2>2. ASSUME NEW m \in DOMAIN nodes, m # n, NEW i \in Slots(nodes[m]), Kid(nodes[m], i) = r
        PROVE  FALSE
    BY <1>2, <2>1, <2>2 DEF Forest, KidsOnce
  <2> QED
    BY <2>2, KidSlot
<1> HIDE DEF a, b, c, low, high
<1>9. ASSUME NEW m \in DOMAIN nodes, m # n, m # r
      PROVE  Spread(t, low, high, m)
  <2>1. t[m] = nodes[m] /\ low[m] = lo[m] /\ high[m] = hi[m] /\ DOMAIN t = DOMAIN nodes
    BY <1>1, <1>4, <1>9
  <2>2. \A k \in KidsOf(nodes[m]) : k \in DOMAIN nodes /\ low[k] = lo[k] /\ high[k] = hi[k]
    BY <1>4, <1>8, <1>9 DEF Spans, Spread
  <2> QED
    BY <2>1, <2>2, LeftRightKids DEF Spans, Spread
<1>10. Spread(t, low, high, n)
  <2>1. low[n] = lo[n] /\ high[n] = hi[n] /\ t[n].at = nodes[r].at
    BY <1>1, <1>4
  <2>2. c # NULL => low[c] = lo[c] /\ high[c] = hi[c]
    BY <1>1, <1>4, <1>7
  <2>3. /\ r \in DOMAIN t /\ low[n] <= low[r] /\ high[r] <= high[n] /\ high[r] < t[n].at
        /\ t[n].at \in Int /\ low[n] <= t[n].at /\ t[n].at <= high[n]
    BY <1>1, <1>4, <1>5, <2>1
  <2>4. c # NULL => /\ c \in DOMAIN t /\ low[n] <= low[c] /\ high[c] <= high[n]
                    /\ t[n].at < low[c]
    BY <1>1, <1>5, <1>7, <2>1, <2>2
  <2> QED
    BY <1>1, <1>3, <2>3, <2>4 DEF Spread
<1>11. Spread(t, low, high, r)
  <2>1. low[r] = lo[n] /\ high[r] = nodes[r].at - 1 /\ t[r].at = nodes[n].at
    BY <1>1, <1>4
  <2>2. /\ a # NULL => low[a] = lo[a] /\ high[a] = hi[a]
        /\ b # NULL => low[b] = lo[b] /\ high[b] = hi[b]
    BY <1>1, <1>4, <1>6, <1>7
  <2>3. t[r].at \in Int /\ low[r] <= t[r].at /\ t[r].at <= high[r]
    BY <1>5, <2>1
  <2>4. a # NULL => /\ a \in DOMAIN t /\ low[r] <= low[a] /\ high[a] <= high[r]
                    /\ high[a] < t[r].at
    BY <1>1, <1>5, <1>6, <2>1, <2>2
  <2>5. b # NULL => /\ b \in DOMAIN t /\ low[r] <= low[b] /\ high[b] <= high[r]
                    /\ t[r].at < low[b]
    BY <1>1, <1>5, <1>7, <2>1, <2>2
  <2> QED
    BY <1>1, <1>3, <2>3, <2>4, <2>5 DEF Spread
<1>12. Spans(t, low, high)
  BY <1>1, <1>4, <1>9, <1>10, <1>11 DEF Spans
<1> QED
  BY <1>12 DEF low, high

-----------------------------------------------------------------------------
(* The nodes of the calls, one after the other in the source.              *)

\* Fewer nodes, a later cursor; what was handed over may be a call's by now.
LEMMA PlacedLater ==
  ASSUME NEW ns, NEW s, NEW x, NEW p \in Int, NEW q \in Int, Placed(ns, s, x, p, q),
         Len(s) \in Nat, NEW u, Len(u) \in Nat,
         NEW y, NEW pt \in Int, NEW qt \in Int, p <= pt,
         \/ /\ y = NULL \/ (y = x /\ q <= qt)
            /\ \A d \in 1..Len(u) : u[d].res # NULL => d <= Len(s) /\ u[d].res = s[d].res
         \/ /\ y = NULL /\ q <= pt
            /\ \A d \in 1..Len(u) : u[d].res # NULL =>
                 \/ d <= Len(s) /\ u[d].res = s[d].res
                 \/ d = Len(s) + 1 /\ u[d].res = x
         \/ /\ y = s[Len(s)].res /\ p <= qt /\ Len(s) # 0
            /\ \A d \in 1..Len(u) : u[d].res # NULL => d < Len(s) /\ u[d].res = s[d].res
  PROVE  Placed(ns, u, y, pt, qt)
<1>1. PICK lo, hi : Spans(ns, lo, hi) /\ Line(lo, hi, s, x, p, q)
  BY DEF Placed
<1>2. /\ DOMAIN lo = DOMAIN ns
      /\ \A m \in DOMAIN ns : lo[m] \in Int /\ hi[m] \in Int
  BY <1>1 DEF Spans
<1>3. \A d \in 1..Len(s) : s[d].res # NULL =>
        /\ s[d].res \in DOMAIN ns /\ hi[s[d].res] < p
        /\ \A c \in 1..d - 1 : s[c].res # NULL => hi[s[c].res] < lo[s[d].res]
  BY <1>1, <1>2 DEF Line
<1>4. x # NULL =>
        /\ x \in DOMAIN ns /\ hi[x] < q
        /\ \A d \in 1..Len(s) : s[d].res # NULL => hi[s[d].res] < lo[x]
  BY <1>1, <1>2 DEF Line
<1>5. CASE /\ y = NULL \/ (y = x /\ q <= qt)
           /\ \A d \in 1..Len(u) : u[d].res # NULL => d <= Len(s) /\ u[d].res = s[d].res
  <2>1. ASSUME NEW d \in 1..Len(u), u[d].res # NULL
        PROVE  /\ d \in 1..Len(s) /\ u[d].res = s[d].res
               /\ u[d].res \in DOMAIN ns /\ hi[u[d].res] < pt
               /\ \A c \in 1..d - 1 : u[c].res # NULL => hi[u[c].res] < lo[u[d].res]
    <3>1. d \in 1..Len(s) /\ u[d].res = s[d].res
      BY <1>5, <2>1
    <3>2. \A c \in 1..d - 1 : u[c].res # NULL => u[c].res = s[c].res
      BY <1>5
    <3>3. /\ u[d].res \in DOMAIN ns /\ hi[u[d].res] < p
          /\ \A c \in 1..d - 1 : s[c].res # NULL => hi[s[c].res] < lo[u[d].res]
      BY <1>3, <2>1, <3>1
    <3>4. hi[u[d].res] \in Int /\ hi[u[d].res] < pt
      BY <1>2, <3>3
    <3>5. \A c \in 1..d - 1 : u[c].res # NULL => hi[u[c].res] < lo[u[d].res]
      BY <3>2, <3>3
    <3> QED
      BY <3>1, <3>3, <3>4, <3>5
  <2>2. y # NULL =>
          /\ y \in DOMAIN ns /\ hi[y] < qt
          /\ \A d \in 1..Len(u) : u[d].res # NULL => hi[u[d].res] < lo[y]
    <3>1. y # NULL => y = x /\ hi[x] \in Int
      BY <1>2, <1>4, <1>5
    <3>2. \A d \in 1..Len(u) : u[d].res # NULL => d \in 1..Len(s) /\ u[d].res = s[d].res
      BY <2>1
    <3> QED
      BY <1>4, <1>5, <3>1, <3>2
  <2> QED
    BY <1>1, <1>2, <2>1, <2>2 DEF Placed, Line
<1>6. CASE /\ y = NULL /\ q <= pt
           /\ \A d \in 1..Len(u) : u[d].res # NULL =>
                \/ d <= Len(s) /\ u[d].res = s[d].res
                \/ d = Len(s) + 1 /\ u[d].res = x
  <2>1. ASSUME NEW d \in 1..Len(u), u[d].res # NULL
        PROVE  /\ u[d].res \in DOMAIN ns /\ hi[u[d].res] < pt
               /\ \A c \in 1..d - 1 : u[c].res # NULL => hi[u[c].res] < lo[u[d].res]
    <3>1. CASE d <= Len(s) /\ u[d].res = s[d].res
      <4>1. d \in 1..Len(s) /\ hi[u[d].res] \in Int
        BY <1>2, <1>3, <2>1, <3>1
      <4>2. \A c \in 1..d - 1 : u[c].res # NULL => u[c].res = s[c].res
        BY <1>6, <4>1
      <4> QED
        BY <1>3, <2>1, <3>1, <4>1, <4>2
    <3>2. CASE d = Len(s) + 1 /\ u[d].res = x
      <4>1. x # NULL /\ hi[x] \in Int
        BY <1>2, <1>4, <2>1, <3>2
      <4>2. \A c \in 1..d - 1 : u[c].res # NULL => c \in 1..Len(s) /\ u[c].res = s[c].res
        BY <1>6, <3>2
      <4> QED
        BY <1>4, <1>6, <3>2, <4>1, <4>2
    <3> QED
      BY <1>6, <2>1, <3>1, <3>2
  <2> QED
    BY <1>1, <1>2, <1>6, <2>1 DEF Placed, Line
<1>7. CASE /\ y = s[Len(s)].res /\ p <= qt /\ Len(s) # 0
           /\ \A d \in 1..Len(u) : u[d].res # NULL => d < Len(s) /\ u[d].res = s[d].res
  <2>1. ASSUME NEW d \in 1..Len(u), u[d].res # NULL
        PROVE  /\ d \in 1..Len(s) - 1 /\ u[d].res = s[d].res
               /\ u[d].res \in DOMAIN ns /\ hi[u[d].res] < pt
               /\ \A c \in 1..d - 1 : u[c].res # NULL => hi[u[c].res] < lo[u[d].res]
    <3>1. d \in 1..Len(s) /\ d < Len(s) /\ u[d].res = s[d].res
      BY <1>7, <2>1
    <3>2. \A c \in 1..d - 1 : u[c].res # NULL => u[c].res = s[c].res
      BY <1>7
    <3>3. /\ u[d].res \in DOMAIN ns /\ hi[u[d].res] < p
          /\ \A c \in 1..d - 1 : s[c].res # NULL => hi[s[c].res] < lo[u[d].res]
      BY <1>3, <2>1, <3>1
    <3>4. hi[u[d].res] \in Int /\ hi[u[d].res] < pt
      BY <1>2, <3>3
    <3>5. \A c \in 1..d - 1 : u[c].res # NULL => hi[u[c].res] < lo[u[d].res]
      BY <3>2, <3>3
    <3> QED
      BY <3>1, <3>3, <3>4, <3>5
  <2>2. Len(s) \in 1..Len(s)
    BY <1>7
  <2>3. y # NULL =>
          /\ y \in DOMAIN ns /\ hi[y] < qt
          /\ \A d \in 1..Len(u) : u[d].res # NULL => hi[u[d].res] < lo[y]
    <3>1. y # NULL => y \in DOMAIN ns /\ hi[y] < p /\ hi[y] \in Int
      BY <1>2, <1>3, <1>7, <2>2
    <3>2. y # NULL => \A c \in 1..Len(s) - 1 : s[c].res # NULL => hi[s[c].res] < lo[y]
      BY <1>3, <1>7, <2>2
    <3> QED
      BY <1>7, <2>1, <3>1, <3>2
  <2> QED
    BY <1>1, <1>2, <2>1, <2>3 DEF Placed, Line
<1> QED
  BY <1>5, <1>6, <1>7

\* A new node at the cursor, above x when there is an x.
LEMMA PlacedAbove ==
  ASSUME NEW ns, NEW s, NEW x, NEW p \in Int, NEW q \in Int, Placed(ns, s, x, p, q),
         Len(s) \in Nat, NEW id, id \notin DOMAIN ns, id # NULL,
         NEW t, DOMAIN t = DOMAIN ns \cup {id}, \A m \in DOMAIN ns : t[m] = ns[m],
         t[id].at \in Int, p <= t[id].at, q <= t[id].at,
         KidsOf(t[id]) \subseteq {x} \ {NULL}, t[id].right = NULL
  PROVE  Placed(t, s, id, p, t[id].at + 1)
<1> DEFINE a == t[id].at
<1>1. PICK lo, hi : Spans(ns, lo, hi) /\ Line(lo, hi, s, x, p, q)
  BY DEF Placed
<1>2. /\ DOMAIN lo = DOMAIN ns
      /\ \A m \in DOMAIN ns : /\ lo[m] \in Int /\ hi[m] \in Int /\ ns[m].at \in Int
                              /\ lo[m] <= ns[m].at /\ ns[m].at <= hi[m]
  BY <1>1 DEF Spans, Spread
<1> DEFINE l == IF x = NULL THEN a ELSE lo[x]
           low == [m \in DOMAIN t |-> IF m = id THEN l ELSE lo[m]]
           high == [m \in DOMAIN t |-> IF m = id THEN a ELSE hi[m]]
<1>3. x # NULL => /\ x \in DOMAIN ns /\ hi[x] < q /\ x # id
                  /\ \A d \in 1..Len(s) : s[d].res # NULL => hi[s[d].res] < lo[x]
  BY <1>1, <1>2 DEF Line
<1>4. l \in Int /\ l <= a
  BY <1>2, <1>3
<1>5. /\ low[id] = l /\ high[id] = a /\ DOMAIN low = DOMAIN t /\ id \in DOMAIN t
      /\ \A m \in DOMAIN ns : low[m] = lo[m] /\ high[m] = hi[m] /\ m \in DOMAIN t
      /\ low \in [DOMAIN t -> Int] /\ high \in [DOMAIN t -> Int]
  BY <1>2, <1>4
<1>6. x # NULL => hi[x] < a /\ hi[x] \in Int /\ lo[x] = l
  BY <1>2, <1>3
<1> HIDE DEF l, low, high
<1>7. Spread(t, low, high, id)
  <2>1. \A k \in KidsOf(t[id]) : k = x /\ x # NULL
    OBVIOUS
  <2>2. \A k \in KidsOf(t[id]) :
          k \in DOMAIN t /\ low[id] <= low[k] /\ high[k] <= high[id]
    BY <1>3, <1>4, <1>5, <1>6, <2>1
  <2>3. t[id].left # NULL => high[t[id].left] < a
    <3>1. t[id].left # NULL => t[id].left = x /\ x # NULL
      BY <2>1, LeftRightKids
    <3> QED
      BY <1>3, <1>5, <1>6, <3>1
  <2> QED
    BY <1>4, <1>5, <2>2, <2>3 DEF Spread
<1>8. Spans(t, low, high)
  <2>1. id \notin Kids(ns)
    BY <1>1 DEF Spans, Spread, Kids
  <2> QED
    BY <1>1, <1>5, <1>7, <2>1, GrowSpans
<1>9. ASSUME NEW d \in 1..Len(s), s[d].res # NULL
      PROVE  /\ s[d].res \in DOMAIN low /\ high[s[d].res] < p /\ high[s[d].res] < l
             /\ \A c \in 1..d - 1 : s[c].res # NULL => high[s[c].res] < low[s[d].res]
  <2>1. /\ s[d].res \in DOMAIN ns /\ hi[s[d].res] < p
        /\ \A c \in 1..d - 1 : s[c].res # NULL =>
             s[c].res \in DOMAIN ns /\ hi[s[c].res] < lo[s[d].res]
    <3>1. \A c \in 1..d - 1 : c \in 1..Len(s)
      OBVIOUS
    <3> QED
      BY <1>1, <1>2, <1>9, <3>1 DEF Line
  <2>2. hi[s[d].res] < l
    <3>1. CASE x = NULL
      BY <1>2, <2>1, <3>1 DEF l
    <3>2. CASE x # NULL
      BY <1>3, <1>9, <3>2 DEF l
    <3> QED
      BY <3>1, <3>2
  <2> QED
    BY <1>5, <2>1, <2>2
<1>10. high[id] < a + 1
  BY <1>5
<1>11. Line(low, high, s, id, p, a + 1)
  BY <1>5, <1>9, <1>10 DEF Line
<1> QED
  BY <1>8, <1>11 DEF Placed

\* t is ns with the node c, or nothing, below x, on the right of an operation.
Gains(ns, t, x, c) ==
  /\ DOMAIN t = DOMAIN ns /\ \A m \in DOMAIN ns : m # x => t[m] = ns[m]
  /\ t[x].at = ns[x].at /\ t[x].type = ns[x].type
  /\ KidsOf(t[x]) \subseteq KidsOf(ns[x]) \cup {c}
  /\ t[x].type = "oper" => t[x].left = ns[x].left /\ t[x].right \in {c, NULL}

\* u is s without the call on top, the result of which is x.
Pops(s, u, x) ==
  /\ Len(s) \in Nat /\ Len(s) # 0 /\ x = s[Len(s)].res /\ x # NULL
  /\ Len(u) = Len(s) - 1 /\ \A d \in 1..Len(u) : u[d].res = s[d].res

\* The node of the call on top gets the node c, or nothing, below it.
LEMMA PlacedAnswer ==
  ASSUME NEW ns, NEW s, NEW c, NEW p \in Int, NEW q \in Int, Placed(ns, s, c, p, q), p <= q,
         NEW u, NEW x, Pops(s, u, x), x \notin Kids(ns), NEW t, Gains(ns, t, x, c)
  PROVE  Placed(t, u, x, p, q)
<1> USE DEF Pops
<1>0. /\ DOMAIN t = DOMAIN ns /\ \A m \in DOMAIN ns : m # x => t[m] = ns[m]
      /\ t[x].at = ns[x].at /\ t[x].type = ns[x].type
      /\ KidsOf(t[x]) \subseteq KidsOf(ns[x]) \cup {c}
      /\ t[x].type = "oper" => t[x].left = ns[x].left /\ t[x].right \in {c, NULL}
  BY DEF Gains
<1>1. PICK lo, hi : Spans(ns, lo, hi) /\ Line(lo, hi, s, c, p, q)
  BY DEF Placed
<1>2. /\ DOMAIN lo = DOMAIN ns
      /\ \A m \in DOMAIN ns : /\ lo[m] \in Int /\ hi[m] \in Int /\ ns[m].at \in Int
                              /\ lo[m] <= ns[m].at /\ ns[m].at <= hi[m]
  BY <1>1 DEF Spans, Spread
<1>3. Len(s) \in 1..Len(s)
  OBVIOUS
<1>4. /\ x \in DOMAIN ns /\ hi[x] < p
      /\ \A d \in 1..Len(s) - 1 : s[d].res # NULL => hi[s[d].res] < lo[x]
  BY <1>1, <1>2, <1>3 DEF Line
<1>5. c # NULL => /\ c \in DOMAIN ns /\ hi[c] < q /\ hi[x] < lo[c] /\ c # x
                  /\ hi[x] < hi[c] /\ lo[x] <= lo[c]
  <2>1. c # NULL => c \in DOMAIN ns /\ hi[c] < q /\ hi[x] < lo[c]
    BY <1>1, <1>2, <1>3 DEF Line
  <2> QED
    BY <1>2, <1>4, <2>1
<1> DEFINE h == IF c = NULL THEN hi[x] ELSE hi[c]
           low == [m \in DOMAIN t |-> IF m = x THEN lo[x] ELSE lo[m]]
           high == [m \in DOMAIN t |-> IF m = x THEN h ELSE hi[m]]
<1>6. /\ h \in Int /\ h < q /\ hi[x] <= h /\ lo[x] \in Int
      /\ t[x].at \in Int /\ lo[x] <= t[x].at /\ t[x].at <= h
  BY <1>0, <1>2, <1>4, <1>5
<1>7. /\ low[x] = lo[x] /\ high[x] = h /\ DOMAIN low = DOMAIN ns
      /\ \A m \in DOMAIN ns : m # x => low[m] = lo[m] /\ high[m] = hi[m]
      /\ low \in [DOMAIN t -> Int] /\ high \in [DOMAIN t -> Int]
  BY <1>0, <1>2, <1>4, <1>6
<1>8. c # NULL => hi[c] = h
  OBVIOUS
<1> HIDE DEF h, low, high
<1>9. Spread(t, low, high, x)
  <2>1. ASSUME NEW k \in KidsOf(t[x])
        PROVE  k \in DOMAIN t /\ low[x] <= low[k] /\ high[k] <= high[x]
    <3>1. CASE k \in KidsOf(ns[x])
      <4>1. k \in DOMAIN ns /\ lo[x] <= lo[k] /\ hi[k] <= hi[x] /\ k # x
        BY <1>1, <1>4, <3>1 DEF Spans, Spread, Kids
      <4> QED
        BY <1>0, <1>2, <1>4, <1>6, <1>7, <4>1
    <3>2. CASE k = c
      <4>1. k # NULL
        BY DEF KidsOf
      <4> QED
        BY <1>0, <1>2, <1>5, <1>6, <1>7, <1>8, <3>2, <4>1
    <3> QED
      BY <1>0, <2>1, <3>1, <3>2
  <2>2. ASSUME t[x].type = "oper"
        PROVE  /\ t[x].left # NULL => high[t[x].left] < t[x].at
               /\ t[x].right # NULL => t[x].at < low[t[x].right]
    <3>1. /\ ns[x].type = "oper" /\ t[x].left = ns[x].left /\ t[x].right \in {c, NULL}
      BY <1>0, <2>2
    <3>2. ns[x].left # NULL => /\ hi[ns[x].left] < ns[x].at
                               /\ ns[x].left \in DOMAIN ns /\ ns[x].left # x
      BY <1>1, <1>4, <3>1, LeftRightKids DEF Spans, Spread, Kids
    <3>3. c # NULL => ns[x].at < lo[c]
      BY <1>2, <1>4, <1>5
    <3> QED
      BY <1>0, <1>5, <1>7, <3>1, <3>2, <3>3
  <2> QED
    BY <1>6, <1>7, <2>1, <2>2 DEF Spread
<1>10. Spans(t, low, high)
  <2>1. DOMAIN t = DOMAIN ns \cup {x} /\ \A m \in DOMAIN ns : m # x => t[m] = ns[m]
    BY <1>0, <1>4
  <2> HIDE DEF Pops
  <2> QED
    BY <1>1, <1>7, <1>9, <2>1, GrowSpans
<1>11. ASSUME NEW d \in 1..Len(u), u[d].res # NULL
       PROVE  /\ u[d].res \in DOMAIN ns /\ u[d].res # x
              /\ hi[u[d].res] < p /\ hi[u[d].res] < lo[x]
              /\ \A e \in 1..d - 1 : u[e].res # NULL => hi[u[e].res] < lo[u[d].res]
  <2>1. d \in 1..Len(s) /\ d \in 1..Len(s) - 1 /\ u[d].res = s[d].res
    OBVIOUS
  <2>2. \A e \in 1..d - 1 : u[e].res = s[e].res
    OBVIOUS
  <2>3. /\ u[d].res \in DOMAIN ns /\ hi[u[d].res] < p /\ hi[u[d].res] < lo[x]
        /\ \A e \in 1..d - 1 : u[e].res # NULL => hi[u[e].res] < lo[u[d].res]
    BY <1>1, <1>2, <1>4, <1>11, <2>1, <2>2 DEF Line
  <2>4. lo[x] <= hi[x]
    BY <1>2, <1>4
  <2> QED
    BY <1>2, <1>4, <2>3, <2>4
<1>12. ASSUME NEW d \in 1..Len(u), u[d].res # NULL
       PROVE  /\ u[d].res \in DOMAIN low /\ high[u[d].res] < p /\ high[u[d].res] < low[x]
              /\ \A e \in 1..d - 1 : u[e].res # NULL => high[u[e].res] < low[u[d].res]
  <2>1. \A e \in 1..d - 1 : e \in 1..Len(u)
    OBVIOUS
  <2> QED
    BY <1>7, <1>11, <1>12, <2>1
<1>13. Line(low, high, u, x, p, q)
  BY <1>4, <1>6, <1>7, <1>12 DEF Line
<1> QED
  BY <1>10, <1>13 DEF Placed

\* The node of the call on top gets a new node below it, which may be above y.
LEMMA PlacedBelow ==
  ASSUME NEW ns, NEW s, NEW y, NEW p \in Int, NEW q \in Int, Placed(ns, s, y, p, q),
         NEW u, NEW x \in DOMAIN ns, Pops(s, u, x), x \notin Kids(ns), x # y,
         NEW id, id \notin DOMAIN ns, id # NULL,
         NEW v, DOMAIN v = DOMAIN ns \cup {id}, \A m \in DOMAIN ns : v[m] = ns[m],
         v[id].at \in Int, KidsOf(v[id]) \subseteq {y} \ {NULL}, v[id].right = NULL,
         NEW e \in Int, e = v[id].at + 1, p < e, q < e,
         NEW t, Gains(v, t, x, id)
  PROVE  Placed(t, u, x, p, e)
<1>1. Placed(v, s, id, p, e)
  <2>1. p <= v[id].at /\ q <= v[id].at
    OBVIOUS
  <2>2. Placed(v, s, id, p, v[id].at + 1)
    BY <2>1, PlacedAbove DEF Pops
  <2> QED
    BY <2>2
<1>2. x \notin Kids(v)
  <2>1. \A m \in DOMAIN ns : x \notin KidsOf(v[m])
    BY DEF Kids
  <2>2. x \notin KidsOf(v[id])
    OBVIOUS
  <2> QED
    BY <2>1, <2>2 DEF Kids
<1>3. p <= e
  OBVIOUS
<1> QED
  BY <1>1, <1>2, <1>3, PlacedAnswer

\* Only other fields change.
LEMMA PlacedLike ==
  ASSUME NEW ns, NEW s, NEW x, NEW p, NEW q, Placed(ns, s, x, p, q),
         NEW t, DOMAIN t = DOMAIN ns,
         \A m \in DOMAIN ns :
           /\ t[m].type = ns[m].type /\ t[m].at = ns[m].at
           /\ t[m].left = ns[m].left /\ t[m].right = ns[m].right /\ t[m].items = ns[m].items
  PROVE  Placed(t, s, x, p, q)
BY LikeSpans DEF Placed

-----------------------------------------------------------------------------
(* Steps of the call on top.                                               *)

\* What an action of the call on top starts from.
LEMMA AtSpan ==
  ASSUME IInv, NodesInv, SpanInv, NEW pc, At(pc)
  PROVE  /\ Len(stack) \in Nat /\ Len(stack) # 0 /\ stack[Len(stack)].res = Top.res
         /\ Len(Pop) = Len(stack) - 1 /\ \A d \in 1..Len(Pop) : Pop[d].res = stack[d].res
         /\ pos \in Nat \ {0} /\ pos \in Int /\ nextId \in Nat \ {NULL}
         /\ nextId # NULL /\ nextId \notin DOMAIN nodes
         /\ Placed(nodes, stack, ret.expr, pos, pos)
         /\ Placed(nodes, Pop, ret.expr, pos, pos)
         /\ Placed(nodes, Pop, NULL, pos, pos)
         /\ ret.expr = NULL => Placed(nodes, Pop, Top.res, pos, pos)
<1>1. /\ stack # <<>> /\ stack \in Seq(FrameRecord) /\ pos \in Nat \ {0}
      /\ nextId \in Nat \ {NULL}
  BY DEF At, IInv, StackInv, NodeInv
<1>2. Len(stack) \in Nat /\ Len(stack) # 0 /\ stack[Len(stack)].res = Top.res
  BY <1>1, EmptySeq, LenProperties DEF Top
<1>3. Len(Pop) = Len(stack) - 1 /\ \A d \in 1..Len(stack) - 1 : Pop[d].res = stack[d].res
  BY <1>1, PopFacts
<1>4. Placed(nodes, stack, ret.expr, pos, pos)
  BY DEF SpanInv
<1>5. Len(Pop) \in Nat /\ pos \in Int /\ pos <= pos
  BY <1>1, <1>2, <1>3
<1>6. \A d \in 1..Len(Pop) : d <= Len(stack) /\ d < Len(stack) /\ Pop[d].res = stack[d].res
  BY <1>2, <1>3
<1>7. /\ Placed(nodes, Pop, ret.expr, pos, pos)
      /\ Placed(nodes, Pop, NULL, pos, pos)
      /\ Placed(nodes, Pop, Top.res, pos, pos)
  BY <1>2, <1>4, <1>5, <1>6, PlacedLater
<1>8. nextId \notin DOMAIN nodes
  BY AtNodes
<1> QED
  BY <1>1, <1>2, <1>3, <1>4, <1>5, <1>7, <1>8

\* It returns x or fails, goes on with x as its result, or calls.
LEMMA MovesSpan ==
  ASSUME IInv, NodesInv, SpanInv, NEW pc, At(pc), NEW x, NEW q \in Int, pos <= q,
         Placed(nodes', Pop, x, pos, q),
         \/ \E r : Fail(r) \/ FailAgain(r)
         \/ \E p \in Int : q <= p /\ Return(x, p)
         \/ \E p \in Int : q <= p /\ Return(NULL, p)
         \/ \E p \in Int : q <= p /\ \E f \in FrameRecord :
              f.res = x /\ (Continue(f, p) \/ Call(f, p))
  PROVE  SpanInv'
<1>1. /\ Len(stack) \in Nat /\ Len(stack) # 0 /\ Len(Pop) = Len(stack) - 1
      /\ \A d \in 1..Len(Pop) : Pop[d].res = stack[d].res
      /\ pos \in Int
  BY AtSpan
<1>2. Len(Pop) \in Nat /\ stack \in Seq(FrameRecord) /\ stack # <<>>
  BY <1>1 DEF At, IInv, StackInv
<1>3. ASSUME NEW y, NEW r \in Int, NEW pt \in Int, Placed(nodes', Pop, y, pos, r),
             pos <= pt, ret'.expr \in {y, NULL}, ret'.expr # NULL => r <= pt,
             stack' = Pop, pos' = pt
      PROVE  SpanInv'
  <2> DEFINE u == Pop
  <2>1. \A d \in 1..Len(u) : d <= Len(Pop) /\ u[d].res = Pop[d].res
    BY <1>2
  <2>2. Len(u) \in Nat
    BY <1>2
  <2> HIDE DEF u
  <2>3. Placed(nodes', u, ret'.expr, pt, pt)
    BY <1>1, <1>2, <1>3, <2>1, <2>2, PlacedLater
  <2> QED
    BY <1>3, <2>3 DEF SpanInv, u
<1>4. CASE \E r : Fail(r) \/ FailAgain(r)
  BY <1>1, <1>3, <1>4 DEF Fail, FailAgain, Abort
<1>5. CASE \E p \in Int : q <= p /\ (Return(x, p) \/ Return(NULL, p))
  BY <1>1, <1>3, <1>5 DEF Return
<1>6. ASSUME NEW p \in Int, q <= p, NEW f \in FrameRecord, f.res = x,
             Continue(f, p) \/ Call(f, p)
      PROVE  SpanInv'
  <2> DEFINE t == [stack EXCEPT ![Len(stack)] = f]
             g == Frame("start", f.pc = "item", NULL, f.hi)
  <2>1. /\ t \in Seq(FrameRecord) /\ Len(t) = Len(stack)
        /\ \A d \in 1..Len(stack) : t[d] = IF d = Len(stack) THEN f ELSE stack[d]
    BY <1>1, <1>2, <1>6, ExceptSeq
  <2>2. g.res = NULL
    BY DEF Frame
  <2> HIDE DEF t, g
  <2>3. /\ stack' = t \/ stack' = Append(t, g)
        /\ pos' = p /\ ret'.expr = NULL
    BY <1>6 DEF Continue, Call, Nothing, t, g
  <2>4. CASE stack' = t
    <3>1. \A d \in 1..Len(t) : \/ d <= Len(Pop) /\ t[d].res = Pop[d].res
                               \/ d = Len(Pop) + 1 /\ t[d].res = x
      BY <1>1, <1>6, <2>1
    <3>2. Placed(nodes', t, NULL, p, p)
      BY <1>1, <1>2, <1>6, <2>1, <3>1, PlacedLater
    <3> QED
      BY <2>3, <2>4, <3>2 DEF SpanInv
  <2>5. CASE stack' = Append(t, g)
    <3>1. PICK a : a = Append(t, g)
      OBVIOUS
    <3>2. /\ Len(a) = Len(t) + 1 /\ a[Len(t) + 1] = g
          /\ \A d \in 1..Len(t) : a[d] = t[d]
      BY <2>1, <3>1, AppendProperties
    <3>3. \A d \in 1..Len(a) : a[d].res # NULL =>
            \/ d <= Len(Pop) /\ a[d].res = Pop[d].res
            \/ d = Len(Pop) + 1 /\ a[d].res = x
      <4> SUFFICES ASSUME NEW d \in 1..Len(a), a[d].res # NULL
                   PROVE  \/ d <= Len(Pop) /\ a[d].res = Pop[d].res
                          \/ d = Len(Pop) + 1 /\ a[d].res = x
        OBVIOUS
      <4>1. d # Len(t) + 1
        BY <2>2, <3>2
      <4>2. d \in 1..Len(t)
        BY <1>1, <2>1, <3>2, <4>1
      <4> QED
        BY <1>1, <1>6, <2>1, <3>2, <4>2
    <3>4. Placed(nodes', a, NULL, p, p)
      <4>1. Len(a) \in Nat /\ pos <= p
        BY <1>1, <1>6, <2>1, <3>2
      <4> QED
        BY <1>1, <1>2, <1>6, <3>3, <4>1, PlacedLater
    <3> QED
      BY <2>3, <2>5, <3>1, <3>4 DEF SpanInv
  <2> QED
    BY <2>3, <2>4, <2>5
<1> QED
  BY <1>4, <1>5, <1>6

\* It goes on, or calls, at another point.
LEMMA GoesSpan ==
  ASSUME IInv, NodesInv, SpanInv, NEW pc, At(pc), NEW x \in Nat, NEW q \in Int, pos <= q,
         Placed(nodes', Pop, x, pos, q), NEW pd \in PCs, NEW p \in Int, q <= p,
         \/ Continue([Top EXCEPT !.pc = pd, !.res = x], p)
         \/ Call([Top EXCEPT !.pc = pd, !.res = x], p)
         \/ x = Top.res /\ Continue([Top EXCEPT !.pc = pd], p)
         \/ x = Top.res /\ Call([Top EXCEPT !.pc = pd], p)
  PROVE  SpanInv'
<1>1. Top \in FrameRecord
  BY AtNodes
<1>2. /\ [Top EXCEPT !.pc = pd, !.res = x] \in FrameRecord
      /\ [Top EXCEPT !.pc = pd, !.res = x].res = x
      /\ [Top EXCEPT !.pc = pd] \in FrameRecord
      /\ [Top EXCEPT !.pc = pd].res = Top.res
  BY <1>1 DEF FrameRecord
<1>3. ASSUME NEW f \in FrameRecord, f.res = x, Continue(f, p) \/ Call(f, p) PROVE SpanInv'
  BY <1>3, MovesSpan
<1> QED
  BY <1>2, <1>3

LEMMA ThenNextSpan ==
  ASSUME IInv, NodesInv, SpanInv, NEW pc, At(pc), NEW x \in Nat, NEW q \in Int, pos <= q,
         Placed(nodes', Pop, x, pos, q), NEW p \in Int, q <= p, ThenNext(x, p)
  PROVE  SpanInv'
<1>1. CASE Return(x, p)
  BY <1>1, MovesSpan
<1>2. CASE Continue([Top EXCEPT !.pc = "next", !.res = x], p)
  BY <1>2, GoesSpan, SimplePoints
<1> QED
  BY <1>1, <1>2 DEF ThenNext

\* The program dies where it is.
LEMMA StaysSpan ==
  ASSUME NEW site, Crash(site), Placed(nodes', stack, ret.expr, pos, pos)
  PROVE  SpanInv'
BY DEF Crash, SpanInv

\* t has the nodes of ns, where they were and above the same ones.
Alike(ns, t) ==
  /\ DOMAIN t = DOMAIN ns
  /\ \A m \in DOMAIN ns :
       /\ t[m].type = ns[m].type /\ t[m].at = ns[m].at
       /\ t[m].left = ns[m].left /\ t[m].right = ns[m].right /\ t[m].items = ns[m].items

LEMMA AlikeStep ==
  ASSUME IInv, NodesInv, SpanInv, NEW pc, At(pc), Alike(nodes, nodes')
  PROVE  /\ Placed(nodes', stack, ret.expr, pos, pos)
         /\ Placed(nodes', Pop, ret.expr, pos, pos)
         /\ Placed(nodes', Pop, NULL, pos, pos)
         /\ ret.expr = NULL => Placed(nodes', Pop, Top.res, pos, pos)
         /\ pos \in Int /\ pos <= pos
<1>1. ASSUME NEW s, NEW x, Placed(nodes, s, x, pos, pos) PROVE Placed(nodes', s, x, pos, pos)
  BY <1>1, PlacedLike DEF Alike
<1>2. pos <= pos
  BY AtSpan
<1> QED
  BY <1>1, <1>2, AtSpan

\* The node of the call gets pointers to strings.
LEMMA GivenAlike ==
  ASSUME IInv, NodesInv, Top.res \in DOMAIN nodes, NEW S, nodes' = Give(Top.res, S)
  PROVE  Alike(nodes, nodes')
<1>1. nodes[Top.res] \in NodeRecord
  BY DEF IInv, NodeInv, NodesTyped
<1>2. /\ DOMAIN nodes' = DOMAIN nodes /\ \A m \in DOMAIN nodes : m # Top.res => nodes'[m] = nodes[m]
      /\ nodes'[Top.res] = [nodes[Top.res] EXCEPT !.own = @ \cup (S \ {NULL})]
  BY DEF Give
<1>3. /\ nodes'[Top.res].left = nodes[Top.res].left
      /\ nodes'[Top.res].right = nodes[Top.res].right
      /\ nodes'[Top.res].items = nodes[Top.res].items
      /\ nodes'[Top.res].type = nodes[Top.res].type
      /\ nodes'[Top.res].at = nodes[Top.res].at
  BY <1>1, <1>2 DEF NodeRecord
<1> QED
  BY <1>2, <1>3 DEF Alike

\* A new node for the token under the cursor, above x when there is an x.
LEMMA AboveStep ==
  ASSUME IInv, NodesInv, SpanInv, NEW pc, At(pc), NEW rec, New(nodes, rec),
         NEW x, KidsOf(rec) \subseteq {x} \ {NULL}, rec.right = NULL, rec.at = pos,
         NEW s, Len(s) \in Nat, Placed(nodes, s, x, pos, pos), NEW e \in Int, e = pos + 1
  PROVE  Placed(nodes', s, nextId, pos, e) /\ pos <= e /\ nextId \in Nat
<1>1. /\ nextId \notin DOMAIN nodes /\ nextId # NULL /\ nextId \in Nat /\ pos \in Int
  BY AtSpan
<1>2. /\ DOMAIN nodes' = DOMAIN nodes \cup {nextId} /\ nodes'[nextId] = rec
      /\ \A m \in DOMAIN nodes : nodes'[m] = nodes[m]
  BY <1>1, AddedNode
<1>3. pos <= pos /\ pos <= e
  BY <1>1
<1>4. Placed(nodes', s, nextId, pos, nodes'[nextId].at + 1)
  BY <1>1, <1>2, <1>3, PlacedAbove
<1> QED
  BY <1>1, <1>2, <1>3, <1>4

\* A node that has been made for the token at.
LEMMA NodeAt == \A type, at, own : Node(type, at, own).at = at
BY DEF Node

\* What is below a node that gets c.
LEMMA PutsKids ==
  ASSUME NEW x, NEW y, NEW c, Puts(x, y, c)
  PROVE  KidsOf(y) \subseteq KidsOf(x) \cup {c}
BY DEF Puts, KidsOf

\* Its nodes stay where they are, and it has not been given another.
LEMMA KeepsSpan ==
  ASSUME IInv, NodesInv, SpanInv, NEW pc, At(pc), pc \notin Waiting, Alike(nodes, nodes'),
         \/ \E site : Crash(site)
         \/ \E r : Fail(r) \/ FailAgain(r)
         \/ \E p \in Int : pos <= p /\ (Return(Top.res, p) \/ Return(NULL, p))
         \/ \E p \in Int, pd \in PCs :
              /\ pos <= p
              /\ Continue([Top EXCEPT !.pc = pd], p) \/ Call([Top EXCEPT !.pc = pd], p)
  PROVE  SpanInv'
<1>1. ret.expr = NULL /\ Top.res \in Nat
  BY AtNodes
<1>2. /\ Placed(nodes', stack, ret.expr, pos, pos) /\ Placed(nodes', Pop, NULL, pos, pos)
      /\ Placed(nodes', Pop, Top.res, pos, pos) /\ pos \in Int /\ pos <= pos
  BY <1>1, AlikeStep
<1>3. CASE \E site : Crash(site)
  BY <1>2, <1>3, StaysSpan
<1>4. CASE \E r : Fail(r) \/ FailAgain(r)
  BY <1>2, <1>4, MovesSpan
<1>5. ASSUME NEW p \in Int, pos <= p, Return(Top.res, p) \/ Return(NULL, p) PROVE SpanInv'
  BY <1>2, <1>5, MovesSpan
<1>6. ASSUME NEW p \in Int, pos <= p, NEW pd \in PCs,
             Continue([Top EXCEPT !.pc = pd], p) \/ Call([Top EXCEPT !.pc = pd], p)
      PROVE  SpanInv'
  BY <1>1, <1>2, <1>6, GoesSpan
<1> QED
  BY <1>3, <1>4, <1>5, <1>6

LEMMA SameAlike == UNCHANGED nodes => Alike(nodes, nodes')
BY DEF Alike

\* It has a result that is new.
LEMMA FirstSpan ==
  ASSUME IInv, NodesInv, SpanInv, At("start"), NEW type, NEW own,
         New(nodes, Node(type, pos, own)), NEW e, e = pos + 1, NEW pd \in PCs,
         \/ \E r : Fail(r)
         \/ Return(nextId, e)
         \/ ThenNext(nextId, e)
         \/ Continue([Top EXCEPT !.pc = pd, !.res = nextId], e)
  PROVE  SpanInv'
<1> DEFINE x == Node(type, pos, own)
<1>1. KidsOf(x) = {} /\ x.right = NULL
  BY FreshNode
<1>9. x.at = pos
  BY NodeAt
<1> HIDE DEF x
<1>10. /\ Placed(nodes, Pop, NULL, pos, pos) /\ pos \in Int /\ Len(stack) \in Nat
       /\ Len(stack) # 0 /\ Len(Pop) = Len(stack) - 1
  BY AtSpan
<1>2. /\ Placed(nodes, Pop, NULL, pos, pos) /\ pos \in Int /\ Len(Pop) \in Nat /\ e \in Int
  BY <1>10
<1>3. Placed(nodes', Pop, nextId, pos, e) /\ pos <= e /\ nextId \in Nat
  BY <1>1, <1>2, <1>9, AboveStep DEF x
<1>4. e <= e
  BY <1>2
<1>5. CASE \E r : Fail(r)
  BY <1>2, <1>3, <1>5, MovesSpan
<1>6. CASE Return(nextId, e)
  BY <1>2, <1>3, <1>4, <1>6, MovesSpan
<1>7. CASE ThenNext(nextId, e)
  BY <1>2, <1>3, <1>4, <1>7, ThenNextSpan
<1>8. CASE Continue([Top EXCEPT !.pc = pd, !.res = nextId], e)
  BY <1>2, <1>3, <1>4, <1>8, GoesSpan
<1> QED
  BY <1>5, <1>6, <1>7, <1>8

-----------------------------------------------------------------------------
(* The actions.                                                            *)

\* DeclStart, Variable, Literal, FuncStart.
LEMMA StartSpan ==
  IInv /\ NodesInv /\ SpanInv /\ (DeclStart \/ Variable \/ Literal \/ FuncStart) => SpanInv'
<1> SUFFICES ASSUME IInv, NodesInv, SpanInv, DeclStart \/ Variable \/ Literal \/ FuncStart
             PROVE  SpanInv'
  OBVIOUS
<1>1. At("start") /\ "start" \notin Waiting /\ {"declName", "next", "funcName"} \subseteq PCs
  BY Points DEF DeclStart, Variable, Literal, FuncStart
<1>2. CASE Fail(NULL) /\ UNCHANGED heap
  BY <1>1, <1>2, SameAlike, KeepsSpan DEF heap
<1>3. ASSUME NEW type, NEW own, New(nodes, Node(type, pos, own)), NEW pd \in PCs,
             \/ Fail(nextId) \/ Return(nextId, pos + 1) \/ ThenNext(nextId, pos + 1)
             \/ Continue([Top EXCEPT !.pc = pd, !.res = nextId], pos + 1)
      PROVE  SpanInv'
  BY <1>1, <1>3, FirstSpan
<1>4. CASE DeclStart
  BY <1>1, <1>2, <1>3, <1>4 DEF DeclStart
<1>5. CASE Variable
  BY <1>1, <1>3, <1>5 DEF Variable
<1>6. CASE Literal
  BY <1>1, <1>3, <1>6 DEF Literal
<1>7. CASE FuncStart
  BY <1>1, <1>2, <1>3, <1>7 DEF FuncStart
<1> QED
  BY <1>4, <1>5, <1>6, <1>7

\* DeclMark, DeclAssign, SkipToken, RejectToken, Settle, BodyNext.
LEMMA KeepingSpan ==
  IInv /\ NodesInv /\ SpanInv
    /\ (DeclMark \/ DeclAssign \/ SkipToken \/ RejectToken \/ Settle \/ BodyNext) => SpanInv'
<1> SUFFICES ASSUME IInv, NodesInv, SpanInv,
                    DeclMark \/ DeclAssign \/ SkipToken \/ RejectToken \/ Settle \/ BodyNext
             PROVE  SpanInv'
  OBVIOUS
<1>1. PICK pc : At(pc) /\ pc \notin Waiting /\ UNCHANGED nodes
  BY DEF DeclMark, DeclAssign, SkipToken, RejectToken, Settle, BodyNext, Waiting, heap
<1>2. /\ {"declType", "declAssign", "declValue", "item"} \subseteq PCs
      /\ pos \in Int /\ pos <= pos /\ pos + 1 \in Int /\ pos <= pos + 1
  BY <1>1, AtSpan DEF PCs
<1>3. \/ \E site : Crash(site)
      \/ \E r : Fail(r) \/ FailAgain(r)
      \/ \E p \in Int : pos <= p /\ (Return(Top.res, p) \/ Return(NULL, p))
      \/ \E p \in Int, pd \in PCs :
           /\ pos <= p
           /\ Continue([Top EXCEPT !.pc = pd], p) \/ Call([Top EXCEPT !.pc = pd], p)
  <2>1. CASE DeclMark
    BY <1>2, <2>1 DEF DeclMark
  <2>2. CASE DeclAssign
    BY <1>2, <2>2 DEF DeclAssign
  <2>3. CASE SkipToken
    BY <1>2, <2>3 DEF SkipToken
  <2>4. CASE RejectToken
    BY <2>4 DEF RejectToken
  <2>5. CASE Settle
    BY <1>2, <2>5 DEF Settle
  <2>6. CASE BodyNext
    BY <1>2, <2>6 DEF BodyNext
  <2> QED
    BY <2>1, <2>2, <2>3, <2>4, <2>5, <2>6
<1> QED
  BY <1>1, <1>3, SameAlike, KeepsSpan

\* The node of the call gets a new one below it, for the token under the cursor,
\* and that one what the call has been given.
LEMMA BelowStep ==
  ASSUME IInv, NodesInv, SpanInv, NEW pc, At(pc), Top.res \in DOMAIN nodes,
         NEW rec, KidsOf(rec) \subseteq {ret.expr} \ {NULL}, rec.right = NULL, rec.at = pos,
         NEW ns, New(ns, rec), Gains(nodes, ns, Top.res, nextId), ns[Top.res].type # "oper",
         NEW e \in Int, e = pos + 1
  PROVE  Placed(nodes', Pop, Top.res, pos, e) /\ pos <= e
<1>1. /\ Len(stack) \in Nat /\ Len(stack) # 0 /\ stack[Len(stack)].res = Top.res
      /\ Len(Pop) = Len(stack) - 1 /\ \A d \in 1..Len(Pop) : Pop[d].res = stack[d].res
      /\ nextId # NULL /\ nextId \notin DOMAIN nodes /\ pos \in Int
      /\ Placed(nodes, stack, ret.expr, pos, pos)
  BY AtSpan
<1>2. /\ Top.res # ret.expr /\ NULL \notin DOMAIN nodes /\ Top.res \notin Kids(nodes)
  BY AtNodes DEF Only
<1>3. Pops(stack, Pop, Top.res)
  BY <1>1, <1>2 DEF Pops
<1> DEFINE v == With(nodes, nextId, rec)
<1>4. /\ DOMAIN v = DOMAIN nodes \cup {nextId} /\ v[nextId] = rec
      /\ \A m \in DOMAIN nodes : v[m] = nodes[m]
  BY <1>1 DEF With
<1>5. /\ DOMAIN ns = DOMAIN nodes /\ \A m \in DOMAIN nodes : m # Top.res => ns[m] = nodes[m]
      /\ ns[Top.res].at = nodes[Top.res].at /\ ns[Top.res].type = nodes[Top.res].type
      /\ KidsOf(ns[Top.res]) \subseteq KidsOf(nodes[Top.res]) \cup {nextId}
  BY DEF Gains
<1>6. /\ DOMAIN nodes' = DOMAIN nodes \cup {nextId} /\ nodes'[nextId] = rec
      /\ \A m \in DOMAIN nodes : nodes'[m] = ns[m]
  BY <1>1, <1>5, AddedNode
<1> HIDE DEF v
<1>7. Gains(v, nodes', Top.res, nextId)
  BY <1>1, <1>4, <1>5, <1>6 DEF Gains
<1>8. Top.res # ret.expr /\ pos < e /\ pos <= e
  BY <1>1, <1>2
<1>9. /\ KidsOf(v[nextId]) \subseteq {ret.expr} \ {NULL} /\ v[nextId].right = NULL
      /\ v[nextId].at \in Int /\ e = v[nextId].at + 1
  BY <1>1, <1>4
<1>10. Placed(nodes', Pop, Top.res, pos, e)
  <2>1. /\ Placed(nodes, stack, ret.expr, pos, pos) /\ Pops(stack, Pop, Top.res)
        /\ Gains(v, nodes', Top.res, nextId) /\ pos \in Int
        /\ Top.res \in DOMAIN nodes /\ Top.res \notin Kids(nodes) /\ Top.res # ret.expr
        /\ nextId \notin DOMAIN nodes /\ nextId # NULL
        /\ DOMAIN v = DOMAIN nodes \cup {nextId} /\ \A m \in DOMAIN nodes : v[m] = nodes[m]
        /\ v[nextId].at \in Int /\ KidsOf(v[nextId]) \subseteq {ret.expr} \ {NULL}
        /\ v[nextId].right = NULL /\ e = v[nextId].at + 1 /\ pos < e
    BY <1>1, <1>2, <1>3, <1>4, <1>7, <1>8, <1>9
  <2> QED
    BY <2>1, PlacedBelow
<1> QED
  BY <1>8, <1>10

\* DeclName.
LEMMA DeclNameSpan == IInv /\ NodesInv /\ SpanInv /\ DeclName => SpanInv'
<1> SUFFICES ASSUME IInv, NodesInv, SpanInv, DeclName PROVE SpanInv'
  OBVIOUS
<1>0. At("declName") /\ "declName" \notin Waiting /\ "declMark" \in PCs /\ Top.res \in Nat
  BY Points, AtNodes DEF DeclName
<1>1. CASE UNCHANGED heap /\ (Crash("name_printed") \/ Fail(Top.res))
  BY <1>0, <1>1, SameAlike, KeepsSpan DEF heap
<1>2. CASE /\ New([nodes EXCEPT ![Top.res].left = nextId], Node("string", pos, {ptr[pos]}))
           /\ Fail(Top.res) \/ Continue([Top EXCEPT !.pc = "declMark"], pos + 1)
  <2> DEFINE ns == [nodes EXCEPT ![Top.res].left = nextId]
             x == Node("string", pos, {ptr[pos]})
  <2>1. /\ Top.res \in DOMAIN nodes /\ nodes[Top.res] \in NodeRecord
        /\ nodes[Top.res].type = "decl" /\ nodes[Top.res].left = NULL /\ nextId \in Nat
    BY <1>0, AtNodes DEF FrameOK, IInv, NodeInv, NodesTyped
  <2>2. /\ DOMAIN ns = DOMAIN nodes /\ \A m \in DOMAIN nodes : m # Top.res => ns[m] = nodes[m]
        /\ ns[Top.res] = [nodes[Top.res] EXCEPT !.left = nextId]
    BY <2>1
  <2>3. ns[Top.res].type = "decl" /\ ns[Top.res].at = nodes[Top.res].at
    BY <2>1, <2>2 DEF NodeRecord
  <2>4. KidsOf(ns[Top.res]) \subseteq KidsOf(nodes[Top.res]) \cup {nextId}
    <3>1. Puts(nodes[Top.res], ns[Top.res], nextId)
      BY <2>1, <2>2, PutsOne
    <3> QED
      BY <3>1, PutsKids
  <2>5. KidsOf(x) = {} /\ x.right = NULL
    BY FreshNode
  <2>6. x.at = pos
    BY NodeAt
  <2> HIDE DEF ns, x
  <2>7. Gains(nodes, ns, Top.res, nextId)
    BY <2>1, <2>2, <2>3, <2>4 DEF Gains
  <2>8. New(ns, x)
    BY <1>2 DEF ns, x
  <2>9. PICK e \in Int : e = pos + 1
    BY <1>0, AtSpan
  <2>10. Placed(nodes', Pop, Top.res, pos, e) /\ pos <= e /\ e <= e
    BY <1>0, <2>1, <2>3, <2>5, <2>6, <2>7, <2>8, <2>9, BelowStep
  <2>11. CASE Fail(Top.res)
    BY <1>0, <2>10, <2>11, MovesSpan
  <2>12. CASE Continue([Top EXCEPT !.pc = "declMark"], e)
    BY <1>0, <2>10, <2>12, GoesSpan
  <2> QED
    BY <1>2, <2>9, <2>11, <2>12
<1> QED
  BY <1>1, <1>2 DEF DeclName

\* DeclType.
LEMMA DeclTypeSpan == IInv /\ NodesInv /\ SpanInv /\ DeclType => SpanInv'
<1> SUFFICES ASSUME IInv, NodesInv, SpanInv, DeclType PROVE SpanInv'
  OBVIOUS
<1>0. At("declType") /\ "declType" \notin Waiting /\ "declAssign" \in PCs
  BY Points DEF DeclType
<1>1. CASE Crash("type_read") /\ UNCHANGED heap
  BY <1>0, <1>1, SameAlike, KeepsSpan DEF heap
<1>2. CASE /\ nodes' = Give(Top.res, {ptr[pos]})
           /\ \/ Fail(Top.res) \/ Return(Top.res, pos + 1)
              \/ Continue([Top EXCEPT !.pc = "declAssign"], pos + 1)
  <2>1. Alike(nodes, nodes')
    BY <1>0, <1>2, AtDecl, GivenAlike
  <2>2. pos + 1 \in Int /\ pos <= pos + 1
    BY <1>0, AtSpan
  <2> QED
    BY <1>0, <1>2, <2>1, <2>2, KeepsSpan
<1> QED
  BY <1>1, <1>2 DEF DeclType

\* The node of the call gets what the call has been given.
LEMMA AnswerStep ==
  ASSUME IInv, NodesInv, SpanInv, NEW pc, At(pc), Top.res # NULL,
         Gains(nodes, nodes', Top.res, ret.expr)
  PROVE  Placed(nodes', Pop, Top.res, pos, pos) /\ pos \in Int /\ pos <= pos
<1>1. /\ Len(stack) \in Nat /\ Len(stack) # 0 /\ stack[Len(stack)].res = Top.res
      /\ Len(Pop) = Len(stack) - 1 /\ \A d \in 1..Len(Pop) : Pop[d].res = stack[d].res
      /\ pos \in Int /\ Placed(nodes, stack, ret.expr, pos, pos)
  BY AtSpan
<1>2. NULL \notin DOMAIN nodes /\ Top.res \notin Kids(nodes)
  BY AtNodes DEF Only
<1>3. Pops(stack, Pop, Top.res) /\ pos <= pos
  BY <1>1 DEF Pops
<1> QED
  BY <1>1, <1>2, <1>3, PlacedAnswer

\* It becomes the right operand, or the value.
LEMMA RightStep ==
  ASSUME IInv, NodesInv, SpanInv, NEW pc \in {"declValue", "operand"}, At(pc),
         nodes' = [nodes EXCEPT ![Top.res].right = ret.expr]
  PROVE  Placed(nodes', Pop, Top.res, pos, pos) /\ pos \in Int /\ pos <= pos
<1>1. /\ Top.res # NULL /\ Top.res \in DOMAIN nodes /\ ret.expr \in Nat
      /\ nodes[Top.res] \in NodeRecord /\ nodes[Top.res].right = NULL
  BY AtNodes DEF FrameOK, IInv, NodeInv, NodesTyped
<1>2. /\ DOMAIN nodes' = DOMAIN nodes /\ \A m \in DOMAIN nodes : m # Top.res => nodes'[m] = nodes[m]
      /\ nodes'[Top.res] = [nodes[Top.res] EXCEPT !.right = ret.expr]
  BY <1>1
<1>3. /\ nodes'[Top.res].type = nodes[Top.res].type /\ nodes'[Top.res].at = nodes[Top.res].at
      /\ nodes'[Top.res].left = nodes[Top.res].left /\ nodes'[Top.res].right = ret.expr
  BY <1>1, <1>2 DEF NodeRecord
<1>4. Puts(nodes[Top.res], nodes'[Top.res], ret.expr)
  BY <1>1, <1>2, PutsOne
<1>5. KidsOf(nodes'[Top.res]) \subseteq KidsOf(nodes[Top.res]) \cup {ret.expr}
  BY <1>4, PutsKids
<1>6. Gains(nodes, nodes', Top.res, ret.expr)
  BY <1>2, <1>3, <1>5 DEF Gains
<1> QED
  BY <1>1, <1>6, AnswerStep

\* DeclValue.
LEMMA DeclValueSpan == IInv /\ NodesInv /\ SpanInv /\ DeclValue => SpanInv'
<1> SUFFICES ASSUME IInv, NodesInv, SpanInv, DeclValue PROVE SpanInv'
  OBVIOUS
<1>1. /\ At("declValue") /\ nodes' = [nodes EXCEPT ![Top.res].right = ret.expr]
      /\ FailAgain(Top.res) \/ Fail(Top.res) \/ Return(Top.res, pos)
  BY DEF DeclValue
<1>2. Placed(nodes', Pop, Top.res, pos, pos) /\ pos \in Int /\ pos <= pos
  BY <1>1, RightStep
<1> QED
  BY <1>1, <1>2, MovesSpan

\* Operand.
LEMMA OperandSpan == IInv /\ NodesInv /\ SpanInv /\ Operand => SpanInv'
<1> SUFFICES ASSUME IInv, NodesInv, SpanInv, Operand PROVE SpanInv'
  OBVIOUS
<1>1. /\ At("operand") /\ nodes' = [nodes EXCEPT ![Top.res].right = ret.expr]
  BY DEF Operand
<1>2. Placed(nodes', Pop, Top.res, pos, pos) /\ pos \in Int /\ pos <= pos
  BY <1>1, RightStep
<1>3. CASE FailAgain(Top.res)
  BY <1>1, <1>2, <1>3, MovesSpan
<1>4. CASE stack' = [stack EXCEPT ![Len(stack)].pc = "settle"] /\ ret' = Nothing /\ UNCHANGED pos
  <2> DEFINE f == [Top EXCEPT !.pc = "settle"]
  <2>1. f \in FrameRecord /\ f.res = Top.res
    BY <1>1, AtNodes, Points DEF FrameRecord
  <2>2. stack' = [stack EXCEPT ![Len(stack)] = f]
    BY <1>4 DEF Top
  <2> HIDE DEF f
  <2>3. /\ Len(stack) \in Nat /\ Len(stack) # 0 /\ Len(Pop) = Len(stack) - 1
        /\ \A d \in 1..Len(Pop) : Pop[d].res = stack[d].res
    BY <1>1, AtSpan
  <2>4. /\ Len(stack') = Len(stack)
        /\ \A d \in 1..Len(stack) : stack'[d] = IF d = Len(stack) THEN f ELSE stack[d]
    BY <1>1, <2>1, <2>2, ExceptSeq DEF At, IInv, StackInv
  <2>5. \A d \in 1..Len(stack') : \/ d <= Len(Pop) /\ stack'[d].res = Pop[d].res
                                  \/ d = Len(Pop) + 1 /\ stack'[d].res = Top.res
    BY <2>1, <2>3, <2>4
  <2>6. ret'.expr = NULL /\ pos' = pos /\ Len(Pop) \in Nat /\ Len(stack') \in Nat
    BY <1>4, <2>3, <2>4 DEF Nothing
  <2>7. Placed(nodes', stack', NULL, pos, pos)
    BY <1>2, <2>5, <2>6, PlacedLater
  <2> QED
    BY <2>6, <2>7 DEF SpanInv
<1> QED
  BY <1>3, <1>4 DEF Operand

\* BodyItem.
LEMMA BodyItemSpan == IInv /\ NodesInv /\ GroupInv /\ SpanInv /\ BodyItem => SpanInv'
<1> SUFFICES ASSUME IInv, NodesInv, GroupInv, SpanInv, BodyItem PROVE SpanInv'
  OBVIOUS
<1>0. At("item")
  BY DEF BodyItem
<1>1. /\ Top.res \in Nat /\ Top.res \in DOMAIN nodes /\ nodes[Top.res].type = "body"
      /\ nodes[Top.res] \in NodeRecord /\ Top.res # NULL /\ ret.expr \in Nat
  BY <1>0, AtNodes, AtGroup DEF FrameGroup, IInv, NodeInv, NodesTyped
<1>2. CASE stack' = Pop /\ ret' = Nothing /\ UNCHANGED <<nodes, pos>>
  BY <1>0, <1>2, AtSpan DEF SpanInv, Nothing
<1>3. CASE /\ nodes' = IF ret.expr = NULL THEN nodes
                       ELSE [nodes EXCEPT ![Top.res].items = Append(@, ret.expr)]
           /\ Continue([Top EXCEPT !.pc = "loop"], pos)
  <2>1. Placed(nodes', Pop, Top.res, pos, pos) /\ pos \in Int /\ pos <= pos
    <3>1. CASE ret.expr = NULL
      BY <1>0, <1>3, <3>1, SameAlike, AlikeStep
    <3>2. CASE ret.expr # NULL
      <4>1. /\ DOMAIN nodes' = DOMAIN nodes
            /\ \A m \in DOMAIN nodes : m # Top.res => nodes'[m] = nodes[m]
            /\ nodes'[Top.res] = [nodes[Top.res] EXCEPT !.items = Append(@, ret.expr)]
        BY <1>1, <1>3, <3>2
      <4>2. nodes'[Top.res].type = "body" /\ nodes'[Top.res].at = nodes[Top.res].at
        BY <1>1, <4>1 DEF NodeRecord
      <4>3. Puts(nodes[Top.res], nodes'[Top.res], ret.expr)
        BY <1>1, <4>1, PutsOne
      <4>4. KidsOf(nodes'[Top.res]) \subseteq KidsOf(nodes[Top.res]) \cup {ret.expr}
        BY <4>3, PutsKids
      <4>5. Gains(nodes, nodes', Top.res, ret.expr)
        BY <1>1, <4>1, <4>2, <4>4 DEF Gains
      <4> QED
        BY <1>0, <1>1, <4>5, AnswerStep
    <3> QED
      BY <3>1, <3>2
  <2> QED
    BY <1>0, <1>1, <1>3, <2>1, Points, GoesSpan
<1> QED
  BY <1>2, <1>3 DEF BodyItem

\* ParenOpen.
LEMMA ParenOpenSpan == IInv /\ NodesInv /\ SpanInv /\ ParenOpen => SpanInv'
<1> SUFFICES ASSUME IInv, NodesInv, SpanInv, ParenOpen PROVE SpanInv'
  OBVIOUS
<1> DEFINE q == NextToken(pos + 1, Top.hi)
<1>1. /\ At("start") /\ UNCHANGED nodes
      /\ Fail(NULL) \/ ThenNext(NULL, q + 1) \/ Call([Top EXCEPT !.pc = "paren"], q)
  BY DEF ParenOpen, heap
<1>2. pos \in 1..Top.hi /\ Top.hi \in Nat
  BY <1>1, AtFacts, Points
<1>3. pos + 1 \in Nat /\ pos + 1 <= Top.hi + 1
  BY <1>2
<1>4. q \in pos + 1..Top.hi + 1
  BY <1>2, <1>3, NextTokenInWindow
<1> HIDE DEF q
<1>5. q \in Int /\ pos <= q /\ q + 1 \in Int /\ pos <= q + 1
  BY <1>2, <1>4
<1>6. "start" \notin Waiting /\ "paren" \in PCs /\ NULL \in Nat
  BY Points DEF NULL
<1>7. Placed(nodes', Pop, NULL, pos, pos) /\ pos \in Int /\ pos <= pos
  BY <1>1, SameAlike, AlikeStep
<1>8. CASE ThenNext(NULL, q + 1)
  BY <1>1, <1>5, <1>6, <1>7, <1>8, ThenNextSpan
<1>9. CASE Fail(NULL) \/ Call([Top EXCEPT !.pc = "paren"], q)
  BY <1>1, <1>5, <1>6, <1>9, SameAlike, KeepsSpan
<1> QED
  BY <1>1, <1>8, <1>9

\* ParenClose.
LEMMA ParenCloseSpan == IInv /\ NodesInv /\ SpanInv /\ ParenClose => SpanInv'
<1> SUFFICES ASSUME IInv, NodesInv, SpanInv, ParenClose PROVE SpanInv'
  OBVIOUS
<1> DEFINE q == NextToken(pos, Top.hi)
           w == nodes[ret.expr].type = "oper"
<1>0. /\ At("paren") /\ ret.expr \in Nat /\ ret.expr \in DOMAIN nodes \cup {NULL}
  BY AtNodes DEF ParenClose
<1>1. CASE UNCHANGED nodes /\ (FailAgain(NULL) \/ Crash("paren_value"))
  <2>1. /\ Placed(nodes', Pop, NULL, pos, pos) /\ Placed(nodes', stack, ret.expr, pos, pos)
        /\ pos \in Int /\ pos <= pos
    BY <1>0, <1>1, SameAlike, AlikeStep
  <2> QED
    BY <1>0, <1>1, <2>1, MovesSpan, StaysSpan
<1>2. CASE /\ ret.expr # NULL /\ nodes' = [nodes EXCEPT ![ret.expr].wrapped = w]
           /\ \/ Crash("paren_close") \/ Fail(ret.expr)
              \/ ThenNext(ret.expr, q + 1)
  <2>1. pos \in Nat /\ Top.hi \in Nat /\ pos <= Top.hi + 1
    BY <1>0, AtFacts
  <2>2. q \in pos..Top.hi + 1
    BY <2>1, NextTokenInWindow
  <2> HIDE DEF q, w
  <2>3. q + 1 \in Int /\ pos <= q + 1
    BY <2>1, <2>2
  <2>4. /\ DOMAIN nodes' = DOMAIN nodes /\ nodes[ret.expr] \in NodeRecord
        /\ \A m \in DOMAIN nodes : m # ret.expr => nodes'[m] = nodes[m]
        /\ nodes'[ret.expr] = [nodes[ret.expr] EXCEPT !.wrapped = w]
    BY <1>0, <1>2 DEF IInv, NodeInv, NodesTyped
  <2>5. /\ nodes'[ret.expr].left = nodes[ret.expr].left
        /\ nodes'[ret.expr].right = nodes[ret.expr].right
        /\ nodes'[ret.expr].items = nodes[ret.expr].items
        /\ nodes'[ret.expr].type = nodes[ret.expr].type
        /\ nodes'[ret.expr].at = nodes[ret.expr].at
    BY <2>4 DEF NodeRecord
  <2>6. Alike(nodes, nodes')
    BY <2>4, <2>5 DEF Alike
  <2>7. /\ Placed(nodes', Pop, ret.expr, pos, pos) /\ Placed(nodes', stack, ret.expr, pos, pos)
        /\ pos \in Int /\ pos <= pos
    BY <1>0, <2>6, AlikeStep
  <2>8. CASE Crash("paren_close")
    BY <2>7, <2>8, StaysSpan
  <2>9. CASE Fail(ret.expr)
    BY <1>0, <2>7, <2>9, MovesSpan
  <2>10. CASE ThenNext(ret.expr, q + 1)
    BY <1>0, <2>3, <2>7, <2>10, ThenNextSpan
  <2> QED
    BY <1>2, <2>8, <2>9, <2>10
<1> QED
  BY <1>1, <1>2 DEF ParenClose

\* NextLabel.
LEMMA NextLabelSpan == IInv /\ NodesInv /\ SpanInv /\ NextLabel => SpanInv'
<1> SUFFICES ASSUME IInv, NodesInv, SpanInv, NextLabel PROVE SpanInv'
  OBVIOUS
<1> DEFINE q == NextToken(pos + 1, Top.hi)
           rec == [Node("oper", pos, {}) EXCEPT !.op = Token, !.left = Top.res]
<1>0. At("next") /\ "next" \notin Waiting /\ "operand" \in PCs
  BY Points DEF NextLabel
<1>1. CASE Return(Top.res, pos) /\ UNCHANGED nodes
  <2>1. pos \in Int /\ pos <= pos
    BY <1>0, AtSpan
  <2> QED
    BY <1>0, <1>1, <2>1, SameAlike, KeepsSpan
<1>2. CASE /\ New(nodes, rec)
           /\ Fail(nextId) \/ Call([Top EXCEPT !.pc = "operand", !.res = nextId], q)
  <2>1. /\ rec.left = Top.res /\ rec.right = NULL /\ rec.items = <<>> /\ rec.at = pos
    BY DEF Node
  <2>2. KidsOf(rec) \subseteq {Top.res} \ {NULL}
    <3>1. Slots(rec) = {-1, 0}
      BY <2>1 DEF Slots
    <3> QED
      BY <2>1, <3>1 DEF KidsOf, Kid
  <2>3. pos \in 1..Top.hi /\ Top.hi \in Nat
    BY <1>0, AtFacts, Points
  <2>4. q \in pos + 1..Top.hi + 1
    <3>1. pos + 1 \in Nat /\ pos + 1 <= Top.hi + 1
      BY <2>3
    <3> QED
      BY <2>3, <3>1, NextTokenInWindow
  <2> HIDE DEF rec, q
  <2>5. PICK e \in Int : e = pos + 1 /\ pos <= e /\ e <= q /\ q \in Int
    BY <2>3, <2>4
  <2>6. /\ ret.expr = NULL /\ nextId \in Nat /\ nextId # NULL /\ nextId \notin DOMAIN nodes
        /\ pos \in Int /\ Placed(nodes, Pop, Top.res, pos, pos) /\ Len(Pop) \in Nat
    <3>1. ret.expr = NULL
      BY <1>0, AtNodes
    <3>2. Len(stack) \in Nat /\ Len(stack) # 0 /\ Len(Pop) = Len(stack) - 1
      BY <1>0, AtSpan
    <3> QED
      BY <1>0, <3>1, <3>2, AtSpan
  <2>8. Placed(nodes', Pop, nextId, pos, e)
    BY <1>0, <1>2, <2>1, <2>2, <2>5, <2>6, AboveStep
  <2>9. CASE Fail(nextId)
    BY <1>0, <2>5, <2>8, <2>9, MovesSpan
  <2>10. CASE Call([Top EXCEPT !.pc = "operand", !.res = nextId], q)
    BY <1>0, <2>5, <2>6, <2>8, <2>10, GoesSpan
  <2> QED
    BY <1>2, <2>9, <2>10
<1> QED
  BY <1>1, <1>2 DEF NextLabel, heap

\* FuncName.
LEMMA FuncNameSpan == IInv /\ NodesInv /\ SpanInv /\ FuncName => SpanInv'
<1> SUFFICES ASSUME IInv, NodesInv, SpanInv, FuncName PROVE SpanInv'
  OBVIOUS
<1> DEFINE q == NextToken(pos + 2, Top.hi)
<1>0. At("funcName") /\ "funcName" \notin Waiting /\ "funcArgs" \in PCs
  BY Points DEF FuncName
<1>1. CASE Fail(Top.res) /\ UNCHANGED nodes
  BY <1>0, <1>1, SameAlike, KeepsSpan
<1>2. CASE /\ nodes' = Give(Top.res, {ptr[pos]})
           /\ \/ Fail(Top.res) \/ Crash("args_end")
              \/ ~LastToken /\ Continue([Top EXCEPT !.pc = "funcArgs"], q)
  <2>1. Alike(nodes, nodes')
    BY <1>0, <1>2, AtFunc, GivenAlike
  <2>2. CASE Fail(Top.res) \/ Crash("args_end")
    BY <1>0, <2>1, <2>2, KeepsSpan
  <2>3. CASE ~LastToken /\ Continue([Top EXCEPT !.pc = "funcArgs"], q)
    <3>1. pos \in Nat /\ Top.hi \in Nat /\ pos + 1 <= Top.hi
      BY <1>0, <2>3, AtFacts, Points
    <3>2. pos + 2 \in Nat /\ pos + 2 <= Top.hi + 1
      BY <3>1
    <3>3. q \in pos + 2..Top.hi + 1
      BY <3>1, <3>2, NextTokenInWindow
    <3> HIDE DEF q
    <3>4. q \in Int /\ pos <= q
      BY <3>1, <3>3
    <3> QED
      BY <1>0, <2>1, <2>3, <3>4, KeepsSpan
  <2> QED
    BY <1>2, <2>2, <2>3
<1> QED
  BY <1>1, <1>2 DEF FuncName, Follows

\* FuncReturn.
LEMMA FuncReturnSpan == IInv /\ NodesInv /\ SpanInv /\ FuncReturn => SpanInv'
<1> SUFFICES ASSUME IInv, NodesInv, SpanInv, FuncReturn PROVE SpanInv'
  OBVIOUS
<1>0. At("funcArgs") /\ "funcArgs" \notin Waiting /\ "scope" \in PCs
  BY Points DEF FuncReturn
<1>1. CASE Fail(Top.res) /\ UNCHANGED nodes
  BY <1>0, <1>1, SameAlike, KeepsSpan
<1>2. CASE /\ nodes' = Give(Top.res, {ptr[pos + 1]})
           /\ \/ Fail(Top.res) \/ Return(Top.res, pos + 2)
              \/ Continue([Top EXCEPT !.pc = "scope"], pos + 2)
  <2>1. Alike(nodes, nodes')
    BY <1>0, <1>2, AtFunc, GivenAlike
  <2>2. pos + 2 \in Int /\ pos <= pos + 2
    BY <1>0, AtSpan
  <2> QED
    BY <1>0, <1>2, <2>1, <2>2, KeepsSpan
<1> QED
  BY <1>1, <1>2 DEF FuncReturn

\* FuncArg.
LEMMA FuncArgSpan == IInv /\ NodesInv /\ SpanInv /\ FuncArg => SpanInv'
<1> SUFFICES ASSUME IInv, NodesInv, SpanInv, FuncArg PROVE SpanInv'
  OBVIOUS
<1> DEFINE q == NextToken(pos + 2, Top.hi)
           own == {ptr[k] : k \in IF LastToken THEN {pos} ELSE {pos, pos + 1}}
           ns == [nodes EXCEPT ![Top.res].items = Append(@, nextId)]
           x == Node("arg", pos, own)
<1>0. At("funcArgs") /\ "funcArgs" \notin Waiting
  BY Points DEF FuncArg
<1>1. CASE Fail(Top.res) /\ UNCHANGED nodes
  BY <1>0, <1>1, SameAlike, KeepsSpan
<1>2. CASE /\ New(ns, x)
           /\ \/ Fail(Top.res)
              \/ ~LastToken /\ (Continue(Top, q) \/ Continue(Top, q + 1))
  <2>1. /\ Top.res \in DOMAIN nodes /\ nodes[Top.res] \in NodeRecord
        /\ nodes[Top.res].type = "func" /\ nextId \in Nat /\ Top \in FrameRecord
    BY <1>0, AtFunc, AtNodes DEF IInv, NodeInv, NodesTyped
  <2>2. /\ DOMAIN ns = DOMAIN nodes /\ \A m \in DOMAIN nodes : m # Top.res => ns[m] = nodes[m]
        /\ ns[Top.res] = [nodes[Top.res] EXCEPT !.items = Append(@, nextId)]
    BY <2>1
  <2>3. ns[Top.res].type = "func" /\ ns[Top.res].at = nodes[Top.res].at
    BY <2>1, <2>2 DEF NodeRecord
  <2>4. KidsOf(ns[Top.res]) \subseteq KidsOf(nodes[Top.res]) \cup {nextId}
    <3>1. Puts(nodes[Top.res], ns[Top.res], nextId)
      BY <2>1, <2>2, PutsOne
    <3> QED
      BY <3>1, PutsKids
  <2>5. KidsOf(x) = {} /\ x.right = NULL
    BY FreshNode
  <2>6. x.at = pos
    BY NodeAt
  <2> HIDE DEF ns, x
  <2>7. Gains(nodes, ns, Top.res, nextId)
    BY <2>1, <2>2, <2>3, <2>4 DEF Gains
  <2>8. PICK e \in Int : e = pos + 1
    BY <1>0, AtSpan
  <2>9. Placed(nodes', Pop, Top.res, pos, e) /\ pos <= e
    BY <1>0, <1>2, <2>1, <2>3, <2>5, <2>6, <2>7, <2>8, BelowStep
  <2>10. CASE Fail(Top.res)
    BY <1>0, <2>8, <2>9, <2>10, MovesSpan
  <2>11. CASE ~LastToken /\ (Continue(Top, q) \/ Continue(Top, q + 1))
    <3>1. pos \in Nat /\ Top.hi \in Nat /\ pos + 1 <= Top.hi
      BY <1>0, <2>11, AtFacts, Points
    <3>2. pos + 2 \in Nat /\ pos + 2 <= Top.hi + 1
      BY <3>1
    <3>3. q \in pos + 2..Top.hi + 1
      BY <3>1, <3>2, NextTokenInWindow
    <3> HIDE DEF q
    <3>4. q \in Int /\ e <= q /\ q + 1 \in Int /\ e <= q + 1
      BY <2>8, <3>1, <3>3
    <3>5. ASSUME NEW p \in Int, e <= p, Continue(Top, p) PROVE SpanInv'
      BY <1>0, <2>1, <2>8, <2>9, <3>5, MovesSpan
    <3> QED
      BY <2>11, <3>4, <3>5
  <2> QED
    BY <1>2, <2>10, <2>11
<1>3. CASE Token \notin Identifiers \ Keywords
  BY <1>1, <1>3 DEF FuncArg, heap
<1>4. CASE Token \in Identifiers \ Keywords
  <2>1. /\ New(ns, x)
        /\ \/ Fail(Top.res)
           \/ ~LastToken /\ (Continue(Top, q) \/ Continue(Top, q + 1))
    BY <1>4 DEF FuncArg
  <2> QED
    BY <1>2, <2>1
<1> QED
  BY <1>3, <1>4

\* ScopeOpen.
LEMMA ScopeOpenSpan == IInv /\ NodesInv /\ SpanInv /\ ScopeOpen => SpanInv'
<1> SUFFICES ASSUME IInv, NodesInv, SpanInv, ScopeOpen PROVE SpanInv'
  OBVIOUS
<1>0. PICK pc \in {"scope", "start"} : At(pc)
  BY DEF ScopeOpen
<1>9. pc \notin Waiting
  BY DEF Waiting
<1>1. CASE Fail(Top.res) /\ UNCHANGED nodes
  BY <1>0, <1>1, <1>9, SameAlike, KeepsSpan
<1>2. ASSUME NEW q \in pos + 1..Top.hi,
             New(nodes, Node("body", pos, {})),
             stack' = Append([stack EXCEPT ![Len(stack)].pc = "scopeEnd",
                                           ![Len(stack)].close = q],
                             Frame("loop", FALSE, nextId, q - 1)),
             pos' = pos + 1, ret' = Nothing
      PROVE  SpanInv'
  <2> DEFINE f == [Top EXCEPT !.pc = "scopeEnd", !.close = q]
             g == Frame("loop", FALSE, nextId, q - 1)
             x == Node("body", pos, {})
             t == [stack EXCEPT ![Len(stack)] = f]
  <2>1. /\ stack \in Seq(FrameRecord) /\ Len(stack) \in Nat \ {0} /\ Top \in FrameRecord
        /\ pos \in Nat \ {0} /\ Top.hi \in Nat
    <3>1. Len(stack) \in Nat /\ Len(stack) # 0
      BY <1>0, AtSpan
    <3> QED
      BY <1>0, <3>1, AtFacts DEF At, IInv, StackInv
  <2>2. f \in FrameRecord /\ f.res = Top.res
    <3>1. q \in Nat
      BY <2>1
    <3> QED
      BY <2>1, <3>1 DEF FrameRecord, PCs
  <2>3. g.res = nextId
    BY DEF Frame
  <2>4. stack' = Append(t, g)
    BY <1>2, <2>1 DEF Top
  <2>5. KidsOf(x) = {} /\ x.right = NULL
    BY FreshNode
  <2>6. x.at = pos
    BY NodeAt
  <2> HIDE DEF f, g, x
  <2>7. /\ t \in Seq(FrameRecord) /\ Len(t) = Len(stack)
        /\ \A d \in 1..Len(stack) : t[d] = IF d = Len(stack) THEN f ELSE stack[d]
    BY <2>1, <2>2, ExceptSeq
  <2>10. stack[Len(stack)].res = Top.res /\ Placed(nodes, stack, ret.expr, pos, pos)
    BY <1>0, AtSpan
  <2> HIDE DEF t
  <2>8. PICK u : u = Append(t, g)
    OBVIOUS
  <2>9. /\ Len(u) = Len(t) + 1 /\ u[Len(t) + 1] = g
        /\ \A d \in 1..Len(t) : u[d] = t[d]
    BY <2>7, <2>8, AppendProperties
  <2>11. \A d \in 1..Len(u) : \/ d <= Len(stack) /\ u[d].res = stack[d].res
                              \/ d = Len(stack) + 1 /\ u[d].res = nextId
    BY <2>1, <2>2, <2>3, <2>7, <2>9, <2>10
  <2>12. PICK e \in Int : e = pos + 1
    BY <2>1
  <2>13. Placed(nodes', stack, nextId, pos, e) /\ pos <= e
    <3>1. ret.expr = NULL /\ Len(stack) \in Nat
      BY <1>0, <1>9, <2>1, AtNodes
    <3>2. New(nodes, x)
      BY <1>2 DEF x
    <3> QED
      BY <1>0, <2>5, <2>6, <2>10, <2>12, <3>1, <3>2, AboveStep
  <2>14. Placed(nodes', u, NULL, e, e)
    <3>1. Len(stack) \in Nat /\ Len(u) \in Nat /\ pos \in Int /\ e <= e
      BY <2>1, <2>7, <2>9
    <3> QED
      BY <2>11, <2>12, <2>13, <3>1, PlacedLater
  <2>15. stack' = u /\ pos' = e /\ ret'.expr = NULL
    BY <1>2, <2>4, <2>8, <2>12 DEF Nothing
  <2> QED
    BY <2>14, <2>15 DEF SpanInv
<1> QED
  BY <1>1, <1>2 DEF ScopeOpen

\* ScopeEnd.
LEMMA ScopeEndSpan ==
  ASSUME "stale" \notin FuncSlot, IInv, NodesInv, FlowInv, SpanInv, ScopeEnd
  PROVE  SpanInv'
<1> DEFINE rec == [Node("scope", Top.close, {}) EXCEPT !.left = ret.expr]
           ns == [nodes EXCEPT ![Top.res].left = nextId]
<1>0. At("scopeEnd")
  BY DEF ScopeEnd
<1>1. /\ ret.expr \in Nat /\ nextId \in Nat /\ pos \in Int
      /\ Placed(nodes, Pop, ret.expr, pos, pos) /\ Len(Pop) \in Nat
  <2>1. Len(stack) \in Nat /\ Len(stack) # 0 /\ Len(Pop) = Len(stack) - 1
    BY <1>0, AtSpan
  <2> QED
    BY <1>0, <2>1, AtNodes, AtSpan
<1>2. ret.expr # NULL => pos = Top.close
  <2>1. ret.expr # NULL => ~ret.error
    BY DEF NodesInv, RetOK
  <2> QED
    BY <1>0, <2>1 DEF At, FlowInv, FreshInv, Sound
<1>3. /\ rec.type = "scope" /\ rec.left = ret.expr /\ rec.right = NULL /\ rec.items = <<>>
      /\ rec.at = Top.close
  BY DEF Node
<1>4. KidsOf(rec) \subseteq {ret.expr} \ {NULL}
  BY <1>3, OperandsOnly
<1>5. \/ Fail(Top.res) /\ UNCHANGED nodes
      \/ /\ Top.res # NULL /\ ret.expr # NULL
         /\ New(ns, rec) /\ Return(Top.res, Top.close + 1)
      \/ /\ ret.expr # NULL /\ New(nodes, rec) /\ Return(nextId, Top.close + 1)
      \/ Crash("func_garbage") /\ UNCHANGED nodes
  BY DEF ScopeEnd
<1>6. CASE UNCHANGED nodes /\ (Fail(Top.res) \/ Crash("func_garbage"))
  <2>1. /\ Placed(nodes', Pop, NULL, pos, pos) /\ Placed(nodes', stack, ret.expr, pos, pos)
        /\ pos \in Int /\ pos <= pos
    BY <1>0, <1>6, SameAlike, AlikeStep
  <2> QED
    BY <1>0, <1>6, <2>1, MovesSpan, StaysSpan
<1>7. ASSUME ret.expr # NULL, New(nodes, rec), Return(nextId, Top.close + 1)
      PROVE  SpanInv'
  <2>1. PICK e \in Int : e = pos + 1 /\ e <= e
    BY <1>1
  <2> HIDE DEF rec
  <2>2. Placed(nodes', Pop, nextId, pos, e) /\ pos <= e
    BY <1>0, <1>1, <1>2, <1>3, <1>4, <1>7, <2>1, AboveStep
  <2>3. Return(nextId, e)
    BY <1>2, <1>7, <2>1
  <2> QED
    BY <1>0, <2>1, <2>2, <2>3, MovesSpan
<1>8. ASSUME Top.res # NULL, ret.expr # NULL, New(ns, rec), Return(Top.res, Top.close + 1)
      PROVE  SpanInv'
  <2>1. /\ Top.res \in DOMAIN nodes /\ nodes[Top.res] \in NodeRecord
        /\ nodes[Top.res].type = "func" /\ nodes[Top.res].left = NULL
    BY <1>0, <1>8, AtNodes DEF FrameOK, IInv, NodeInv, NodesTyped
  <2>2. /\ DOMAIN ns = DOMAIN nodes /\ \A m \in DOMAIN nodes : m # Top.res => ns[m] = nodes[m]
        /\ ns[Top.res] = [nodes[Top.res] EXCEPT !.left = nextId]
    BY <2>1
  <2>3. ns[Top.res].type = "func" /\ ns[Top.res].at = nodes[Top.res].at
    BY <2>1, <2>2 DEF NodeRecord
  <2>4. KidsOf(ns[Top.res]) \subseteq KidsOf(nodes[Top.res]) \cup {nextId}
    <3>1. Puts(nodes[Top.res], ns[Top.res], nextId)
      BY <1>1, <2>1, <2>2, PutsOne
    <3> QED
      BY <3>1, PutsKids
  <2>5. PICK e \in Int : e = pos + 1 /\ e <= e
    BY <1>1
  <2> HIDE DEF rec, ns
  <2>6. Gains(nodes, ns, Top.res, nextId)
    BY <2>1, <2>2, <2>3, <2>4 DEF Gains
  <2>7. Placed(nodes', Pop, Top.res, pos, e) /\ pos <= e
    BY <1>0, <1>2, <1>3, <1>4, <1>8, <2>1, <2>3, <2>5, <2>6, BelowStep
  <2>8. Return(Top.res, e)
    BY <1>2, <1>8, <2>5
  <2> QED
    BY <1>0, <2>5, <2>7, <2>8, MovesSpan
<1> QED
  BY <1>5, <1>6, <1>7, <1>8

-----------------------------------------------------------------------------
(* process_operation, the destructors and main.                            *)

\* The results of the calls are below no other node.
LEMMA RootsAre ==
  ASSUME NodesInv
  PROVE  /\ \A d \in 1..Len(stack) : stack[d].res # NULL =>
              /\ stack[d].res \in DOMAIN nodes /\ stack[d].res \notin Kids(nodes)
              /\ stack[d].res \notin Doomed(calls)
         /\ calls # <<>> => ret.expr = NULL
<1>1. \A d \in 1..Len(stack) : stack[d].res # NULL => stack[d].res \in Roots(stack)
  BY DEF Roots
<1> QED
  BY <1>1 DEF NodesInv, Parted, RetOK

\* process_operation.
LEMMA ProcessOperationSpan ==
  IInv /\ NodesInv /\ GroupInv /\ SpanInv /\ process_operation => SpanInv'
<1> SUFFICES ASSUME IInv, NodesInv, GroupInv, SpanInv, process_operation PROVE SpanInv'
  OBVIOUS
<1> DEFINE n == Head(calls).node
           r == nodes[n].right
<1>0. /\ calls # <<>> /\ NodesTyped(nodes) /\ Forest(nodes) /\ UNCHANGED <<stack, pos, ret>>
  BY DEF process_operation, Pending, Crash, IInv, NodeInv, NodesInv
<1>1. Grouped(nodes, NULL) \/ Grouped(nodes, n)
  BY DEF GroupInv
<1>2. CASE UNCHANGED nodes
  BY <1>0, <1>2 DEF SpanInv
<1>3. CASE /\ n \in DOMAIN nodes /\ r \in DOMAIN nodes /\ ~Closed(n) /\ ~Closed(r)
           /\ nodes' = Rotate(n, r)
  <2>1. /\ nodes[n].type = "oper" /\ nodes[n].items = <<>>
        /\ nodes[r].type = "oper" /\ nodes[r].items = <<>>
    BY <1>1, <1>3 DEF Closed, Grouped
  <2> HIDE DEF n, r
  <2>2. r = nodes[n].right
    BY DEF r
  <2>3. PICK lo, hi : Spans(nodes, lo, hi) /\ Line(lo, hi, stack, ret.expr, pos, pos)
    BY DEF SpanInv, Placed
  <2> DEFINE low == [m \in DOMAIN nodes' |-> IF m = r THEN lo[n] ELSE lo[m]]
             high == [m \in DOMAIN nodes' |-> IF m = r THEN nodes[r].at - 1 ELSE hi[m]]
  <2>4. Spans(nodes', low, high)
    BY <1>0, <1>3, <2>1, <2>2, <2>3, RotateSpans
  <2>5. DOMAIN nodes' = DOMAIN nodes /\ r \in Kids(nodes)
    <3>1. nodes[n].right \in KidsOf(nodes[n])
      BY <1>0, <1>3, <2>2, LeftRightKids DEF NodesTyped
    <3> QED
      BY <1>0, <1>3, <2>2, <3>1, RotateForest DEF Kids
  <2>6. /\ DOMAIN low = DOMAIN nodes
        /\ \A m \in DOMAIN nodes : m # r => low[m] = lo[m] /\ high[m] = hi[m]
    BY <2>5
  <2>7. DOMAIN lo = DOMAIN nodes
    BY <2>3 DEF Spans
  <2> HIDE DEF low, high
  <2>8. Line(low, high, stack, NULL, pos, pos)
    <3> SUFFICES ASSUME NEW d \in 1..Len(stack), stack[d].res # NULL
                 PROVE  /\ stack[d].res \in DOMAIN low /\ high[stack[d].res] < pos
                        /\ \A c \in 1..d - 1 : stack[c].res # NULL =>
                             high[stack[c].res] < low[stack[d].res]
      BY DEF Line
    <3>1. \A c \in 1..Len(stack) : stack[c].res # NULL =>
            stack[c].res \in DOMAIN nodes /\ stack[c].res # r
      BY <2>5, RootsAre
    <3>2. \A c \in 1..d - 1 : c \in 1..Len(stack)
      <4>1. Len(stack) \in Nat
        BY LenProperties DEF IInv, StackInv
      <4> QED
        BY <4>1
    <3>3. /\ hi[stack[d].res] < pos
          /\ \A c \in 1..d - 1 : stack[c].res # NULL => hi[stack[c].res] < lo[stack[d].res]
      BY <2>3 DEF Line
    <3> QED
      BY <2>6, <3>1, <3>2, <3>3
  <2>9. ret.expr = NULL
    BY <1>0, RootsAre
  <2> QED
    BY <1>0, <2>4, <2>8, <2>9 DEF SpanInv, Placed
<1> QED
  BY <1>2, <1>3 DEF process_operation

\* DestroyNode.
LEMMA DestroyNodeSpan == IInv /\ NodesInv /\ SpanInv /\ DestroyNode => SpanInv'
<1> SUFFICES ASSUME IInv, NodesInv, SpanInv, DestroyNode PROVE SpanInv'
  OBVIOUS
<1> DEFINE n == Head(calls).node
<1>0. /\ calls \in Seq(CallRecord) /\ calls # <<>> /\ Head(calls).fn = "destroy"
      /\ UNCHANGED <<stack, pos, ret>> /\ NULL \notin DOMAIN nodes
  BY DEF DestroyNode, Pending, Crash, IInv, StackInv, NodeInv, NodesTyped
<1>1. CASE UNCHANGED nodes
  BY <1>0, <1>1 DEF SpanInv
<1>2. CASE n \in DOMAIN nodes /\ nodes' = [m \in DOMAIN nodes \ {n} |-> nodes[m]]
  <2>1. n \in Doomed(calls)
    <3>1. 1 \in 1..Len(calls) /\ Head(calls) = calls[1]
      BY <1>0, FirstCall
    <3> QED
      BY <1>0, <1>2, <3>1 DEF Doomed
  <2>2. n \notin Kids(nodes)
    BY <2>1 DEF NodesInv, Parted
  <2>3. PICK lo, hi : Spans(nodes, lo, hi) /\ Line(lo, hi, stack, ret.expr, pos, pos)
    BY DEF SpanInv, Placed
  <2>4. /\ DOMAIN nodes' = DOMAIN nodes \ {n}
        /\ \A m \in DOMAIN nodes' : nodes'[m] = nodes[m]
    BY <1>2
  <2> HIDE DEF n
  <2> DEFINE low == [m \in DOMAIN nodes' |-> lo[m]]
             high == [m \in DOMAIN nodes' |-> hi[m]]
  <2>5. Spans(nodes', low, high)
    BY <2>2, <2>3, <2>4, LessSpans
  <2>6. /\ DOMAIN low = DOMAIN nodes'
        /\ \A m \in DOMAIN nodes' : low[m] = lo[m] /\ high[m] = hi[m]
    OBVIOUS
  <2> HIDE DEF low, high
  <2>7. Line(low, high, stack, NULL, pos, pos)
    <3> SUFFICES ASSUME NEW d \in 1..Len(stack), stack[d].res # NULL
                 PROVE  /\ stack[d].res \in DOMAIN low /\ high[stack[d].res] < pos
                        /\ \A c \in 1..d - 1 : stack[c].res # NULL =>
                             high[stack[c].res] < low[stack[d].res]
      BY DEF Line
    <3>1. \A c \in 1..Len(stack) : stack[c].res # NULL => stack[c].res \in DOMAIN nodes'
      BY <2>1, <2>4, RootsAre
    <3>2. \A c \in 1..d - 1 : c \in 1..Len(stack)
      <4>1. Len(stack) \in Nat
        BY LenProperties DEF IInv, StackInv
      <4> QED
        BY <4>1
    <3>3. /\ hi[stack[d].res] < pos
          /\ \A c \in 1..d - 1 : stack[c].res # NULL => hi[stack[c].res] < lo[stack[d].res]
      BY <2>3 DEF Line
    <3> QED
      BY <2>6, <3>1, <3>2, <3>3
  <2>8. ret.expr = NULL
    BY <1>0, RootsAre
  <2> QED
    BY <1>0, <2>5, <2>7, <2>8 DEF SpanInv, Placed
<1> QED
  BY <1>1, <1>2 DEF DestroyNode

\* PrintAst, LexerFree and the end.
LEMMA SameSpan ==
  IInv /\ SpanInv /\ (PrintAst \/ LexerFree \/ UNCHANGED vars) => SpanInv'
<1> SUFFICES ASSUME IInv, SpanInv, PrintAst \/ LexerFree \/ UNCHANGED vars PROVE SpanInv'
  OBVIOUS
<1>1. UNCHANGED <<nodes, stack, pos>> /\ (UNCHANGED ret \/ ret' = Nothing)
  BY DEF PrintAst, LexerFree, vars, heap
<1>2. Placed(nodes, stack, NULL, pos, pos)
  BY DEF SpanInv, Placed, Line
<1> QED
  BY <1>1, <1>2 DEF SpanInv, Nothing

\* The initial states.
LEMMA InitSpan == Init => SpanInv
<1> SUFFICES ASSUME Init PROVE SpanInv
  OBVIOUS
<1> DEFINE f == Frame("loop", FALSE, 1, Len(tokens))
           x == Node("body", 0, {})
           z == [m \in {1} |-> 0]
<1>1. /\ DOMAIN nodes = {1} /\ nodes[1] = x /\ stack = <<f>> /\ ret.expr = NULL /\ pos = 1
  BY DEF Init, Nothing
<1>2. KidsOf(x) = {} /\ x.type = "body"
  BY FreshNode
<1>3. x.at = 0
  BY NodeAt
<1>4. f.res = 1
  BY DEF Frame
<1> HIDE DEF f, x
<1>5. Len(stack) = 1 /\ stack[1] = f
  BY <1>1
<1>6. DOMAIN z = {1} /\ z[1] = 0 /\ z \in [DOMAIN nodes -> Int]
  BY <1>1
<1> HIDE DEF z
<1>7. Spans(nodes, z, z)
  BY <1>1, <1>2, <1>3, <1>6 DEF Spans, Spread
<1>8. Line(z, z, stack, NULL, pos, pos)
  BY <1>1, <1>4, <1>5, <1>6 DEF Line
<1> QED
  BY <1>1, <1>7, <1>8 DEF SpanInv, Placed

\* Every step keeps the invariant.
LEMMA NextSpan ==
  ASSUME "stale" \notin FuncSlot, IInv, NodesInv, FlowInv, GroupInv, SpanInv, [Next]_vars
  PROVE  SpanInv'
BY StartSpan, KeepingSpan, DeclNameSpan, DeclTypeSpan, DeclValueSpan, ParenOpenSpan,
   ParenCloseSpan, NextLabelSpan, OperandSpan, FuncNameSpan, FuncArgSpan, FuncReturnSpan,
   ScopeOpenSpan, ScopeEndSpan, BodyItemSpan, ProcessOperationSpan, DestroyNodeSpan, SameSpan
DEF Next, Stop

LEMMA SpanInvariance == ASSUME "stale" \notin FuncSlot PROVE Spec => []SpanInv
<1>1. IInv /\ NodesInv /\ FlowInv /\ GroupInv /\ SpanInv /\ [Next]_vars => SpanInv'
  BY NextSpan
<1> QED
  BY <1>1, InitSpan, Invariance, NodesInvariance, FlowInvariance, GroupInvariance, PTL
  DEF Spec

-----------------------------------------------------------------------------
(* What is below a node.                                                   *)

\* The nodes of S and those directly below them; Tree does this again and again.
Down(S) ==
  (S \cup UNION {Items(m) \cup {nodes[m].left, nodes[m].right} : m \in S}) \ {NULL}
Descends(f, n) == f = [d \in Nat |-> IF d = 0 THEN {n} \ {NULL} ELSE Down(f[d - 1])]
Levels(n) == CHOOSE f : Descends(f, n)

\* A way of e steps down from n.
Ways(n, e) ==
  {p \in [0..e -> DOMAIN nodes] :
     p[0] = n /\ \A i \in 0..e - 1 : p[i + 1] \in KidsOf(nodes[p[i]])}

LEMMA TreeLevels == \A n : Tree(n) = Levels(n)[Cardinality(DOMAIN nodes)]
BY DEF Tree, Levels, Descends, Down

LEMMA DownKids ==
  ASSUME NodeInv, NEW S \in SUBSET DOMAIN nodes
  PROVE  Down(S) = S \cup UNION {KidsOf(nodes[m]) : m \in S}
<1>1. \A m \in S : nodes[m] \in NodeRecord /\ m # NULL
  BY DEF NodeInv, NodesTyped
<1>2. \A m \in S : (Items(m) \cup {nodes[m].left, nodes[m].right}) \ {NULL} = KidsOf(nodes[m])
  <2> TAKE m \in S
  <2>1. nodes[m].items \in Seq(Nat)
    BY <1>1 DEF NodeRecord
  <2>2. DOMAIN nodes[m].items = 1..Len(nodes[m].items)
    BY <2>1, LenProperties
  <2>3. {Kid(nodes[m], i) : i \in Slots(nodes[m])} = Items(m) \cup {nodes[m].left, nodes[m].right}
    <3>1. Slots(nodes[m]) = {-1, 0} \cup DOMAIN nodes[m].items
      BY <2>2 DEF Slots
    <3>2. \A i \in DOMAIN nodes[m].items : i \in Int /\ i # -1 /\ i # 0
      BY <2>1, <2>2, LenProperties
    <3>3. \A i \in DOMAIN nodes[m].items : Kid(nodes[m], i) = nodes[m].items[i]
      BY <3>2, KidFields
    <3>4. Kid(nodes[m], -1) = nodes[m].left /\ Kid(nodes[m], 0) = nodes[m].right
      BY KidFields
    <3> QED
      BY <3>1, <3>3, <3>4 DEF Items
  <2> QED
    BY <2>3 DEF KidsOf
<1> DEFINE I(m) == Items(m) \cup {nodes[m].left, nodes[m].right}
<1>3. \A m \in S : I(m) \ {NULL} = KidsOf(nodes[m])
  BY <1>2
<1>4. Down(S) = (S \cup UNION {I(m) : m \in S}) \ {NULL}
  BY DEF Down
<1>5. S \ {NULL} = S
  BY <1>1
<1> HIDE DEF I
<1>6. (UNION {I(m) : m \in S}) \ {NULL} = UNION {KidsOf(nodes[m]) : m \in S}
  BY <1>3
<1> QED
  BY <1>4, <1>5, <1>6

\* Nothing is below NULL.
LEMMA NoDescent == Descends([d \in Nat |-> {}], NULL)
<1>1. Down({}) = {}
  BY DEF Down
<1> DEFINE f == [d \in Nat |-> {}]
<1>2. \A d \in Nat : f[d] = IF d = 0 THEN {NULL} \ {NULL} ELSE Down(f[d - 1])
  BY <1>1
<1> QED
  BY <1>2 DEF Descends

\* A way down is made longer or shorter at its end.
LEMMA LongerWay ==
  ASSUME NEW n, NEW e \in Nat, NEW p \in Ways(n, e), NEW k \in DOMAIN nodes,
         k \in KidsOf(nodes[p[e]])
  PROVE  \E q \in Ways(n, e + 1) : q[e + 1] = k
<1> DEFINE q == [i \in 0..e + 1 |-> IF i = e + 1 THEN k ELSE p[i]]
<1>1. /\ p \in [0..e -> DOMAIN nodes] /\ p[0] = n
      /\ \A i \in 0..e - 1 : p[i + 1] \in KidsOf(nodes[p[i]])
  BY DEF Ways
<1>2. q \in [0..e + 1 -> DOMAIN nodes] /\ q[0] = n /\ q[e + 1] = k
  BY <1>1
<1>3. \A i \in 0..e + 1 - 1 : q[i + 1] \in KidsOf(nodes[q[i]])
  <2> TAKE i \in 0..e + 1 - 1
  <2>1. q[i] = p[i]
    OBVIOUS
  <2>2. CASE i = e
    BY <2>1, <2>2
  <2>3. CASE i # e
    <3>1. i \in 0..e - 1 /\ q[i + 1] = p[i + 1]
      BY <2>3
    <3> QED
      BY <1>1, <2>1, <3>1
  <2> QED
    BY <2>2, <2>3
<1> QED
  BY <1>2, <1>3 DEF Ways

LEMMA ShorterWay ==
  ASSUME NEW n, NEW e \in Nat, NEW p \in Ways(n, e + 1)
  PROVE  \E q \in Ways(n, e) : p[e + 1] \in KidsOf(nodes[q[e]]) /\ q[e] \in DOMAIN nodes
<1> DEFINE q == [i \in 0..e |-> p[i]]
<1>1. /\ p \in [0..e + 1 -> DOMAIN nodes] /\ p[0] = n
      /\ \A i \in 0..e + 1 - 1 : p[i + 1] \in KidsOf(nodes[p[i]])
  BY DEF Ways
<1>2. q \in [0..e -> DOMAIN nodes] /\ q[0] = n /\ q[e] = p[e] /\ q[e] \in DOMAIN nodes
  BY <1>1
<1>3. \A i \in 0..e - 1 : q[i + 1] = p[i + 1] /\ q[i] = p[i] /\ i \in 0..e + 1 - 1
  OBVIOUS
<1>4. e \in 0..e + 1 - 1
  OBVIOUS
<1> HIDE DEF q
<1>5. q \in Ways(n, e)
  BY <1>1, <1>2, <1>3 DEF Ways
<1>6. p[e + 1] \in KidsOf(nodes[q[e]])
  BY <1>1, <1>2, <1>4
<1> QED
  BY <1>2, <1>5, <1>6

\* The nodes that a way of at most d steps leads to.
Reach(n, d) == {m \in DOMAIN nodes : \E e \in 0..d : \E p \in Ways(n, e) : p[e] = m}

LEMMA Descent ==
  ASSUME NodeInv, Kids(nodes) \subseteq DOMAIN nodes, NEW n \in DOMAIN nodes
  PROVE  Descends([d \in Nat |-> Reach(n, d)], n)
<1> DEFINE f == [d \in Nat |-> Reach(n, d)]
<1>1. f[0] = {n} \ {NULL}
  <2>1. n # NULL
    BY DEF NodeInv, NodesTyped
  <2>2. n \in Reach(n, 0)
    <3> DEFINE p == [i \in 0..0 |-> n]
    <3>1. p \in Ways(n, 0) /\ p[0] = n
      BY DEF Ways
    <3> QED
      BY <3>1 DEF Reach
  <2>3. \A m \in Reach(n, 0) : m = n
    BY DEF Reach, Ways
  <2> QED
    BY <2>1, <2>2, <2>3
<1>2. ASSUME NEW d \in Nat, d # 0 PROVE Reach(n, d) = Down(Reach(n, d - 1))
  <2> DEFINE S == Reach(n, d - 1)
  <2>1. S \in SUBSET DOMAIN nodes
    BY DEF Reach
  <2>2. Down(S) = S \cup UNION {KidsOf(nodes[m]) : m \in S}
    BY <2>1, DownKids
  <2>3. S \subseteq Reach(n, d)
    <3>1. 0..d - 1 \subseteq 0..d
      BY <1>2
    <3> QED
      BY <3>1 DEF Reach
  <2>4. ASSUME NEW m \in S, NEW k \in KidsOf(nodes[m]) PROVE k \in Reach(n, d)
    <3>1. m \in DOMAIN nodes /\ \E e \in 0..d - 1 : \E p \in Ways(n, e) : p[e] = m
      BY <2>4 DEF Reach
    <3>2. PICK e \in 0..d - 1 : \E p \in Ways(n, e) : p[e] = m
      BY <3>1
    <3>3. PICK p \in Ways(n, e) : p[e] = m
      BY <3>2
    <3>4. k \in DOMAIN nodes
      BY <2>4, <3>1 DEF Kids
    <3>5. e \in Nat /\ e + 1 \in 0..d
      BY <1>2
    <3>6. \E q \in Ways(n, e + 1) : q[e + 1] = k
      BY <2>4, <3>3, <3>4, <3>5, LongerWay
    <3> QED
      BY <3>4, <3>5, <3>6 DEF Reach
  <2>5. ASSUME NEW k \in Reach(n, d), k \notin S PROVE \E m \in S : k \in KidsOf(nodes[m])
    <3>1. k \in DOMAIN nodes /\ \E e \in 0..d : \E p \in Ways(n, e) : p[e] = k
      BY <2>5 DEF Reach
    <3>2. PICK e \in 0..d : \E p \in Ways(n, e) : p[e] = k
      BY <3>1
    <3>3. e \notin 0..d - 1
      BY <2>5, <3>1, <3>2 DEF Reach
    <3>4. e = (d - 1) + 1 /\ d - 1 \in Nat /\ d - 1 \in 0..d - 1
      BY <1>2, <3>3
    <3>5. PICK p \in Ways(n, (d - 1) + 1) : p[(d - 1) + 1] = k
      BY <3>2, <3>4
    <3>6. PICK q \in Ways(n, d - 1) :
            p[(d - 1) + 1] \in KidsOf(nodes[q[d - 1]]) /\ q[d - 1] \in DOMAIN nodes
      BY <3>4, <3>5, ShorterWay
    <3>7. q[d - 1] \in S
      BY <3>4, <3>6 DEF Reach
    <3> QED
      BY <3>5, <3>6, <3>7
  <2> HIDE DEF S
  <2>6. Reach(n, d) \subseteq S \cup UNION {KidsOf(nodes[m]) : m \in S}
    BY <2>5
  <2>7. UNION {KidsOf(nodes[m]) : m \in S} \subseteq Reach(n, d)
    BY <2>4
  <2>8. Reach(n, d) = Down(S)
    BY <2>2, <2>3, <2>6, <2>7
  <2> QED
    BY <2>8 DEF S
<1>3. \A d \in Nat : d # 0 => f[d] = Down(f[d - 1])
  BY <1>2
<1>4. f = [d \in Nat |-> f[d]]
  OBVIOUS
<1> HIDE DEF f
<1>5. Descends(f, n)
  BY <1>1, <1>3, <1>4 DEF Descends
<1> QED
  BY <1>5 DEF f

\* Of n, all that is below it is in every set that has n and that holds, with a
\* node, those directly below it.
LEMMA TreeWithin ==
  ASSUME NodeInv, NodesInv, NEW n, n = NULL \/ n \in DOMAIN nodes,
         NEW W \in SUBSET DOMAIN nodes, n # NULL => n \in W,
         \A m \in W : KidsOf(nodes[m]) \subseteq W
  PROVE  Tree(n) \subseteq W
<1>1. \E f : Descends(f, n)
  BY NoDescent, Descent DEF NodesInv, Forest
<1>2. Descends(Levels(n), n)
  BY <1>1 DEF Levels
<1> DEFINE f == Levels(n)
<1> HIDE DEF f
<1>3. /\ f[0] = {n} \ {NULL}
      /\ \A d \in Nat : d # 0 => f[d] = Down(f[d - 1])
  BY <1>2 DEF Descends, f
<1>4. \A d \in Nat : f[d] \subseteq W
  <2> DEFINE B == {d \in Nat : ~(f[d] \subseteq W)}
  <2> SUFFICES ASSUME B # {} PROVE FALSE
    OBVIOUS
  <2>1. PICK d \in B : \A c \in B : d <= c
    BY LeastNat
  <2>2. d \in Nat /\ d # 0
    BY <1>3, <2>1
  <2>3. d - 1 \in Nat /\ d - 1 \notin B
    BY <2>1, <2>2
  <2>4. f[d - 1] \subseteq W
    BY <2>3
  <2>5. f[d] = f[d - 1] \cup UNION {KidsOf(nodes[m]) : m \in f[d - 1]}
    <3>1. f[d - 1] \in SUBSET DOMAIN nodes
      BY <2>4
    <3> QED
      BY <1>3, <2>2, <3>1, DownKids
  <2>6. f[d] \subseteq W
    BY <2>4, <2>5
  <2> QED
    BY <2>1, <2>6
<1>5. Cardinality(DOMAIN nodes) \in Nat
  <2>1. nextId \in Nat /\ DOMAIN nodes \subseteq Nat \ {NULL}
    BY DEF NodeInv, NodesTyped
  <2>2. DOMAIN nodes \subseteq 1..nextId
    BY <2>1 DEF NodesInv, Small, NULL
  <2>3. IsFiniteSet(1..nextId)
    BY <2>1, FS_Interval
  <2> QED
    BY <2>2, <2>3, FS_Subset, FS_CardinalityType
<1> QED
  BY <1>4, <1>5, TreeLevels DEF f

\* Whatever process_operation (ast.c:199-223) moves around, and however the
\* calls of parse_statement and parse_expression nest, all that is below the
\* left operand of an operation stands before the operator in the source, and
\* all that is below its right operand stands behind it.
THEOREM OperandsKeepTheirSide ==
  ASSUME "stale" \notin FuncSlot
  PROVE  Spec => []SourceOrder
<1>1. IInv /\ NodesInv /\ SpanInv => SourceOrder
  <2> SUFFICES ASSUME IInv, NodesInv, SpanInv, NEW n \in Operations
               PROVE  /\ \A m \in Tree(nodes[n].left) : nodes[m].at < nodes[n].at
                      /\ \A m \in Tree(nodes[n].right) : nodes[m].at > nodes[n].at
    BY DEF SourceOrder
  <2>1. n \in DOMAIN nodes /\ nodes[n].type = "oper" /\ NodeInv
    BY DEF Operations, IInv
  <2>2. PICK lo, hi : Spans(nodes, lo, hi)
    BY DEF SpanInv, Placed
  <2>3. /\ \A m \in DOMAIN nodes : lo[m] \in Int /\ hi[m] \in Int /\ Spread(nodes, lo, hi, m)
    BY <2>2 DEF Spans
  <2> DEFINE a == nodes[n].at
             L == {m \in DOMAIN nodes : hi[m] < a}
             R == {m \in DOMAIN nodes : a < lo[m]}
  <2>4. a \in Int
    BY <2>1, <2>3 DEF Spread
  <2>5. \A m \in DOMAIN nodes :
          /\ nodes[m].at \in Int /\ lo[m] <= nodes[m].at /\ nodes[m].at <= hi[m]
          /\ \A k \in KidsOf(nodes[m]) : k \in DOMAIN nodes /\ lo[m] <= lo[k] /\ hi[k] <= hi[m]
    BY <2>3 DEF Spread
  <2>6. /\ nodes[n].left # NULL => nodes[n].left \in DOMAIN nodes /\ hi[nodes[n].left] < a
        /\ nodes[n].right # NULL => nodes[n].right \in DOMAIN nodes /\ a < lo[nodes[n].right]
    BY <2>1, <2>3, <2>5, LeftRightKids DEF Spread
  <2> HIDE DEF a
  <2>7. Tree(nodes[n].left) \subseteq L
    <3>1. \A m \in L : KidsOf(nodes[m]) \subseteq L
      BY <2>3, <2>4, <2>5
    <3>2. L \in SUBSET DOMAIN nodes /\ (nodes[n].left # NULL => nodes[n].left \in L)
      BY <2>6
    <3> HIDE DEF L
    <3> QED
      BY <2>1, <2>6, <3>1, <3>2, TreeWithin
  <2>8. Tree(nodes[n].right) \subseteq R
    <3>1. \A m \in R : KidsOf(nodes[m]) \subseteq R
      BY <2>3, <2>4, <2>5
    <3>2. R \in SUBSET DOMAIN nodes /\ (nodes[n].right # NULL => nodes[n].right \in R)
      BY <2>6
    <3> HIDE DEF R
    <3> QED
      BY <2>1, <2>6, <3>1, <3>2, TreeWithin
  <2>9. /\ \A m \in L : nodes[m].at < a
        /\ \A m \in R : nodes[m].at > a
    BY <2>3, <2>4, <2>5
  <2> QED
    BY <2>7, <2>8, <2>9 DEF a
<1> QED
  BY <1>1, Invariance, NodesInvariance, SpanInvariance, PTL

=============================================================================
