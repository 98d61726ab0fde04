------------------------- MODULE Ast_memory_proofs --------------------------
(***************************************************************************)
(* Proofs about the memory of the parser, for every set of token lists.    *)
(*                                                                         *)
(* The nodes, unless the uninitialized local holds an earlier function:    *)
(* they are a forest; what is not below another node is the result of one  *)
(* call, or is being handed over, or waits for its destructor.             *)
(*                                                                         *)
(* The strings, for every content of that local: no string is ever shared  *)
(* or held after it was freed.  StringsNotShared is inductive once the     *)
(* pointers and the cursor are known to be well formed (IInv of            *)
(* Ast_proofs): what an action does to the strings is one of four things,  *)
(* each of which has a lemma: leave them, take some from tokens into one   *)
(* node, free those of one node, free those of the tokens.                 *)
(*                                                                         *)
(* The two together, unless that local holds an earlier function: the      *)
(* parser, its destructors and lexer_free return all memory.  No string is *)
(* dropped, nothing is left at the exit, and the detailed module Ast       *)
(* implements the promise Custody.  What a step does to the strings is one *)
(* of five things (Leaves, Passes, FreesNode, FreesTokens, or main goes    *)
(* on); the rest is said of these.                                         *)
(***************************************************************************)
EXTENDS Ast_proofs, FiniteSetTheorems

-----------------------------------------------------------------------------
(* The pointers of a node to others, by slot: left, right, items.          *)

Slots(x) == {-1, 0} \cup 1..Len(x.items)
Kid(x, i) == IF i = -1 THEN x.left ELSE IF i = 0 THEN x.right ELSE x.items[i]

KidsOf(x) == {Kid(x, i) : i \in Slots(x)} \ {NULL}
Kids(ns) == UNION {KidsOf(ns[m]) : m \in DOMAIN ns}

\* No node is below two others, or twice below one.
KidsOnce(ns) ==
  \A m, n \in DOMAIN ns : \A i \in Slots(ns[m]), j \in Slots(ns[n]) :
    Kid(ns[m], i) = Kid(ns[n], j) /\ Kid(ns[m], i) # NULL => m = n /\ i = j

\* A node has a higher rank than those below it.
Ranks(ns, rank, top) ==
  /\ rank \in [DOMAIN ns -> Nat]
  /\ \A m \in DOMAIN ns : rank[m] <= top
  /\ \A m \in DOMAIN ns : \A k \in KidsOf(ns[m]) : rank[k] < rank[m]

Ranked(ns) == \E top \in Nat : \E rank : Ranks(ns, rank, top)

Forest(ns) == Kids(ns) \subseteq DOMAIN ns /\ KidsOnce(ns) /\ Ranked(ns)

\* y is x with the node c in a slot that was free.
Puts(x, y, c) ==
  \E i \in Slots(y) :
    /\ Slots(y) = Slots(x) \cup {i} /\ Kid(y, i) = c
    /\ i \in Slots(x) => Kid(x, i) = NULL
    /\ \A j \in Slots(x) : j # i => Kid(y, j) = Kid(x, j)

\* The slots that hold a node.
LEMMA KidSlot ==
  ASSUME NEW ns
  PROVE  /\ \A m \in DOMAIN ns : \A i \in Slots(ns[m]) :
              Kid(ns[m], i) # NULL => Kid(ns[m], i) \in Kids(ns) /\ Kid(ns[m], i) \in KidsOf(ns[m])
         /\ \A k \in Kids(ns) :
              k # NULL /\ \E m \in DOMAIN ns : \E i \in Slots(ns[m]) : Kid(ns[m], i) = k
         /\ \A m \in DOMAIN ns : KidsOf(ns[m]) \subseteq Kids(ns)
         /\ \A m \in DOMAIN ns : \A k \in KidsOf(ns[m]) :
              k # NULL /\ \E i \in Slots(ns[m]) : Kid(ns[m], i) = k
BY DEF Kids, KidsOf

LEMMA KidFields ==
  \A x : /\ -1 \in Slots(x) /\ 0 \in Slots(x) /\ Slots(x) \subseteq Int
         /\ Kid(x, -1) = x.left /\ Kid(x, 0) = x.right
         /\ \A i \in Int : i # -1 /\ i # 0 => Kid(x, i) = x.items[i]
BY DEF Slots, Kid

LEMMA NoKids ==
  ASSUME NEW x, x.left = NULL, x.right = NULL, x.items = <<>>
  PROVE  KidsOf(x) = {}
<1>1. Slots(x) = {-1, 0}
  BY DEF Slots
<1> QED
  BY <1>1 DEF KidsOf, Kid

LEMMA SameKids ==
  ASSUME NEW x, NEW y, y.left = x.left, y.right = x.right, y.items = x.items
  PROVE  Slots(y) = Slots(x) /\ KidsOf(y) = KidsOf(x) /\ \A i : Kid(y, i) = Kid(x, i)
BY DEF Slots, KidsOf, Kid

\* Each of the three ways to add a node.
LEMMA PutsOne ==
  ASSUME NEW x \in NodeRecord, NEW c \in Nat
  PROVE  /\ x.left = NULL => Puts(x, [x EXCEPT !.left = c], c)
         /\ x.right = NULL => Puts(x, [x EXCEPT !.right = c], c)
         /\ Puts(x, [x EXCEPT !.items = Append(@, c)], c)
<1>1. x.items \in Seq(Nat) /\ Len(x.items) \in Nat
  BY LenProperties DEF NodeRecord
<1>2. ASSUME x.left = NULL
      PROVE  Puts(x, [x EXCEPT !.left = c], c)
  <2> DEFINE y == [x EXCEPT !.left = c]
  <2>1. y.left = c /\ y.right = x.right /\ y.items = x.items
    BY DEF NodeRecord
  <2> HIDE DEF y
  <2>2. Slots(y) = Slots(x) /\ -1 \in Slots(y) /\ Kid(y, -1) = c /\ Kid(x, -1) = NULL
    BY <1>2, <2>1 DEF Slots, Kid
  <2>3. \A j \in Slots(x) : j # -1 => Kid(y, j) = Kid(x, j)
    BY <2>1 DEF Kid
  <2> QED
    BY <2>2, <2>3 DEF Puts, y
<1>3. ASSUME x.right = NULL
      PROVE  Puts(x, [x EXCEPT !.right = c], c)
  <2> DEFINE y == [x EXCEPT !.right = c]
  <2>1. y.right = c /\ y.left = x.left /\ y.items = x.items
    BY DEF NodeRecord
  <2> HIDE DEF y
  <2>2. Slots(y) = Slots(x) /\ 0 \in Slots(y) /\ Kid(y, 0) = c /\ Kid(x, 0) = NULL
    BY <1>3, <2>1 DEF Slots, Kid
  <2>3. \A j \in Slots(x) : j # 0 => Kid(y, j) = Kid(x, j)
    BY <2>1 DEF Kid
  <2> QED
    BY <2>2, <2>3 DEF Puts, y
<1>4. Puts(x, [x EXCEPT !.items = Append(@, c)], c)
  <2> DEFINE y == [x EXCEPT !.items = Append(@, c)]
             l == Len(x.items) + 1
  <2>1. y.items = Append(x.items, c) /\ y.left = x.left /\ y.right = x.right
    BY DEF NodeRecord
  <2> HIDE DEF y
  <2>2. /\ Len(y.items) = l /\ y.items[l] = c
        /\ \A j \in 1..Len(x.items) : y.items[j] = x.items[j]
    BY <1>1, <2>1, AppendProperties
  <2>3. Slots(y) = Slots(x) \cup {l} /\ l \in Slots(y) /\ l \notin Slots(x)
    BY <1>1, <2>2 DEF Slots
  <2>4. Kid(y, l) = c
    BY <1>1, <2>2 DEF Kid
  <2>5. \A j \in Slots(x) : Kid(y, j) = Kid(x, j)
    BY <1>1, <2>1, <2>2 DEF Kid, Slots
  <2> QED
    BY <2>3, <2>4, <2>5 DEF Puts, y
<1> QED
  BY <1>2, <1>3, <1>4

-----------------------------------------------------------------------------
(* What the actions do to the forest.                                      *)

\* A new node that points to no other.
LEMMA LeafForest ==
  ASSUME NEW ns, Forest(ns), NEW id, id \notin DOMAIN ns, NEW t,
         DOMAIN t = DOMAIN ns \cup {id}, KidsOf(t[id]) = {},
         \A m \in DOMAIN ns : t[m] = ns[m]
  PROVE  Forest(t) /\ Kids(t) = Kids(ns)
<1>1. Kids(t) = Kids(ns)
  BY DEF Kids
<1>2. KidsOnce(t)
  <2>1. \A m \in DOMAIN t : \A i \in Slots(t[m]) : Kid(t[m], i) # NULL => m \in DOMAIN ns
    BY KidSlot
  <2> QED
    BY <2>1 DEF KidsOnce, Forest
<1>3. Ranked(t)
  <2>0. PICK top \in Nat : \E rank : Ranks(ns, rank, top)
    BY DEF Forest, Ranked
  <2>1. PICK rank : Ranks(ns, rank, top)
    BY <2>0
  <2> DEFINE up == [m \in DOMAIN t |-> IF m = id THEN 0 ELSE rank[m]]
  <2>2. \A m \in DOMAIN ns : KidsOf(t[m]) = KidsOf(ns[m]) /\ KidsOf(ns[m]) \subseteq DOMAIN ns
    BY KidSlot DEF Forest
  <2>3. up \in [DOMAIN t -> Nat] /\ \A m \in DOMAIN t : up[m] <= top
    BY <2>1 DEF Ranks
  <2>4. \A m \in DOMAIN t : \A k \in KidsOf(t[m]) : up[k] < up[m]
    BY <2>1, <2>2 DEF Ranks
  <2> QED
    BY <2>3, <2>4 DEF Ranks, Ranked
<1> QED
  BY <1>1, <1>2, <1>3 DEF Forest

\* A change of other fields.
LEMMA SameForest ==
  ASSUME NEW ns, Forest(ns), NEW t, DOMAIN t = DOMAIN ns,
         \A m \in DOMAIN ns :
           t[m].left = ns[m].left /\ t[m].right = ns[m].right /\ t[m].items = ns[m].items
  PROVE  Forest(t) /\ Kids(t) = Kids(ns)
<1>1. \A m \in DOMAIN ns : /\ Slots(t[m]) = Slots(ns[m]) /\ KidsOf(t[m]) = KidsOf(ns[m])
                           /\ \A i : Kid(t[m], i) = Kid(ns[m], i)
  BY SameKids
<1>2. Kids(t) = Kids(ns)
  BY <1>1 DEF Kids
<1>3. KidsOnce(t)
  BY <1>1 DEF KidsOnce, Forest
<1>4. Ranked(t)
  BY <1>1 DEF Ranked, Ranks, Forest
<1> QED
  BY <1>2, <1>3, <1>4 DEF Forest

\* A root gets another root, or nothing, below it.
LEMMA AttachForest ==
  ASSUME NEW ns, Forest(ns), NEW n \in DOMAIN ns, n \notin Kids(ns),
         NEW c, c \in DOMAIN ns \cup {NULL}, c \notin Kids(ns), c # n,
         NEW t, DOMAIN t = DOMAIN ns, Puts(ns[n], t[n], c),
         \A m \in DOMAIN ns : m # n => t[m] = ns[m]
  PROVE  Forest(t) /\ Kids(t) = Kids(ns) \cup ({c} \ {NULL})
<1>1. PICK s \in Slots(t[n]) :
        /\ Slots(t[n]) = Slots(ns[n]) \cup {s} /\ Kid(t[n], s) = c
        /\ s \in Slots(ns[n]) => Kid(ns[n], s) = NULL
        /\ \A j \in Slots(ns[n]) : j # s => Kid(t[n], j) = Kid(ns[n], j)
  BY DEF Puts
<1>2. KidsOf(t[n]) = KidsOf(ns[n]) \cup ({c} \ {NULL})
  BY <1>1 DEF KidsOf
<1>3. Kids(t) = Kids(ns) \cup ({c} \ {NULL})
  BY <1>2 DEF Kids
<1>4. ASSUME NEW m \in DOMAIN ns, NEW i \in Slots(t[m]), Kid(t[m], i) # NULL, m # n \/ i # s
      PROVE  i \in Slots(ns[m]) /\ Kid(ns[m], i) = Kid(t[m], i) /\ Kid(t[m], i) # c
  <2>1. i \in Slots(ns[m]) /\ Kid(ns[m], i) = Kid(t[m], i)
    BY <1>1, <1>4
  <2> QED
    BY <1>4, <2>1, KidSlot
<1>5. KidsOnce(t)
  <2> SUFFICES ASSUME NEW m \in DOMAIN ns, NEW o \in DOMAIN ns,
                      NEW i \in Slots(t[m]), NEW j \in Slots(t[o]),
                      Kid(t[m], i) = Kid(t[o], j), Kid(t[m], i) # NULL
               PROVE  m = o /\ i = j
    BY DEF KidsOnce
  <2>1. CASE m = n /\ i = s
    BY <1>1, <1>4, <2>1
  <2>2. CASE o = n /\ j = s
    BY <1>1, <1>4, <2>2
  <2>3. CASE ~(m = n /\ i = s) /\ ~(o = n /\ j = s)
    BY <1>4, <2>3 DEF KidsOnce, Forest
  <2> QED
    BY <2>1, <2>2, <2>3
<1>6. Ranked(t)
  <2>0. PICK top \in Nat : \E rank : Ranks(ns, rank, top)
    BY DEF Forest, Ranked
  <2>1. PICK rank : Ranks(ns, rank, top)
    BY <2>0
  <2> DEFINE up == [m \in DOMAIN ns |-> IF m = n THEN top + 1 ELSE rank[m]]
  <2>2. /\ up \in [DOMAIN t -> Nat] /\ top + 1 \in Nat
        /\ \A m \in DOMAIN t : up[m] <= top + 1
    BY <2>1 DEF Ranks
  <2>3. ASSUME NEW m \in DOMAIN ns, NEW k \in KidsOf(t[m])
        PROVE  up[k] < up[m]
    <3>1. k # n /\ k \in DOMAIN ns
      <4>1. k \in Kids(t)
        BY KidSlot
      <4> QED
        BY <1>3, <4>1 DEF Forest
    <3>2. up[k] = rank[k] /\ rank[k] \in Nat /\ rank[k] <= top
      BY <2>1, <3>1 DEF Ranks
    <3>3. CASE m = n
      BY <3>2, <3>3
    <3>4. CASE m # n
      BY <2>1, <3>2, <3>4 DEF Ranks
    <3> QED
      BY <3>3, <3>4
  <2> QED
    BY <2>2, <2>3 DEF Ranks, Ranked
<1> QED
  BY <1>3, <1>5, <1>6 DEF Forest

\* A node that is no longer below another goes, those below it become roots.
LEMMA RemoveForest ==
  ASSUME NEW ns, Forest(ns), NEW n \in DOMAIN ns, n \notin Kids(ns),
         NEW t, DOMAIN t = DOMAIN ns \ {n}, \A m \in DOMAIN t : t[m] = ns[m]
  PROVE  Forest(t) /\ Kids(t) = Kids(ns) \ KidsOf(ns[n])
<1>1. ASSUME NEW m \in DOMAIN t, NEW k \in KidsOf(t[m])
      PROVE  k \in Kids(ns) /\ k \notin KidsOf(ns[n])
  <2>1. m \in DOMAIN ns /\ t[m] = ns[m] /\ m # n
    OBVIOUS
  <2>2. PICK i \in Slots(ns[m]) : Kid(ns[m], i) = k /\ k # NULL
    BY <1>1, <2>1, KidSlot
  <2>3. k \in Kids(ns)
    BY <2>1, <2>2, KidSlot
  <2>4. ASSUME k \in KidsOf(ns[n]) PROVE FALSE
    <3>1. PICK j \in Slots(ns[n]) : Kid(ns[n], j) = k
      BY <2>4, KidSlot
    <3> QED
      BY <2>1, <2>2, <3>1 DEF Forest, KidsOnce
  <2> QED
    BY <2>3, <2>4
<1>2. ASSUME NEW k \in Kids(ns), k \notin KidsOf(ns[n]) PROVE k \in Kids(t)
  <2>1. PICK m \in DOMAIN ns : k \in KidsOf(ns[m])
    BY DEF Kids
  <2>2. m \in DOMAIN t
    BY <1>2, <2>1
  <2> QED
    BY <2>1, <2>2 DEF Kids
<1>3. Kids(t) = Kids(ns) \ KidsOf(ns[n])
  <2>1. Kids(t) \subseteq Kids(ns) \ KidsOf(ns[n])
    BY <1>1 DEF Kids
  <2> QED
    BY <1>2, <2>1
<1>4. Kids(t) \subseteq DOMAIN t
  BY <1>3 DEF Forest
<1>5. KidsOnce(t)
  BY DEF Forest, KidsOnce
<1>6. Ranked(t)
  <2>0. PICK top \in Nat : \E rank : Ranks(ns, rank, top)
    BY DEF Forest, Ranked
  <2>1. PICK rank : Ranks(ns, rank, top)
    BY <2>0
  <2> DEFINE up == [m \in DOMAIN t |-> rank[m]]
  <2>2. up \in [DOMAIN t -> Nat] /\ \A m \in DOMAIN t : up[m] <= top
    BY <2>1 DEF Ranks
  <2>3. ASSUME NEW m \in DOMAIN t, NEW k \in KidsOf(t[m]) PROVE up[k] < up[m]
    <3>1. k \in DOMAIN t
      BY <1>4, KidSlot
    <3> QED
      BY <2>1, <3>1 DEF Ranks
  <2> QED
    BY <2>2, <2>3 DEF Ranks, Ranked
<1> QED
  BY <1>3, <1>4, <1>5, <1>6 DEF Forest

\* process_operation: two operations pass their operands around.
LEMMA RotateForest ==
  ASSUME NodesTyped(nodes), Forest(nodes), NEW n \in DOMAIN nodes, NEW r \in DOMAIN nodes,
         r = nodes[n].right
  PROVE  /\ Forest(Rotate(n, r)) /\ Kids(Rotate(n, r)) = Kids(nodes)
         /\ DOMAIN Rotate(n, r) = DOMAIN nodes
         /\ \A m \in DOMAIN nodes \ {n, r} : Rotate(n, r)[m] = nodes[m]
<1> DEFINE t == Rotate(n, r)
<1>0. NULL \notin DOMAIN nodes /\ \A m \in DOMAIN nodes : nodes[m] \in NodeRecord
  BY DEF NodesTyped
<1>1. PICK top \in Nat : \E rank : Ranks(nodes, rank, top)
  BY DEF Forest, Ranked
<1>2. PICK rank : Ranks(nodes, rank, top)
  BY <1>1
<1>3. 0 \in Slots(nodes[n]) /\ Kid(nodes[n], 0) = r /\ r # NULL
  BY <1>0 DEF Slots, Kid
<1>4. rank[r] < rank[n] /\ rank[r] \in Nat /\ rank[n] \in Nat /\ r # n
  <2>1. r \in KidsOf(nodes[n])
    BY <1>3, KidSlot
  <2> QED
    BY <1>2, <2>1 DEF Ranks
<1>14. /\ DOMAIN t = DOMAIN nodes
       /\ \A m \in DOMAIN nodes \ {n, r} : t[m] = nodes[m]
       /\ t[n] = [nodes[n] EXCEPT !.op = nodes[r].op, !.at = nodes[r].at,
                                  !.left = r, !.right = nodes[r].right]
       /\ t[r] = [nodes[r] EXCEPT !.op = nodes[n].op, !.at = nodes[n].at,
                                  !.left = nodes[n].left, !.right = nodes[r].left]
  BY <1>4 DEF Rotate
<1>5. /\ DOMAIN t = DOMAIN nodes
      /\ \A m \in DOMAIN nodes \ {n, r} : t[m] = nodes[m]
      /\ t[n].left = r /\ t[n].right = nodes[r].right /\ t[n].items = nodes[n].items
      /\ t[r].left = nodes[n].left /\ t[r].right = nodes[r].left
      /\ t[r].items = nodes[r].items
  BY <1>0, <1>14 DEF NodeRecord
<1> HIDE DEF t
<1>6. \A m \in DOMAIN nodes : Slots(t[m]) = Slots(nodes[m])
  BY <1>5 DEF Slots
<1> DEFINE FromNode(m, i) == IF m = n /\ i = 0 THEN r ELSE IF m = r /\ i = -1 THEN n ELSE m
           FromSlot(m, i) == IF m = n /\ i = -1 THEN 0 ELSE IF m = r /\ i = 0 THEN -1 ELSE i
           ToNode(m, i) == IF m = n /\ i = -1 THEN r ELSE IF m = r /\ i = 0 THEN n ELSE m
           ToSlot(m, i) == IF m = n /\ i = 0 THEN -1 ELSE IF m = r /\ i = -1 THEN 0 ELSE i
<1>7. ASSUME NEW m \in DOMAIN nodes, NEW i \in Slots(nodes[m])
      PROVE  /\ FromNode(m, i) \in DOMAIN nodes
             /\ FromSlot(m, i) \in Slots(nodes[FromNode(m, i)])
             /\ Kid(t[m], i) = Kid(nodes[FromNode(m, i)], FromSlot(m, i))
  <2>1. CASE i = -1
    BY <1>3, <1>4, <1>5, <2>1, KidFields
  <2>2. CASE i = 0
    BY <1>3, <1>4, <1>5, <2>2, KidFields
  <2>3. CASE i # -1 /\ i # 0
    <3>1. i \in Int /\ Kid(t[m], i) = Kid(nodes[m], i)
      BY <1>5, <2>3, KidFields
    <3> QED
      BY <2>3, <3>1
  <2> QED
    BY <2>1, <2>2, <2>3
<1>8. ASSUME NEW m \in DOMAIN nodes, NEW i \in Slots(nodes[m])
      PROVE  /\ ToNode(m, i) \in DOMAIN nodes
             /\ ToSlot(m, i) \in Slots(nodes[ToNode(m, i)])
             /\ Kid(nodes[m], i) = Kid(t[ToNode(m, i)], ToSlot(m, i))
  <2>1. CASE i = -1
    BY <1>3, <1>4, <1>5, <2>1, KidFields
  <2>2. CASE i = 0
    BY <1>3, <1>4, <1>5, <2>2, KidFields
  <2>3. CASE i # -1 /\ i # 0
    <3>1. i \in Int /\ Kid(t[m], i) = Kid(nodes[m], i)
      BY <1>5, <2>3, KidFields
    <3> QED
      BY <2>3, <3>1
  <2> QED
    BY <2>1, <2>2, <2>3
<1>9. \A m, o \in DOMAIN nodes : \A i, j \in Int :
        FromNode(m, i) = FromNode(o, j) /\ FromSlot(m, i) = FromSlot(o, j)
        => m = o /\ i = j
  BY <1>4
<1> HIDE DEF FromNode, FromSlot, ToNode, ToSlot
<1>10. Kids(t) = Kids(nodes)
  <2>1. ASSUME NEW k \in Kids(t) PROVE k \in Kids(nodes)
    <3>1. PICK m \in DOMAIN t : k # NULL /\ \E i \in Slots(t[m]) : Kid(t[m], i) = k
      BY KidSlot
    <3>2. PICK i \in Slots(t[m]) : Kid(t[m], i) = k
      BY <3>1
    <3> QED
      BY <1>5, <1>6, <1>7, <3>1, <3>2, KidSlot
  <2>2. ASSUME NEW k \in Kids(nodes) PROVE k \in Kids(t)
    <3>1. PICK m \in DOMAIN nodes : k # NULL /\ \E i \in Slots(nodes[m]) : Kid(nodes[m], i) = k
      BY KidSlot
    <3>2. PICK i \in Slots(nodes[m]) : Kid(nodes[m], i) = k
      BY <3>1
    <3> QED
      BY <1>5, <1>6, <1>8, <3>1, <3>2, KidSlot
  <2> QED
    BY <2>1, <2>2
<1>11. KidsOnce(t)
  <2> SUFFICES ASSUME NEW m \in DOMAIN nodes, NEW o \in DOMAIN nodes,
                      NEW i \in Slots(nodes[m]), NEW j \in Slots(nodes[o]),
                      Kid(t[m], i) = Kid(t[o], j), Kid(t[m], i) # NULL
               PROVE  m = o /\ i = j
    BY <1>5, <1>6 DEF KidsOnce
  <2>1. FromNode(m, i) = FromNode(o, j) /\ FromSlot(m, i) = FromSlot(o, j)
    BY <1>7 DEF KidsOnce, Forest
  <2> QED
    BY <1>9, <2>1, KidFields
<1>12. Ranked(t)
  <2> DEFINE up == [m \in DOMAIN nodes |-> IF m = n THEN 2 * rank[n] + 1
                                           ELSE IF m = r THEN 2 * rank[n] ELSE 2 * rank[m]]
  <2>1. \A m \in DOMAIN nodes : rank[m] \in Nat /\ rank[m] <= top
    BY <1>2 DEF Ranks
  <2>2. up \in [DOMAIN t -> Nat] /\ \A m \in DOMAIN t : up[m] <= 2 * top + 1
    BY <1>5, <2>1
  <2>3. ASSUME NEW m \in DOMAIN nodes, NEW i \in Slots(nodes[m]), Kid(nodes[m], i) # NULL
        PROVE  /\ Kid(nodes[m], i) \in DOMAIN nodes
               /\ rank[Kid(nodes[m], i)] < rank[m]
               /\ m # n \/ i # 0 => Kid(nodes[m], i) # r
    <3>1. Kid(nodes[m], i) \in KidsOf(nodes[m]) /\ Kid(nodes[m], i) \in Kids(nodes)
      BY <2>3, KidSlot
    <3>2. m # n \/ i # 0 => Kid(nodes[m], i) # r
      BY <1>3, <2>3 DEF KidsOnce, Forest
    <3> QED
      BY <1>2, <3>1, <3>2 DEF Forest, Ranks
  <2>4. ASSUME NEW m \in DOMAIN nodes, NEW k \in KidsOf(t[m]) PROVE up[k] < up[m]
    <3>1. PICK i \in Slots(nodes[m]) : Kid(t[m], i) = k /\ k # NULL
      BY <1>5, <1>6, KidSlot
    <3> DEFINE o == FromNode(m, i)
               j == FromSlot(m, i)
    <3>2. /\ o \in DOMAIN nodes /\ j \in Slots(nodes[o]) /\ Kid(nodes[o], j) = k
      BY <1>7, <3>1
    <3>3. k \in DOMAIN nodes /\ rank[k] < rank[o] /\ (o # n \/ j # 0 => k # r)
      BY <2>3, <3>1, <3>2
    <3>9. i \in Int
      BY KidFields
    <3>4. /\ m = n => k = r \/ ((o = n \/ o = r) /\ k # r)
          /\ m = r => (o = n \/ o = r) /\ k # r
          /\ m # n /\ m # r => o = m /\ k # r
      BY <1>3, <1>4, <3>1, <3>2, <3>3, <3>9 DEF FromNode, FromSlot
    <3>5. rank[k] \in Nat /\ rank[m] \in Nat /\ rank[o] \in Nat
      BY <2>1, <3>2, <3>3
    <3> HIDE DEF o, j
    <3>6. CASE m = n
      BY <1>4, <3>3, <3>4, <3>5, <3>6
    <3>7. CASE m = r
      BY <1>4, <3>3, <3>4, <3>5, <3>7
    <3>8. CASE m # n /\ m # r
      BY <1>4, <3>3, <3>4, <3>5, <3>8
    <3> QED
      BY <3>6, <3>7, <3>8
  <2> HIDE DEF up
  <2>5. Ranks(t, up, 2 * top + 1) /\ 2 * top + 1 \in Nat
    BY <1>5, <2>2, <2>4 DEF Ranks
  <2> QED
    BY <2>5 DEF Ranked
<1>13. Kids(t) \subseteq DOMAIN t
  BY <1>5, <1>10 DEF Forest
<1> QED
  BY <1>5, <1>10, <1>11, <1>12, <1>13 DEF Forest, t

-----------------------------------------------------------------------------
(* The invariant.                                                          *)

Only(x) == {x} \ {NULL}

\* The results of the calls of a stack, and of those below the one on top.
Roots(s) == {s[d].res : d \in 1..Len(s)} \ {NULL}
Below(s) == {s[d].res : d \in 1..Len(s) - 1} \ {NULL}

RootsOnce(s) ==
  \A c, d \in 1..Len(s) : s[c].res = s[d].res /\ s[c].res # NULL => c = d

\* The nodes whose destructor is to be called.
Doomed(cl) == {cl[j].node : j \in {j \in 1..Len(cl) : cl[j].fn = "destroy"}} \ {NULL}

DoomedOnce(cl) ==
  \A i, j \in 1..Len(cl) :
    cl[i].fn = "destroy" /\ cl[j].fn = "destroy" /\ cl[i].node = cl[j].node
      /\ cl[i].node # NULL => i = j

Uniform(cl) ==
  (\A j \in 1..Len(cl) : cl[j].fn = "destroy") \/ (\A j \in 1..Len(cl) : cl[j].fn # "destroy")

\* What a call knows of its result at its program point: whether there is one,
\* and that the slot it will fill is free.
FrameOK(f, ns) ==
  /\ f.pc \in {"start", "paren"} => f.res = NULL
  /\ f.pc \in {"loop", "item", "settle"} => f.res # NULL
  /\ f.pc \in {"declName", "declMark", "declType", "declAssign", "declValue"} =>
       f.res # NULL /\ ns[f.res].type = "decl" /\ ns[f.res].right = NULL
  /\ f.pc = "declName" => ns[f.res].left = NULL
  /\ f.pc = "operand" => f.res # NULL /\ ns[f.res].right = NULL
  /\ f.pc \in {"funcName", "funcArgs", "scope"} => f.res # NULL
  /\ f.pc \in {"funcName", "funcArgs", "scope", "scopeEnd"} /\ f.res # NULL =>
       ns[f.res].type = "func" /\ ns[f.res].left = NULL

FramesOK(s, ns) == \A d \in 1..Len(s) : FrameOK(s[d], ns)

\* A node that is not below another is the result of a call, doomed or handed
\* over.
Parted ==
  /\ DOMAIN nodes \ Kids(nodes) = Roots(stack) \cup Doomed(calls) \cup Only(ret.expr)
  /\ Roots(stack) \cap Doomed(calls) = {}
  /\ ret.expr \notin Roots(stack) /\ ret.expr \notin Doomed(calls)

RetOK ==
  /\ ret.expr # NULL => stack = <<>> \/ Top.pc \in Waiting
  /\ ret.error \/ calls # <<>> => ret.expr = NULL

Small(ns, id) == \A n \in DOMAIN ns : n < id

NodesInv ==
  /\ Small(nodes, nextId) /\ Forest(nodes)
  /\ Uniform(calls) /\ DoomedOnce(calls)
  /\ RootsOnce(stack) /\ FramesOK(stack, nodes)
  /\ Parted /\ RetOK

-----------------------------------------------------------------------------
(* Stacks and calls.                                                       *)

LEMMA ReplaceRoots ==
  ASSUME NEW s \in Seq(FrameRecord), s # <<>>, RootsOnce(s), NEW f \in FrameRecord,
         f.res \notin Below(s), NEW ns, FrameOK(f, ns),
         \A d \in 1..Len(s) - 1 : FrameOK(s[d], ns)
  PROVE  LET t == [s EXCEPT ![Len(s)] = f]
         IN  /\ t \in Seq(FrameRecord) /\ t # <<>> /\ t[Len(t)] = f
             /\ Roots(t) = Below(s) \cup Only(f.res) /\ RootsOnce(t) /\ FramesOK(t, ns)
<1> DEFINE t == [s EXCEPT ![Len(s)] = f]
<1>1. Len(s) \in Nat \ {0}
  BY EmptySeq, ElementOfSeq
<1>2. /\ t \in Seq(FrameRecord) /\ Len(t) = Len(s)
      /\ \A d \in 1..Len(s) : t[d] = IF d = Len(s) THEN f ELSE s[d]
  BY <1>1, ExceptSeq
<1>3. t # <<>>
  BY <1>1, <1>2, EmptySeq
<1> HIDE DEF t
<1>4. /\ \A d \in 1..Len(s) - 1 : d \in 1..Len(s) /\ t[d] = s[d]
      /\ \A d \in 1..Len(s) : d = Len(s) \/ d \in 1..Len(s) - 1
      /\ t[Len(s)] = f /\ Len(s) \in 1..Len(s)
  BY <1>1, <1>2
<1>5. Roots(t) = Below(s) \cup Only(f.res)
  <2>1. {t[d].res : d \in 1..Len(t)} = {s[d].res : d \in 1..Len(s) - 1} \cup {f.res}
    BY <1>2, <1>4
  <2> QED
    BY <2>1 DEF Roots, Below, Only
<1>6. RootsOnce(t)
  <2>1. \A d \in 1..Len(s) - 1 : s[d].res # NULL => s[d].res # f.res
    BY DEF Below
  <2> QED
    BY <1>2, <1>4, <2>1 DEF RootsOnce
<1>7. FramesOK(t, ns)
  BY <1>2, <1>4 DEF FramesOK
<1> QED
  BY <1>2, <1>3, <1>4, <1>5, <1>6, <1>7 DEF t

LEMMA AppendRoots ==
  ASSUME NEW s \in Seq(FrameRecord), RootsOnce(s), NEW g \in FrameRecord,
         g.res \notin Roots(s), NEW ns, FrameOK(g, ns), FramesOK(s, ns)
  PROVE  LET t == Append(s, g)
         IN  /\ t \in Seq(FrameRecord) /\ t # <<>> /\ t[Len(t)] = g
             /\ Roots(t) = Roots(s) \cup Only(g.res) /\ RootsOnce(t) /\ FramesOK(t, ns)
<1> DEFINE t == Append(s, g)
<1>1. Len(s) \in Nat
  BY LenProperties
<1>2. /\ t \in Seq(FrameRecord) /\ Len(t) = Len(s) + 1 /\ t[Len(s) + 1] = g
      /\ \A d \in 1..Len(s) : t[d] = s[d]
  BY <1>1, AppendProperties
<1>3. t # <<>>
  BY <1>1, <1>2, EmptySeq
<1> HIDE DEF t
<1>4. /\ \A d \in 1..Len(s) : d \in 1..Len(t)
      /\ \A d \in 1..Len(t) : d = Len(t) \/ d \in 1..Len(s)
      /\ Len(t) \in 1..Len(t)
  BY <1>1, <1>2
<1>5. Roots(t) = Roots(s) \cup Only(g.res)
  <2>1. {t[d].res : d \in 1..Len(t)} = {s[d].res : d \in 1..Len(s)} \cup {g.res}
    BY <1>2, <1>4
  <2> QED
    BY <2>1 DEF Roots, Only
<1>6. RootsOnce(t)
  <2>1. \A d \in 1..Len(s) : s[d].res # NULL => s[d].res # g.res
    BY DEF Roots
  <2> QED
    BY <1>2, <1>4, <2>1 DEF RootsOnce
<1>7. FramesOK(t, ns)
  BY <1>2, <1>4 DEF FramesOK
<1> QED
  BY <1>2, <1>3, <1>5, <1>6, <1>7 DEF t

LEMMA PopRoots ==
  ASSUME NEW s \in Seq(FrameRecord), s # <<>>, RootsOnce(s), NEW ns,
         \A d \in 1..Len(s) - 1 : FrameOK(s[d], ns)
  PROVE  LET t == SubSeq(s, 1, Len(s) - 1)
         IN  /\ t \in Seq(FrameRecord)
             /\ Roots(t) = Below(s) /\ RootsOnce(t) /\ FramesOK(t, ns)
             /\ t # <<>> => Len(s) - 1 \in 1..Len(s) - 1 /\ t[Len(t)] = s[Len(s) - 1]
<1> DEFINE t == SubSeq(s, 1, Len(s) - 1)
<1>1. Len(s) \in Nat \ {0} /\ \A d \in 1..Len(s) : s[d] \in FrameRecord
  BY EmptySeq, ElementOfSeq
<1>2. /\ t \in Seq(FrameRecord) /\ Len(t) = Len(s) - 1
      /\ \A d \in 1..Len(s) - 1 : t[d] = s[d]
  <2>1. \A d \in 1..Len(s) - 1 : s[d] \in FrameRecord
    BY <1>1
  <2>2. /\ t \in Seq(FrameRecord)
        /\ Len(t) = IF 1 <= Len(s) - 1 THEN Len(s) - 1 - 1 + 1 ELSE 0
        /\ \A d \in 1..Len(s) - 1 - 1 + 1 : t[d] = s[1 + d - 1]
    BY <1>1, <2>1, SubSeqProperties
  <2>3. ASSUME NEW m, m \in Nat \ {0}
        PROVE  /\ (IF 1 <= m - 1 THEN m - 1 - 1 + 1 ELSE 0) = m - 1
               /\ m - 1 - 1 + 1 = m - 1
               /\ \A d \in 1..m - 1 : 1 + d - 1 = d
    BY <2>3
  <2> HIDE DEF t
  <2>4. /\ Len(s) - 1 - 1 + 1 = Len(s) - 1
        /\ \A d \in 1..Len(s) - 1 : 1 + d - 1 = d
        /\ Len(t) = Len(s) - 1
    BY <1>1, <2>2, <2>3
  <2> QED
    BY <2>2, <2>4
<1>3. t # <<>> => Len(t) \in Nat \ {0}
  BY <1>2, EmptySeq
<1> HIDE DEF t
<1>4. t # <<>> => Len(s) - 1 \in 1..Len(s) - 1 /\ t[Len(t)] = s[Len(s) - 1]
  BY <1>1, <1>2, <1>3
<1>5. \A d \in 1..Len(s) - 1 : d \in 1..Len(s)
  BY <1>1
<1>6. Roots(t) = Below(s)
  BY <1>2 DEF Roots, Below
<1>7. RootsOnce(t) /\ FramesOK(t, ns)
  BY <1>2, <1>5 DEF RootsOnce, FramesOK
<1> QED
  BY <1>2, <1>4, <1>6, <1>7 DEF t

\* No call is pending, or one.
LEMMA NoDoom == Uniform(<<>>) /\ DoomedOnce(<<>>) /\ Doomed(<<>>) = {}
BY DEF Uniform, DoomedOnce, Doomed

LEMMA OneDoom ==
  ASSUME NEW n \in Nat
  PROVE  LET cl == Calls("destroy", <<n>>)
         IN  Uniform(cl) /\ DoomedOnce(cl) /\ Doomed(cl) = Only(n)
<1> DEFINE cl == Calls("destroy", <<n>>)
<1>1. Len(cl) = 1 /\ cl[1] = [fn |-> "destroy", node |-> n]
  <2>1. DOMAIN <<n>> = 1..1
    OBVIOUS
  <2>2. cl = [j \in 1..1 |-> [fn |-> "destroy", node |-> n]]
    BY <2>1 DEF Calls
  <2>3. cl \in Seq(CallRecord)
    BY OneNode, CallsTyped
  <2>4. DOMAIN cl = 1..Len(cl) /\ Len(cl) \in Nat
    BY <2>3, LenProperties
  <2> HIDE DEF cl
  <2> QED
    BY <2>2, <2>4
<1> HIDE DEF cl
<1>2. \A j \in 1..Len(cl) : j = 1
  BY <1>1
<1>3. 1 \in 1..Len(cl)
  BY <1>1
<1>4. Doomed(cl) = Only(n)
  BY <1>1, <1>2, <1>3 DEF Doomed, Only
<1> QED
  BY <1>1, <1>2, <1>3, <1>4 DEF Uniform, DoomedOnce, cl

\* Calls of process_operation doom nothing.
LEMMA ProcessDoom ==
  ASSUME NEW cl, \A j \in 1..Len(cl) : cl[j].fn # "destroy"
  PROVE  Uniform(cl) /\ DoomedOnce(cl) /\ Doomed(cl) = {}
BY DEF Uniform, DoomedOnce, Doomed

-----------------------------------------------------------------------------
(* Steps of the call on top.                                               *)

\* In the nodes ns, of which id is not one, what belongs to the call on top, or
\* to the one it calls or returns to, is x and what is below it.
Holds(ns, id, x) ==
  /\ Small(ns, id) /\ Forest(ns)
  /\ \A n \in Below(stack) : ns[n] = nodes[n]
  /\ DOMAIN ns \ Kids(ns) = Below(stack) \cup Only(x)
  /\ x \notin Below(stack)

\* What an action of the call on top starts from.
LEMMA AtNodes ==
  ASSUME IInv, NodesInv, NEW pc, At(pc)
  PROVE  /\ stack # <<>> /\ Top.pc = pc /\ Top \in FrameRecord /\ Top.res \in Nat
         /\ calls = <<>> /\ ret.expr \in Nat /\ nextId \in Nat /\ UNCHANGED phase
         /\ NodesTyped(nodes) /\ NULL \notin DOMAIN nodes /\ nextId \notin DOMAIN nodes
         /\ FrameOK(Top, nodes)
         /\ \A d \in 1..Len(stack) - 1 : FrameOK(stack[d], nodes)
         /\ Forest(nodes) /\ Small(nodes, nextId)
         /\ Below(stack) \subseteq DOMAIN nodes /\ NULL \notin Below(stack)
         /\ Top.res \in DOMAIN nodes \cup {NULL} /\ Top.res \notin Below(stack)
         /\ ret.expr \in DOMAIN nodes \cup {NULL} /\ ret.expr \notin Below(stack)
         /\ Top.res = NULL \/ Top.res # ret.expr
         /\ DOMAIN nodes \ Kids(nodes) = Below(stack) \cup Only(Top.res) \cup Only(ret.expr)
         /\ pc \notin Waiting \/ ret.error => ret.expr = NULL
<1>1. /\ stack # <<>> /\ Top.pc = pc /\ calls = <<>> /\ StackInv /\ UNCHANGED phase
      /\ NodesTyped(nodes) /\ nextId \in Nat
  BY DEF At, IInv, NodeInv
<1>2. /\ Top \in FrameRecord /\ Top.res \in Nat /\ Len(stack) \in Nat \ {0}
      /\ ret.expr \in Nat
  BY <1>1, TopFacts DEF StackInv
<1>3. /\ \A d \in 1..Len(stack) - 1 : d \in 1..Len(stack) /\ d # Len(stack)
      /\ \A d \in 1..Len(stack) : d = Len(stack) \/ d \in 1..Len(stack) - 1
      /\ Len(stack) \in 1..Len(stack)
  BY <1>2
<1>4. NULL \notin DOMAIN nodes /\ nextId \notin DOMAIN nodes
  BY <1>1 DEF NodesTyped, NodesInv, Small
<1>5. FrameOK(Top, nodes) /\ \A d \in 1..Len(stack) - 1 : FrameOK(stack[d], nodes)
  BY <1>3 DEF NodesInv, FramesOK, Top
<1>6. Roots(stack) = Below(stack) \cup Only(Top.res)
  <2>1. {stack[d].res : d \in 1..Len(stack)}
          = {stack[d].res : d \in 1..Len(stack) - 1} \cup {Top.res}
    BY <1>3 DEF Top
  <2> QED
    BY <2>1 DEF Roots, Below, Only
<1>7. Top.res \notin Below(stack)
  BY <1>3 DEF NodesInv, RootsOnce, Below, Top
<1>8. Doomed(calls) = {}
  BY <1>1, NoDoom
<1>9. /\ DOMAIN nodes \ Kids(nodes) = Below(stack) \cup Only(Top.res) \cup Only(ret.expr)
      /\ ret.expr \notin Below(stack) /\ (Top.res = NULL \/ Top.res # ret.expr)
  BY <1>6, <1>8 DEF NodesInv, Parted, Only
<1>10. /\ Below(stack) \subseteq DOMAIN nodes /\ NULL \notin Below(stack)
       /\ Top.res \in DOMAIN nodes \cup {NULL}
       /\ ret.expr \in DOMAIN nodes \cup {NULL}
  BY <1>9 DEF Only, Below
<1>11. pc \notin Waiting \/ ret.error => ret.expr = NULL
  BY <1>1 DEF NodesInv, RetOK
<1> QED
  BY <1>1, <1>2, <1>4, <1>5, <1>7, <1>9, <1>10, <1>11 DEF NodesInv

\* Before it does anything the call on top holds its result, if it has not been
\* given one.
LEMMA HoldsTop ==
  ASSUME IInv, NodesInv, NEW pc, At(pc), ret.expr = NULL
  PROVE  Holds(nodes, nextId, Top.res)
BY AtNodes DEF Holds, Only

\* It holds what it has been given, if it has no result.
LEMMA HoldsRet ==
  ASSUME IInv, NodesInv, NEW pc, At(pc), Top.res = NULL
  PROVE  Holds(nodes, nextId, ret.expr)
BY AtNodes DEF Holds, Only

\* It changes other fields of the node.
LEMMA HoldsLike ==
  ASSUME NEW ns, NEW id, NEW x, Holds(ns, id, x), NULL \notin Below(stack),
         NEW t, DOMAIN t = DOMAIN ns, \A m \in DOMAIN ns : m # x => t[m] = ns[m],
         \A m \in DOMAIN ns :
           t[m].left = ns[m].left /\ t[m].right = ns[m].right /\ t[m].items = ns[m].items
  PROVE  Holds(t, id, x)
<1>1. Forest(t) /\ Kids(t) = Kids(ns)
  BY SameForest DEF Holds
<1>2. \A n \in Below(stack) : n \in DOMAIN ns /\ n # x
  BY DEF Holds, Only
<1> QED
  BY <1>1, <1>2 DEF Holds, Small

\* It makes a node.
LEMMA HoldsLeaf ==
  ASSUME NEW ns, NEW id \in Nat \ {NULL}, Holds(ns, id, NULL), DOMAIN ns \subseteq Nat,
         NEW t, DOMAIN t = DOMAIN ns \cup {id}, KidsOf(t[id]) = {},
         \A m \in DOMAIN ns : t[m] = ns[m]
  PROVE  Holds(t, id + 1, id)
<1>1. id \notin DOMAIN ns
  BY DEF Holds, Small
<1>2. Forest(t) /\ Kids(t) = Kids(ns)
  BY <1>1, LeafForest DEF Holds
<1>3. Small(t, id + 1)
  BY DEF Holds, Small
<1>4. Below(stack) \subseteq DOMAIN ns
  BY DEF Holds
<1>5. id \notin Kids(ns)
  BY <1>1 DEF Holds, Forest
<1> QED
  BY <1>1, <1>2, <1>3, <1>4, <1>5 DEF Holds, Only

\* It makes a node below the one it has.
LEMMA HoldsNewBelow ==
  ASSUME NEW ns, NEW id \in Nat \ {NULL}, NEW x, Holds(ns, id, x), x # NULL,
         DOMAIN ns \subseteq Nat,
         NEW t, DOMAIN t = DOMAIN ns \cup {id}, KidsOf(t[id]) = {},
         Puts(ns[x], t[x], id), \A m \in DOMAIN ns : m # x => t[m] = ns[m]
  PROVE  Holds(t, id + 1, x)
<1>1. id \notin DOMAIN ns /\ x \in DOMAIN ns /\ x \notin Kids(ns) /\ x # id
  BY DEF Holds, Small, Only
<1> DEFINE u == [m \in DOMAIN t |-> IF m = x THEN ns[x] ELSE t[m]]
<1>2. DOMAIN u = DOMAIN ns \cup {id} /\ u[id] = t[id] /\ \A m \in DOMAIN ns : u[m] = ns[m]
  BY <1>1
<1>3. x \in DOMAIN u /\ DOMAIN t = DOMAIN u /\ \A m \in DOMAIN u : m # x => t[m] = u[m]
  BY <1>1
<1> HIDE DEF u
<1>4. Forest(u) /\ Kids(u) = Kids(ns)
  BY <1>1, <1>2, LeafForest DEF Holds
<1>5. id \notin Kids(ns)
  BY <1>1 DEF Holds, Forest
<1>6. Forest(t) /\ Kids(t) = Kids(u) \cup ({id} \ {NULL})
  <2>1. /\ x \notin Kids(u) /\ id \in DOMAIN u \cup {NULL} /\ id \notin Kids(u) /\ id # x
        /\ Puts(u[x], t[x], id)
    BY <1>1, <1>2, <1>4, <1>5
  <2> QED
    BY <1>3, <1>4, <2>1, AttachForest
<1>7. Small(t, id + 1)
  BY DEF Holds, Small
<1>8. Below(stack) \subseteq DOMAIN ns /\ x \notin Below(stack)
  BY DEF Holds
<1>9. DOMAIN t \ Kids(t) = Below(stack) \cup Only(x)
  BY <1>1, <1>4, <1>6 DEF Holds, Only
<1> QED
  BY <1>6, <1>7, <1>8, <1>9 DEF Holds

\* It makes a node above the one it has, if it has one.
LEMMA HoldsNewAbove ==
  ASSUME NEW ns, NEW id \in Nat \ {NULL}, NEW x, Holds(ns, id, x), DOMAIN ns \subseteq Nat,
         NULL \notin DOMAIN ns,
         NEW t, DOMAIN t = DOMAIN ns \cup {id}, \A m \in DOMAIN ns : t[m] = ns[m],
         NEW leaf, KidsOf(leaf) = {}, Puts(leaf, t[id], x)
  PROVE  Holds(t, id + 1, id)
<1>1. id \notin DOMAIN ns /\ x \in DOMAIN ns \cup {NULL} /\ x \notin Kids(ns) /\ x # id
  BY DEF Holds, Small, Only, Kids, KidsOf, Forest
<1> DEFINE u == [m \in DOMAIN t |-> IF m = id THEN leaf ELSE t[m]]
<1>2. DOMAIN u = DOMAIN ns \cup {id} /\ u[id] = leaf /\ \A m \in DOMAIN ns : u[m] = ns[m]
  BY <1>1
<1>3. id \in DOMAIN u /\ DOMAIN t = DOMAIN u /\ \A m \in DOMAIN u : m # id => t[m] = u[m]
  BY <1>1
<1> HIDE DEF u
<1>4. Forest(u) /\ Kids(u) = Kids(ns)
  BY <1>1, <1>2, LeafForest DEF Holds
<1>5. id \notin Kids(ns)
  BY <1>1 DEF Holds, Forest
<1>6. Forest(t) /\ Kids(t) = Kids(u) \cup ({x} \ {NULL})
  <2>1. /\ id \notin Kids(u) /\ x \in DOMAIN u \cup {NULL} /\ x \notin Kids(u) /\ x # id
        /\ Puts(u[id], t[id], x)
    BY <1>1, <1>2, <1>4, <1>5
  <2> QED
    BY <1>3, <1>4, <2>1, AttachForest
<1>7. Small(t, id + 1)
  BY DEF Holds, Small
<1>8. Below(stack) \subseteq DOMAIN ns /\ x \notin Below(stack)
  BY DEF Holds
<1>9. DOMAIN t \ Kids(t) = Below(stack) \cup Only(id)
  BY <1>1, <1>4, <1>5, <1>6, <1>8 DEF Holds, Only
<1>10. id \notin Below(stack)
  BY <1>1, <1>8
<1> QED
  BY <1>1, <1>6, <1>7, <1>8, <1>9, <1>10 DEF Holds

\* It puts what it has been given below its result.
LEMMA HoldsAnswer ==
  ASSUME IInv, NodesInv, NEW pc, At(pc), Top.res # NULL,
         NEW t, DOMAIN t = DOMAIN nodes, Puts(nodes[Top.res], t[Top.res], ret.expr),
         \A m \in DOMAIN nodes : m # Top.res => t[m] = nodes[m]
  PROVE  Holds(t, nextId, Top.res)
<1>1. /\ Top.res \in DOMAIN nodes /\ Top.res \notin Kids(nodes)
      /\ ret.expr \in DOMAIN nodes \cup {NULL} /\ ret.expr \notin Kids(nodes)
      /\ ret.expr # Top.res /\ Forest(nodes) /\ Small(nodes, nextId)
  BY AtNodes DEF Only, Kids, KidsOf
<1>2. Forest(t) /\ Kids(t) = Kids(nodes) \cup ({ret.expr} \ {NULL})
  BY <1>1, AttachForest
<1>3. /\ Below(stack) \subseteq DOMAIN nodes /\ Top.res \notin Below(stack)
      /\ ret.expr \notin Below(stack)
      /\ DOMAIN nodes \ Kids(nodes) = Below(stack) \cup Only(Top.res) \cup Only(ret.expr)
  BY AtNodes
<1>4. DOMAIN t \ Kids(t) = Below(stack) \cup Only(Top.res)
  BY <1>1, <1>2, <1>3 DEF Only
<1>5. \A n \in Below(stack) : t[n] = nodes[n]
  BY <1>3
<1> QED
  BY <1>1, <1>2, <1>3, <1>4, <1>5 DEF Holds, Small

-----------------------------------------------------------------------------
(* Moving between calls.                                                   *)

\* The calls below find their results as they left them.
LEMMA BelowOK ==
  ASSUME IInv, NodesInv, NEW pc, At(pc), NEW ns, NEW id, NEW x, Holds(ns, id, x)
  PROVE  \A d \in 1..Len(stack) - 1 : FrameOK(stack[d], ns)
<1> SUFFICES ASSUME NEW d \in 1..Len(stack) - 1 PROVE FrameOK(stack[d], ns)
  OBVIOUS
<1>1. FrameOK(stack[d], nodes)
  BY AtNodes
<1>2. stack[d].res = NULL \/ stack[d].res \in Below(stack)
  BY DEF Below
<1>3. stack[d].res = NULL \/ ns[stack[d].res] = nodes[stack[d].res]
  BY <1>2 DEF Holds
<1>4. stack[d].pc # "declName" \/ stack[d].res # NULL
  BY <1>1 DEF FrameOK
<1> QED
  BY <1>1, <1>3, <1>4 DEF FrameOK

\* Continue.
LEMMA ContinueNodes ==
  ASSUME IInv, NodesInv, NEW pc, At(pc), NEW x, Holds(nodes', nextId', x),
         NEW f \in FrameRecord, f.res = x, FrameOK(f, nodes'), NEW p, Continue(f, p)
  PROVE  NodesInv'
<1>1. /\ stack # <<>> /\ stack \in Seq(FrameRecord) /\ RootsOnce(stack) /\ calls = <<>>
  BY AtNodes DEF IInv, StackInv, NodesInv
<1>2. /\ Roots(stack') = Below(stack) \cup Only(x) /\ RootsOnce(stack')
      /\ FramesOK(stack', nodes')
  BY <1>1, BelowOK, ReplaceRoots DEF Continue, Holds
<1>3. calls' = <<>> /\ ret'.expr = NULL /\ NULL \notin Roots(stack') /\ Only(NULL) = {}
  BY <1>1 DEF Continue, Nothing, Roots, Only
<1>4. Parted'
  BY <1>2, <1>3, NoDoom DEF Parted, Holds
<1>5. RetOK'
  BY <1>3 DEF RetOK
<1> QED
  BY <1>2, <1>3, <1>4, <1>5, NoDoom DEF NodesInv, Holds

\* Call.
LEMMA CallNodes ==
  ASSUME IInv, NodesInv, NEW pc, At(pc), NEW x, Holds(nodes', nextId', x),
         NEW f \in FrameRecord, f.res = x, FrameOK(f, nodes'), NEW p, Call(f, p)
  PROVE  NodesInv'
<1> DEFINE g == Frame("start", f.pc = "item", NULL, f.hi)
           r == [stack EXCEPT ![Len(stack)] = f]
<1>1. /\ stack # <<>> /\ stack \in Seq(FrameRecord) /\ RootsOnce(stack) /\ calls = <<>>
  BY AtNodes DEF IInv, StackInv, NodesInv
<1>2. /\ r \in Seq(FrameRecord) /\ Roots(r) = Below(stack) \cup Only(x) /\ RootsOnce(r)
      /\ FramesOK(r, nodes')
  BY <1>1, BelowOK, ReplaceRoots DEF Holds
<1>3. g \in FrameRecord /\ g.res = NULL /\ g.pc = "start"
  BY FrameFields DEF Frame, FrameRecord, PCs, NULL
<1>4. stack' = Append(r, g)
  BY DEF Call
<1> HIDE DEF g, r
<1>5. FrameOK(g, nodes')
  BY <1>3 DEF FrameOK
<1>6. NULL \notin Roots(r) /\ Only(NULL) = {}
  BY DEF Roots, Only
<1>7. /\ Roots(stack') = Below(stack) \cup Only(x) /\ RootsOnce(stack')
      /\ FramesOK(stack', nodes')
  BY <1>2, <1>3, <1>4, <1>5, <1>6, AppendRoots
<1>8. calls' = <<>> /\ ret'.expr = NULL /\ NULL \notin Roots(stack')
  BY <1>1 DEF Call, Nothing, Roots
<1>9. Parted'
  BY <1>6, <1>7, <1>8, NoDoom DEF Parted, Holds
<1>10. RetOK'
  BY <1>8 DEF RetOK
<1> QED
  BY <1>7, <1>8, <1>9, <1>10, NoDoom DEF NodesInv, Holds

\* What is left of the stack after a return.
LEMMA ReturnedTo ==
  ASSUME IInv, NodesInv, NEW pc, At(pc), NEW x, Holds(nodes', nextId', x), stack' = Pop
  PROVE  /\ Roots(stack') = Below(stack) /\ RootsOnce(stack') /\ FramesOK(stack', nodes')
         /\ stack' = <<>> \/ Top'.pc \in Waiting
<1>1. /\ stack # <<>> /\ stack \in Seq(FrameRecord) /\ RootsOnce(stack)
      /\ Nested(stack, Len(tokens))
  BY AtNodes DEF IInv, StackInv, NodesInv
<1>2. /\ Roots(stack') = Below(stack) /\ RootsOnce(stack') /\ FramesOK(stack', nodes')
      /\ stack' # <<>> => /\ Len(stack) - 1 \in 1..Len(stack) - 1
                          /\ stack'[Len(stack')] = stack[Len(stack) - 1]
  BY <1>1, BelowOK, PopRoots DEF Pop
<1>3. stack' = <<>> \/ Top'.pc \in Waiting
  BY <1>1, <1>2 DEF Nested, Top
<1> QED
  BY <1>2, <1>3

\* Return.
LEMMA ReturnNodes ==
  ASSUME IInv, NodesInv, NEW pc, At(pc), NEW x, Holds(nodes', nextId', x),
         NEW p, Return(x, p)
  PROVE  NodesInv'
<1>1. calls = <<>> /\ calls' = calls /\ stack' = Pop /\ ret' = [expr |-> x, error |-> FALSE]
  BY AtNodes DEF Return
<1>2. /\ Roots(stack') = Below(stack) /\ RootsOnce(stack') /\ FramesOK(stack', nodes')
      /\ stack' = <<>> \/ Top'.pc \in Waiting
  BY <1>1, ReturnedTo
<1>3. calls' = <<>> /\ ret'.expr = x /\ ret'.error = FALSE
  BY <1>1
<1>4. Parted'
  BY <1>2, <1>3, NoDoom DEF Parted, Holds
<1>5. RetOK'
  BY <1>2, <1>3 DEF RetOK
<1> QED
  BY <1>2, <1>3, <1>4, <1>5, NoDoom DEF NodesInv, Holds

\* Its result is destroyed, and nothing returned.
LEMMA DropNodes ==
  ASSUME IInv, NodesInv, NEW pc, At(pc), NEW x \in Nat, Holds(nodes', nextId', x),
         stack' = Pop, calls' = Calls("destroy", <<x>>), ret'.expr = NULL
  PROVE  NodesInv'
<1>1. /\ Roots(stack') = Below(stack) /\ RootsOnce(stack') /\ FramesOK(stack', nodes')
      /\ stack' = <<>> \/ Top'.pc \in Waiting
  BY ReturnedTo
<1>2. Uniform(calls') /\ DoomedOnce(calls') /\ Doomed(calls') = Only(x)
  BY OneDoom
<1>3. NULL \notin Below(stack) /\ NULL \notin Only(x) /\ Only(NULL) = {}
  BY DEF Below, Only
<1>4. Below(stack) \cap Only(x) = {}
  BY DEF Holds, Only
<1>5. Parted'
  BY <1>1, <1>2, <1>3, <1>4 DEF Parted, Holds
<1>6. RetOK'
  BY DEF RetOK
<1> QED
  BY <1>1, <1>2, <1>5, <1>6 DEF NodesInv, Holds

\* Fail and FailAgain.
LEMMA FailNodes ==
  ASSUME IInv, NodesInv, NEW pc, At(pc), NEW x \in Nat, Holds(nodes', nextId', x),
         Fail(x) \/ FailAgain(x)
  PROVE  NodesInv'
<1>1. /\ stack' = Pop /\ calls' = Calls("destroy", <<x>>)
      /\ ret' = [expr |-> NULL, error |-> TRUE]
  BY DEF Fail, FailAgain, Abort
<1>2. ret'.expr = NULL
  BY <1>1
<1> QED
  BY <1>1, <1>2, DropNodes

\* The program dies, or a step leaves the pointers between nodes alone.
LEMMA SameNodes ==
  ASSUME NodesInv, UNCHANGED <<stack, ret, calls, nextId>>, DOMAIN nodes' = DOMAIN nodes,
         \A m \in DOMAIN nodes :
           /\ nodes'[m].left = nodes[m].left /\ nodes'[m].right = nodes[m].right
           /\ nodes'[m].items = nodes[m].items /\ nodes'[m].type = nodes[m].type
  PROVE  NodesInv'
<1>1. Forest(nodes') /\ Kids(nodes') = Kids(nodes)
  BY SameForest DEF NodesInv
<1>2. Parted'
  BY <1>1 DEF NodesInv, Parted
<1>3. ASSUME NEW d \in 1..Len(stack) PROVE FrameOK(stack[d], nodes')
  <2>1. FrameOK(stack[d], nodes)
    BY DEF NodesInv, FramesOK
  <2>2. stack[d].res = NULL \/ stack[d].res \in DOMAIN nodes
    <3>1. stack[d].res = NULL \/ stack[d].res \in Roots(stack)
      BY DEF Roots
    <3> QED
      BY <3>1 DEF NodesInv, Parted
  <2>3. stack[d].pc = "declName" => stack[d].res # NULL
    BY <2>1 DEF FrameOK
  <2> QED
    BY <2>1, <2>2, <2>3 DEF FrameOK
<1>4. FramesOK(stack', nodes')
  BY <1>3 DEF FramesOK
<1>5. RetOK'
  BY DEF NodesInv, RetOK, Top
<1> QED
  BY <1>1, <1>2, <1>4, <1>5 DEF NodesInv, Small

LEMMA CrashNodes ==
  ASSUME NodesInv, NEW site, Crash(site), UNCHANGED <<nodes, nextId>>
  PROVE  NodesInv'
BY SameNodes DEF Crash

-----------------------------------------------------------------------------
(* Pieces of the actions.                                                  *)

\* A new node, with no other below it.
LEMMA FreshNode ==
  \A type, at, own :
    LET x == Node(type, at, own)
    IN  /\ x.type = type /\ x.left = NULL /\ x.right = NULL /\ x.items = <<>>
        /\ KidsOf(x) = {}
<1> SUFFICES ASSUME NEW type, NEW at, NEW own
             PROVE  LET x == Node(type, at, own)
                    IN  /\ x.type = type /\ x.left = NULL /\ x.right = NULL
                        /\ x.items = <<>> /\ KidsOf(x) = {}
  OBVIOUS
<1> DEFINE x == Node(type, at, own)
<1>1. x.type = type /\ x.left = NULL /\ x.right = NULL /\ x.items = <<>>
  BY DEF Node
<1> HIDE DEF x
<1>2. KidsOf(x) = {}
  BY <1>1, NoKids
<1> QED
  BY <1>1, <1>2 DEF x

LEMMA AddedNode ==
  ASSUME NEW ns, NEW rec, New(ns, rec), nextId \notin DOMAIN ns
  PROVE  /\ DOMAIN nodes' = DOMAIN ns \cup {nextId} /\ nodes'[nextId] = rec
         /\ \A m \in DOMAIN ns : nodes'[m] = ns[m]
         /\ nextId' = nextId + 1
BY DEF New, With

\* The call on top, that has no result yet, gets a new node for it.
LEMMA FirstNode ==
  ASSUME IInv, NodesInv, NEW pc, At(pc), Top.res = NULL, ret.expr = NULL,
         NEW rec, KidsOf(rec) = {}, New(nodes, rec)
  PROVE  Holds(nodes', nextId', nextId) /\ nodes'[nextId] = rec /\ nextId \in Nat \ {NULL}
<1>1. /\ DOMAIN nodes' = DOMAIN nodes \cup {nextId} /\ nodes'[nextId] = rec
      /\ \A m \in DOMAIN nodes : nodes'[m] = nodes[m]
      /\ nextId' = nextId + 1
  BY AtNodes, AddedNode
<1>2. Holds(nodes, nextId, NULL) /\ nextId \in Nat \ {NULL} /\ DOMAIN nodes \subseteq Nat
  BY HoldsTop DEF IInv, NodeInv, NodesTyped
<1> QED
  BY <1>1, <1>2, HoldsLeaf

\* It fails or returns.
LEMMA EndsNodes ==
  ASSUME IInv, NodesInv, NEW pc, At(pc), NEW x \in Nat, Holds(nodes', nextId', x),
         Fail(x) \/ FailAgain(x) \/ \E p : Return(x, p)
  PROVE  NodesInv'
BY FailNodes, ReturnNodes

\* It goes on, or calls, at another point.
LEMMA GoesNodes ==
  ASSUME IInv, NodesInv, NEW pc, At(pc), NEW x \in Nat, Holds(nodes', nextId', x),
         NEW pd \in PCs, \A f : f.pc = pd /\ f.res = x => FrameOK(f, nodes'),
         \E p : \/ Continue([Top EXCEPT !.pc = pd, !.res = x], p)
                \/ Call([Top EXCEPT !.pc = pd, !.res = x], p)
                \/ x = Top.res /\ Continue([Top EXCEPT !.pc = pd], p)
                \/ x = Top.res /\ Call([Top EXCEPT !.pc = pd], p)
  PROVE  NodesInv'
<1>1. Top \in FrameRecord
  BY AtNodes
<1>2. /\ [Top EXCEPT !.pc = pd, !.res = x] \in FrameRecord
      /\ [Top EXCEPT !.pc = pd, !.res = x].pc = pd
      /\ [Top EXCEPT !.pc = pd, !.res = x].res = x
      /\ [Top EXCEPT !.pc = pd] \in FrameRecord
      /\ [Top EXCEPT !.pc = pd].pc = pd
      /\ [Top EXCEPT !.pc = pd].res = Top.res
  BY <1>1 DEF FrameRecord
<1>3. CASE \E p : \/ Continue([Top EXCEPT !.pc = pd, !.res = x], p)
                  \/ Call([Top EXCEPT !.pc = pd, !.res = x], p)
  BY <1>2, <1>3, ContinueNodes, CallNodes
<1>4. CASE x = Top.res /\ \E p : \/ Continue([Top EXCEPT !.pc = pd], p)
                                 \/ Call([Top EXCEPT !.pc = pd], p)
  BY <1>2, <1>4, ContinueNodes, CallNodes
<1> QED
  BY <1>3, <1>4

LEMMA ThenNextNodes ==
  ASSUME IInv, NodesInv, NEW pc, At(pc), NEW x \in Nat, Holds(nodes', nextId', x),
         NEW p, ThenNext(x, p)
  PROVE  NodesInv'
<1>1. \A f : f.pc = "next" => FrameOK(f, nodes')
  BY DEF FrameOK
<1>2. CASE Return(x, p)
  BY <1>2, EndsNodes
<1>3. CASE Continue([Top EXCEPT !.pc = "next", !.res = x], p)
  BY <1>1, <1>3, GoesNodes, Points
<1> QED
  BY <1>2, <1>3 DEF ThenNext

\* It changes no node and does one of these things.
LEMMA KeepsNodes ==
  ASSUME IInv, NodesInv, NEW pc, At(pc), UNCHANGED heap,
         \/ \E site : Crash(site)
         \/ /\ ret.expr = NULL
            /\ Fail(Top.res) \/ FailAgain(Top.res) \/ \E p : Return(Top.res, p)
  PROVE  NodesInv'
<1>1. UNCHANGED <<nodes, nextId>> /\ Top.res \in Nat
  BY AtNodes DEF heap
<1>2. CASE \E site : Crash(site)
  BY <1>1, <1>2, CrashNodes
<1>3. CASE /\ ret.expr = NULL
           /\ Fail(Top.res) \/ FailAgain(Top.res) \/ \E p : Return(Top.res, p)
  <2>1. Holds(nodes', nextId', Top.res)
    BY <1>1, <1>3, HoldsTop
  <2> QED
    BY <1>1, <1>3, <2>1, EndsNodes
<1> QED
  BY <1>2, <1>3

\* It changes no node and goes on at another point, which asks no more of the result.
LEMMA WalksNodes ==
  ASSUME IInv, NodesInv, NEW pc, At(pc), UNCHANGED heap, ret.expr = NULL, NEW pd \in PCs,
         \A f : f.pc = pd /\ f.res = Top.res /\ FrameOK(Top, nodes) => FrameOK(f, nodes),
         \E p : Continue([Top EXCEPT !.pc = pd], p) \/ Call([Top EXCEPT !.pc = pd], p)
  PROVE  NodesInv'
<1>1. nodes' = nodes /\ nextId' = nextId /\ Top.res \in Nat /\ FrameOK(Top, nodes)
  BY AtNodes DEF heap
<1>2. Holds(nodes', nextId', Top.res)
  BY <1>1, HoldsTop
<1>3. \A f : f.pc = pd /\ f.res = Top.res => FrameOK(f, nodes')
  BY <1>1
<1> QED
  BY <1>1, <1>2, <1>3, GoesNodes

-----------------------------------------------------------------------------
(* The actions.                                                            *)

\* At the beginning of ast_parse_expr.
LEMMA AtStart ==
  ASSUME IInv, NodesInv, At("start")
  PROVE  Top.res = NULL /\ ret.expr = NULL
<1>1. FrameOK(Top, nodes) /\ Top.pc = "start"
  BY AtNodes
<1>2. ret.expr = NULL
  BY AtNodes, Points
<1> QED
  BY <1>1, <1>2 DEF FrameOK

\* DeclStart.
LEMMA DeclStartNodes == IInv /\ NodesInv /\ DeclStart => NodesInv'
<1> SUFFICES ASSUME IInv, NodesInv, DeclStart PROVE NodesInv'
  OBVIOUS
<1>0. At("start")
  BY DEF DeclStart
<1>1. Top.res = NULL /\ ret.expr = NULL
  BY <1>0, AtStart
<1>2. CASE Fail(NULL) /\ UNCHANGED heap
  BY <1>0, <1>1, <1>2, KeepsNodes
<1>3. CASE /\ New(nodes, Node("decl", pos, {}))
           /\ Continue([Top EXCEPT !.pc = "declName", !.res = nextId], pos + 1)
  <2> DEFINE x == Node("decl", pos, {})
  <2>1. x.type = "decl" /\ x.left = NULL /\ x.right = NULL /\ KidsOf(x) = {}
    BY FreshNode
  <2> HIDE DEF x
  <2>2. Holds(nodes', nextId', nextId) /\ nodes'[nextId] = x /\ nextId \in Nat \ {NULL}
    BY <1>0, <1>1, <1>3, <2>1, FirstNode DEF x
  <2>3. \A f : f.pc = "declName" /\ f.res = nextId => FrameOK(f, nodes')
    BY <2>1, <2>2 DEF FrameOK
  <2> QED
    BY <1>0, <1>3, <2>2, <2>3, GoesNodes DEF PCs
<1> QED
  BY <1>2, <1>3 DEF DeclStart

\* DeclName.
LEMMA DeclNameNodes == IInv /\ NodesInv /\ DeclName => NodesInv'
<1> SUFFICES ASSUME IInv, NodesInv, DeclName PROVE NodesInv'
  OBVIOUS
<1>0. At("declName")
  BY DEF DeclName
<1>1. /\ ret.expr = NULL /\ Top.res \in Nat \ {NULL} /\ Top.res \in DOMAIN nodes
      /\ nodes[Top.res] \in NodeRecord /\ nodes[Top.res].type = "decl"
      /\ nodes[Top.res].left = NULL /\ nodes[Top.res].right = NULL
      /\ nextId \in Nat \ {NULL} /\ DOMAIN nodes \subseteq Nat /\ nextId \notin DOMAIN nodes
  <2>1. FrameOK(Top, nodes) /\ Top.pc = "declName" /\ Top.res \in DOMAIN nodes \cup {NULL}
    BY <1>0, AtNodes
  <2>2. ret.expr = NULL
    BY <1>0, AtNodes, Points
  <2> QED
    BY <1>0, <2>1, <2>2, AtNodes DEF FrameOK, IInv, NodeInv, NodesTyped
<1>2. CASE UNCHANGED heap /\ (Crash("name_printed") \/ Fail(Top.res))
  BY <1>0, <1>1, <1>2, KeepsNodes
<1>3. CASE /\ New([nodes EXCEPT ![Top.res].left = nextId], Node("string", pos, {ptr[pos]}))
           /\ Fail(Top.res) \/ Continue([Top EXCEPT !.pc = "declMark"], pos + 1)
  <2> DEFINE ns == [nodes EXCEPT ![Top.res].left = nextId]
             x == Node("string", pos, {ptr[pos]})
  <2>1. /\ DOMAIN ns = DOMAIN nodes /\ \A m \in DOMAIN nodes : m # Top.res => ns[m] = nodes[m]
        /\ ns[Top.res] = [nodes[Top.res] EXCEPT !.left = nextId]
    BY <1>1
  <2>2. KidsOf(x) = {}
    BY FreshNode
  <2> HIDE DEF ns, x
  <2>3. /\ DOMAIN nodes' = DOMAIN nodes \cup {nextId} /\ nodes'[nextId] = x
        /\ \A m \in DOMAIN nodes : nodes'[m] = ns[m]
        /\ nextId' = nextId + 1
    <3>1. New(ns, x) /\ nextId \notin DOMAIN ns
      BY <1>1, <1>3, <2>1 DEF ns, x
    <3> QED
      BY <2>1, <3>1, AddedNode
  <2>4. Puts(nodes[Top.res], nodes'[Top.res], nextId)
    <3>1. nodes'[Top.res] = [nodes[Top.res] EXCEPT !.left = nextId]
      BY <1>1, <2>1, <2>3
    <3> QED
      BY <1>1, <3>1, PutsOne
  <2>5. Holds(nodes, nextId, Top.res)
    BY <1>0, <1>1, HoldsTop
  <2>6. Holds(nodes', nextId', Top.res)
    <3>1. /\ KidsOf(nodes'[nextId]) = {}
          /\ \A m \in DOMAIN nodes : m # Top.res => nodes'[m] = nodes[m]
      BY <2>1, <2>2, <2>3
    <3>2. Holds(nodes', nextId + 1, Top.res)
      BY <1>1, <2>3, <2>4, <2>5, <3>1, HoldsNewBelow
    <3> QED
      BY <2>3, <3>2
  <2>7. nodes'[Top.res].type = "decl" /\ nodes'[Top.res].right = NULL
    <3>1. nodes'[Top.res] = [nodes[Top.res] EXCEPT !.left = nextId]
      BY <1>1, <2>1, <2>3
    <3> QED
      BY <1>1, <3>1 DEF NodeRecord
  <2>8. \A f : f.pc = "declMark" /\ f.res = Top.res => FrameOK(f, nodes')
    BY <1>1, <2>7 DEF FrameOK
  <2> QED
    <3>1. CASE Fail(Top.res)
      BY <1>0, <1>1, <2>6, <3>1, FailNodes
    <3>2. CASE Continue([Top EXCEPT !.pc = "declMark"], pos + 1)
      <4>1. "declMark" \in PCs /\ \E p : Continue([Top EXCEPT !.pc = "declMark"], p)
        BY <3>2 DEF PCs
      <4> QED
        BY <1>0, <1>1, <2>6, <2>8, <4>1, GoesNodes
    <3> QED
      BY <1>3, <3>1, <3>2
<1> QED
  BY <1>2, <1>3 DEF DeclName

\* The points between the name of a declaration and its value.
LEMMA AtDecl ==
  ASSUME IInv, NodesInv, NEW pc \in {"declMark", "declType", "declAssign"}, At(pc)
  PROVE  /\ ret.expr = NULL /\ Top.pc = pc /\ Top.res \in DOMAIN nodes /\ Top.res \in Nat \ {NULL}
         /\ nodes[Top.res].type = "decl" /\ nodes[Top.res].right = NULL
<1>1. pc \notin Waiting
  BY DEF Waiting
<1>2. /\ FrameOK(Top, nodes) /\ Top.pc = pc /\ Top.res \in DOMAIN nodes \cup {NULL}
      /\ ret.expr = NULL /\ Top.res \in Nat
  BY <1>1, AtNodes
<1> QED
  BY <1>2 DEF FrameOK

\* DeclMark.
LEMMA DeclMarkNodes == IInv /\ NodesInv /\ DeclMark => NodesInv'
<1> SUFFICES ASSUME IInv, NodesInv, DeclMark PROVE NodesInv'
  OBVIOUS
<1>0. At("declMark") /\ UNCHANGED heap
  BY DEF DeclMark
<1>1. /\ ret.expr = NULL /\ Top.res \in Nat \ {NULL}
      /\ nodes[Top.res].type = "decl" /\ nodes[Top.res].right = NULL
  BY <1>0, AtDecl
<1>2. CASE Fail(Top.res)
  BY <1>0, <1>1, <1>2, KeepsNodes
<1>3. ASSUME NEW pd \in {"declType", "declAssign"}, NEW p, Continue([Top EXCEPT !.pc = pd], p)
      PROVE  NodesInv'
  <2>1. pd \in PCs
    BY DEF PCs
  <2>2. \A f : f.pc = pd /\ f.res = Top.res => FrameOK(f, nodes)
    BY <1>1 DEF FrameOK
  <2> QED
    BY <1>0, <1>1, <1>3, <2>1, <2>2, WalksNodes
<1> QED
  BY <1>2, <1>3 DEF DeclMark

\* A node gets pointers to strings.
LEMMA GivenNodes ==
  ASSUME IInv, NodesInv, NEW pc, At(pc), ret.expr = NULL, Top.res \in DOMAIN nodes,
         NEW S, nodes' = Give(Top.res, S), UNCHANGED nextId
  PROVE  /\ Holds(nodes', nextId', Top.res) /\ DOMAIN nodes' = DOMAIN nodes
         /\ \A m \in DOMAIN nodes :
              /\ nodes'[m].left = nodes[m].left /\ nodes'[m].right = nodes[m].right
              /\ nodes'[m].items = nodes[m].items /\ nodes'[m].type = nodes[m].type
<1>1. \A m \in DOMAIN nodes : nodes[m] \in NodeRecord
  BY DEF IInv, NodeInv, NodesTyped
<1>2. /\ DOMAIN nodes' = DOMAIN nodes /\ \A m \in DOMAIN nodes : m # Top.res => nodes'[m] = nodes[m]
      /\ nodes'[Top.res] = [nodes[Top.res] EXCEPT !.own = @ \cup (S \ {NULL})]
  BY DEF Give
<1>3. \A m \in DOMAIN nodes :
        /\ nodes'[m].left = nodes[m].left /\ nodes'[m].right = nodes[m].right
        /\ nodes'[m].items = nodes[m].items /\ nodes'[m].type = nodes[m].type
  <2>1. /\ nodes'[Top.res].left = nodes[Top.res].left
        /\ nodes'[Top.res].right = nodes[Top.res].right
        /\ nodes'[Top.res].items = nodes[Top.res].items
        /\ nodes'[Top.res].type = nodes[Top.res].type
    BY <1>1, <1>2 DEF NodeRecord
  <2> QED
    BY <1>2, <2>1
<1>4. Holds(nodes, nextId, Top.res) /\ NULL \notin Below(stack)
  BY HoldsTop, AtNodes
<1>5. Holds(nodes', nextId, Top.res)
  BY <1>2, <1>3, <1>4, HoldsLike
<1> QED
  BY <1>2, <1>3, <1>5

\* DeclType.
LEMMA DeclTypeNodes == IInv /\ NodesInv /\ DeclType => NodesInv'
<1> SUFFICES ASSUME IInv, NodesInv, DeclType PROVE NodesInv'
  OBVIOUS
<1>0. At("declType")
  BY DEF DeclType
<1>1. /\ ret.expr = NULL /\ Top.res \in Nat \ {NULL} /\ Top.res \in DOMAIN nodes
      /\ nodes[Top.res].type = "decl" /\ nodes[Top.res].right = NULL
  BY <1>0, AtDecl
<1>2. CASE Crash("type_read") /\ UNCHANGED heap
  BY <1>0, <1>1, <1>2, KeepsNodes
<1>3. CASE /\ nodes' = Give(Top.res, {ptr[pos]}) /\ UNCHANGED nextId
           /\ \/ Fail(Top.res) \/ Return(Top.res, pos + 1)
              \/ Continue([Top EXCEPT !.pc = "declAssign"], pos + 1)
  <2>1. /\ Holds(nodes', nextId', Top.res)
        /\ nodes'[Top.res].type = "decl" /\ nodes'[Top.res].right = NULL
    BY <1>0, <1>1, <1>3, GivenNodes
  <2>2. \A f : f.pc = "declAssign" /\ f.res = Top.res => FrameOK(f, nodes')
    BY <1>1, <2>1 DEF FrameOK
  <2> QED
    BY <1>0, <1>1, <1>3, <2>1, <2>2, EndsNodes, GoesNodes DEF PCs
<1> QED
  BY <1>2, <1>3 DEF DeclType

\* DeclAssign.
LEMMA DeclAssignNodes == IInv /\ NodesInv /\ DeclAssign => NodesInv'
<1> SUFFICES ASSUME IInv, NodesInv, DeclAssign PROVE NodesInv'
  OBVIOUS
<1>0. At("declAssign") /\ UNCHANGED heap
  BY DEF DeclAssign
<1>1. /\ ret.expr = NULL /\ Top.res \in Nat \ {NULL}
      /\ nodes[Top.res].type = "decl" /\ nodes[Top.res].right = NULL
  BY <1>0, AtDecl
<1>2. CASE Fail(Top.res) \/ Crash("assign_printed")
  BY <1>0, <1>1, <1>2, KeepsNodes
<1>3. CASE Call([Top EXCEPT !.pc = "declValue"], pos + 1)
  <2>1. \A f : f.pc = "declValue" /\ f.res = Top.res => FrameOK(f, nodes)
    BY <1>1 DEF FrameOK
  <2> QED
    BY <1>0, <1>1, <1>3, <2>1, WalksNodes DEF PCs
<1> QED
  BY <1>2, <1>3 DEF DeclAssign

\* The answer becomes the right operand, or the value.
LEMMA AnsweredRight ==
  ASSUME IInv, NodesInv, NEW pc \in {"declValue", "operand"}, At(pc),
         nodes' = [nodes EXCEPT ![Top.res].right = ret.expr], UNCHANGED nextId
  PROVE  Holds(nodes', nextId', Top.res) /\ Top.res \in Nat \ {NULL}
<1>1. /\ FrameOK(Top, nodes) /\ Top.pc = pc /\ Top.res \in DOMAIN nodes \cup {NULL}
      /\ Top.res \in Nat /\ ret.expr \in Nat
  BY AtNodes
<1>2. /\ Top.res # NULL /\ Top.res \in DOMAIN nodes
      /\ nodes[Top.res] \in NodeRecord /\ nodes[Top.res].right = NULL
  BY <1>1 DEF FrameOK, IInv, NodeInv, NodesTyped
<1>3. /\ DOMAIN nodes' = DOMAIN nodes /\ \A m \in DOMAIN nodes : m # Top.res => nodes'[m] = nodes[m]
      /\ nodes'[Top.res] = [nodes[Top.res] EXCEPT !.right = ret.expr]
  BY <1>2
<1>4. Puts(nodes[Top.res], nodes'[Top.res], ret.expr)
  BY <1>1, <1>2, <1>3, PutsOne
<1>5. Holds(nodes', nextId, Top.res)
  BY <1>2, <1>3, <1>4, HoldsAnswer
<1> QED
  BY <1>1, <1>2, <1>5

\* DeclValue.
LEMMA DeclValueNodes == IInv /\ NodesInv /\ DeclValue => NodesInv'
<1> SUFFICES ASSUME IInv, NodesInv, DeclValue PROVE NodesInv'
  OBVIOUS
<1>1. At("declValue") /\ (FailAgain(Top.res) \/ Fail(Top.res) \/ Return(Top.res, pos))
  BY DEF DeclValue
<1>2. Holds(nodes', nextId', Top.res) /\ Top.res \in Nat
  BY AnsweredRight DEF DeclValue
<1> QED
  BY <1>1, <1>2, EndsNodes

\* SkipToken, RejectToken.
LEMMA SkipTokenNodes == IInv /\ NodesInv /\ SkipToken => NodesInv'
<1> SUFFICES ASSUME IInv, NodesInv, SkipToken PROVE NodesInv'
  OBVIOUS
<1>1. At("start") /\ UNCHANGED heap /\ Return(NULL, pos + 1)
  BY DEF SkipToken
<1>2. Top.res = NULL /\ ret.expr = NULL
  BY <1>1, AtStart
<1> QED
  BY <1>1, <1>2, KeepsNodes

LEMMA RejectTokenNodes == IInv /\ NodesInv /\ RejectToken => NodesInv'
<1> SUFFICES ASSUME IInv, NodesInv, RejectToken PROVE NodesInv'
  OBVIOUS
<1>1. At("start") /\ UNCHANGED heap /\ Fail(NULL)
  BY DEF RejectToken
<1>2. Top.res = NULL /\ ret.expr = NULL
  BY <1>1, AtStart
<1> QED
  BY <1>1, <1>2, KeepsNodes

\* A call that goes on at the label next asks nothing of its result.
LEMMA NextOK == \A f, ns : f.pc = "next" => FrameOK(f, ns)
BY DEF FrameOK

\* Variable.
LEMMA VariableNodes == IInv /\ NodesInv /\ Variable => NodesInv'
<1> SUFFICES ASSUME IInv, NodesInv, Variable PROVE NodesInv'
  OBVIOUS
<1> DEFINE x == Node("var", pos, {ptr[pos]})
<1>1. /\ At("start") /\ New(nodes, x)
      /\ \/ Return(nextId, pos + 1)
         \/ Continue([Top EXCEPT !.pc = "next", !.res = nextId], pos + 1)
         \/ Fail(nextId)
  BY DEF Variable
<1>2. KidsOf(x) = {}
  BY FreshNode
<1> HIDE DEF x
<1>3. Holds(nodes', nextId', nextId) /\ nextId \in Nat \ {NULL}
  BY <1>1, <1>2, AtStart, FirstNode
<1>4. CASE Return(nextId, pos + 1) \/ Fail(nextId)
  BY <1>1, <1>3, <1>4, FailNodes, ReturnNodes
<1>5. CASE Continue([Top EXCEPT !.pc = "next", !.res = nextId], pos + 1)
  <2>1. "next" \in PCs /\ \E p : Continue([Top EXCEPT !.pc = "next", !.res = nextId], p)
    BY <1>5 DEF PCs
  <2> QED
    BY <1>1, <1>3, <2>1, NextOK, GoesNodes
<1> QED
  BY <1>1, <1>4, <1>5

\* Literal.
LEMMA LiteralNodes == IInv /\ NodesInv /\ Literal => NodesInv'
<1> SUFFICES ASSUME IInv, NodesInv, Literal PROVE NodesInv'
  OBVIOUS
<1> DEFINE x == Node(Token, pos, IF Token = "string" THEN {ptr[pos]} ELSE {})
<1>1. At("start") /\ New(nodes, x) /\ ThenNext(nextId, pos + 1)
  BY DEF Literal
<1>2. KidsOf(x) = {}
  BY FreshNode
<1> HIDE DEF x
<1>3. Holds(nodes', nextId', nextId) /\ nextId \in Nat \ {NULL}
  BY <1>1, <1>2, AtStart, FirstNode
<1> QED
  BY <1>1, <1>3, ThenNextNodes

\* ParenOpen.
LEMMA ParenOpenNodes == IInv /\ NodesInv /\ ParenOpen => NodesInv'
<1> SUFFICES ASSUME IInv, NodesInv, ParenOpen PROVE NodesInv'
  OBVIOUS
<1> DEFINE q == NextToken(pos + 1, Top.hi)
<1>1. /\ At("start") /\ UNCHANGED heap
      /\ Fail(NULL) \/ ThenNext(NULL, q + 1) \/ Call([Top EXCEPT !.pc = "paren"], q)
  BY DEF ParenOpen
<1> HIDE DEF q
<1>2. Top.res = NULL /\ ret.expr = NULL /\ NULL \in Nat
  BY <1>1, AtStart DEF NULL
<1>3. Holds(nodes', nextId', NULL)
  <2>1. Holds(nodes, nextId, NULL)
    BY <1>1, <1>2, HoldsTop
  <2> QED
    BY <1>1, <2>1 DEF heap
<1>4. CASE Fail(NULL)
  BY <1>1, <1>2, <1>3, <1>4, FailNodes
<1>5. CASE ThenNext(NULL, q + 1)
  BY <1>1, <1>2, <1>3, <1>5, ThenNextNodes
<1>6. CASE Call([Top EXCEPT !.pc = "paren"], q)
  <2>1. \A f : f.pc = "paren" /\ f.res = Top.res /\ FrameOK(Top, nodes) => FrameOK(f, nodes)
    BY <1>2 DEF FrameOK
  <2>2. "paren" \in PCs /\ \E p : Call([Top EXCEPT !.pc = "paren"], p)
    BY <1>6 DEF PCs
  <2> QED
    BY <1>1, <1>2, <2>1, <2>2, WalksNodes
<1> QED
  BY <1>1, <1>4, <1>5, <1>6

\* ParenClose.
LEMMA ParenCloseNodes == IInv /\ NodesInv /\ ParenClose => NodesInv'
<1> SUFFICES ASSUME IInv, NodesInv, ParenClose PROVE NodesInv'
  OBVIOUS
<1> DEFINE q == NextToken(pos, Top.hi)
           w == nodes[ret.expr].type = "oper"
<1>0. At("paren") /\ UNCHANGED nextId
  BY DEF ParenClose
<1>1. /\ Top.res = NULL /\ ret.expr \in Nat /\ NULL \in Nat /\ NULL \notin Below(stack)
      /\ ret.expr \in DOMAIN nodes \cup {NULL} /\ (ret.error => ret.expr = NULL)
  <2>1. FrameOK(Top, nodes) /\ Top.pc = "paren"
    BY <1>0, AtNodes
  <2>2. Top.res = NULL
    BY <2>1 DEF FrameOK
  <2> QED
    BY <1>0, <2>2, AtNodes DEF NULL
<1>2. Holds(nodes, nextId, ret.expr)
  BY <1>0, <1>1, HoldsRet
<1>3. CASE ret.error /\ FailAgain(NULL) /\ UNCHANGED nodes
  <2>1. Holds(nodes', nextId', NULL)
    BY <1>0, <1>1, <1>2, <1>3
  <2> QED
    BY <1>0, <1>1, <1>3, <2>1, FailNodes
<1>4. CASE Crash("paren_value") /\ UNCHANGED nodes
  BY <1>0, <1>4, CrashNodes
<1>5. CASE /\ ret.expr # NULL /\ nodes' = [nodes EXCEPT ![ret.expr].wrapped = w]
           /\ \/ Crash("paren_close") \/ Fail(ret.expr)
              \/ ThenNext(ret.expr, q + 1)
  <2> HIDE DEF q, w
  <2>1. /\ DOMAIN nodes' = DOMAIN nodes /\ \A m \in DOMAIN nodes : nodes[m] \in NodeRecord
        /\ \A m \in DOMAIN nodes : m # ret.expr => nodes'[m] = nodes[m]
        /\ nodes'[ret.expr] = [nodes[ret.expr] EXCEPT !.wrapped = w]
    BY <1>1, <1>5 DEF IInv, NodeInv, NodesTyped
  <2>2. ASSUME NEW m \in DOMAIN nodes
        PROVE  /\ nodes'[m].left = nodes[m].left /\ nodes'[m].right = nodes[m].right
               /\ nodes'[m].items = nodes[m].items /\ nodes'[m].type = nodes[m].type
    <3>1. CASE m = ret.expr
      BY <2>1, <3>1 DEF NodeRecord
    <3>2. CASE m # ret.expr
      BY <2>1, <3>2
    <3> QED
      BY <3>1, <3>2
  <2>3. Holds(nodes', nextId', ret.expr)
    <3>1. Holds(nodes', nextId, ret.expr)
      BY <1>1, <1>2, <2>1, <2>2, HoldsLike
    <3> QED
      BY <1>0, <3>1
  <2>4. CASE Crash("paren_close")
    BY <1>0, <2>1, <2>2, <2>4, SameNodes DEF Crash
  <2>5. CASE Fail(ret.expr)
    BY <1>0, <1>1, <2>3, <2>5, FailNodes
  <2>6. CASE ThenNext(ret.expr, q + 1)
    BY <1>0, <1>1, <2>3, <2>6, ThenNextNodes
  <2> QED
    BY <1>5, <2>4, <2>5, <2>6
<1> QED
  BY <1>3, <1>4, <1>5 DEF ParenClose

\* NextLabel.
LEMMA NextLabelNodes == IInv /\ NodesInv /\ NextLabel => NodesInv'
<1> SUFFICES ASSUME IInv, NodesInv, NextLabel PROVE NodesInv'
  OBVIOUS
<1> DEFINE q == NextToken(pos + 1, Top.hi)
           leaf == [Node("oper", pos, {}) EXCEPT !.op = Token]
           rec == [Node("oper", pos, {}) EXCEPT !.op = Token, !.left = Top.res]
<1>0. At("next")
  BY DEF NextLabel
<1>1. /\ ret.expr = NULL /\ Top.res \in Nat /\ nextId \in Nat \ {NULL} /\ nextId \notin DOMAIN nodes
      /\ DOMAIN nodes \subseteq Nat /\ NULL \notin DOMAIN nodes
  <2>1. ret.expr = NULL
    BY <1>0, AtNodes, Points
  <2> QED
    BY <1>0, <2>1, AtNodes DEF IInv, NodeInv, NodesTyped
<1>2. CASE Return(Top.res, pos) /\ UNCHANGED heap
  BY <1>0, <1>1, <1>2, KeepsNodes
<1>3. CASE /\ New(nodes, rec)
           /\ Fail(nextId) \/ Call([Top EXCEPT !.pc = "operand", !.res = nextId], q)
  <2>1. /\ leaf.left = NULL /\ leaf.right = NULL /\ leaf.items = <<>>
        /\ rec.left = Top.res /\ rec.right = NULL /\ rec.items = <<>>
    BY DEF Node
  <2> HIDE DEF leaf, rec, q
  <2>2. KidsOf(leaf) = {}
    BY <2>1, NoKids
  <2>3. Puts(leaf, rec, Top.res)
    <3>1. Slots(rec) = Slots(leaf) /\ -1 \in Slots(rec) /\ Kid(rec, -1) = Top.res
          /\ Kid(leaf, -1) = NULL
      BY <2>1 DEF Slots, Kid
    <3>2. \A j \in Slots(leaf) : j # -1 => Kid(rec, j) = Kid(leaf, j)
      BY <2>1 DEF Kid
    <3> QED
      BY <3>1, <3>2 DEF Puts
  <2>4. /\ DOMAIN nodes' = DOMAIN nodes \cup {nextId} /\ nodes'[nextId] = rec
        /\ \A m \in DOMAIN nodes : nodes'[m] = nodes[m]
        /\ nextId' = nextId + 1
    BY <1>1, <1>3, AddedNode
  <2>5. Holds(nodes, nextId, Top.res)
    BY <1>0, <1>1, HoldsTop
  <2>6. Holds(nodes', nextId', nextId)
    <3>1. Holds(nodes', nextId + 1, nextId)
      BY <1>1, <2>2, <2>3, <2>4, <2>5, HoldsNewAbove
    <3> QED
      BY <2>4, <3>1
  <2>7. CASE Fail(nextId)
    BY <1>0, <1>1, <2>6, <2>7, FailNodes
  <2>8. CASE Call([Top EXCEPT !.pc = "operand", !.res = nextId], q)
    <3>1. \A f : f.pc = "operand" /\ f.res = nextId => FrameOK(f, nodes')
      BY <1>1, <2>1, <2>4 DEF FrameOK
    <3>2. "operand" \in PCs /\ \E p : Call([Top EXCEPT !.pc = "operand", !.res = nextId], p)
      BY <2>8 DEF PCs
    <3> QED
      BY <1>0, <1>1, <2>6, <3>1, <3>2, GoesNodes
  <2> QED
    BY <1>3, <2>7, <2>8
<1> QED
  BY <1>2, <1>3 DEF NextLabel

\* Operand.
LEMMA OperandNodes == IInv /\ NodesInv /\ Operand => NodesInv'
<1> SUFFICES ASSUME IInv, NodesInv, Operand PROVE NodesInv'
  OBVIOUS
<1>0. At("operand") /\ UNCHANGED nextId /\ nodes' = [nodes EXCEPT ![Top.res].right = ret.expr]
  BY DEF Operand
<1>1. Holds(nodes', nextId', Top.res) /\ Top.res \in Nat \ {NULL}
  BY <1>0, AnsweredRight
<1>2. CASE FailAgain(Top.res)
  BY <1>0, <1>1, <1>2, FailNodes
<1>3. CASE /\ stack' = [stack EXCEPT ![Len(stack)].pc = "settle"]
           /\ calls' = Calls("process_operation", <<Top.res>>)
           /\ ret' = Nothing
  <2> DEFINE f == [Top EXCEPT !.pc = "settle"]
  <2>1. /\ stack # <<>> /\ stack \in Seq(FrameRecord) /\ RootsOnce(stack)
        /\ Top \in FrameRecord
    BY <1>0, AtNodes DEF IInv, StackInv, NodesInv
  <2>2. f \in FrameRecord /\ f.pc = "settle" /\ f.res = Top.res
    BY <2>1, Points DEF FrameRecord
  <2>3. stack' = [stack EXCEPT ![Len(stack)] = f]
    BY <1>3 DEF Top
  <2> HIDE DEF f
  <2>4. FrameOK(f, nodes')
    BY <1>1, <2>2 DEF FrameOK
  <2>5. \A d \in 1..Len(stack) - 1 : FrameOK(stack[d], nodes')
    BY <1>0, <1>1, BelowOK
  <2>6. /\ Roots(stack') = Below(stack) \cup Only(Top.res) /\ RootsOnce(stack')
        /\ FramesOK(stack', nodes')
    <3>1. f.res \notin Below(stack)
      BY <1>1, <2>2 DEF Holds
    <3> QED
      BY <2>1, <2>2, <2>3, <2>4, <2>5, <3>1, ReplaceRoots
  <2>7. \A j \in 1..Len(calls') : calls'[j].fn # "destroy"
    <3>1. \A j \in DOMAIN calls' : calls'[j].fn = "process_operation"
      BY <1>3 DEF Calls
    <3>2. calls' \in Seq(CallRecord)
      BY <1>1, <1>3, OneNode, CallsTyped
    <3> QED
      BY <3>1, <3>2, LenProperties
  <2>8. Uniform(calls') /\ DoomedOnce(calls') /\ Doomed(calls') = {}
    BY <2>7, ProcessDoom
  <2>9. ret'.expr = NULL /\ NULL \notin Roots(stack') /\ Only(NULL) = {}
    BY <1>3 DEF Nothing, Roots, Only
  <2>10. Parted'
    BY <1>1, <2>6, <2>8, <2>9 DEF Parted, Holds
  <2>11. RetOK'
    BY <2>9 DEF RetOK
  <2> QED
    BY <1>1, <2>6, <2>8, <2>10, <2>11 DEF NodesInv, Holds
<1> QED
  BY <1>2, <1>3 DEF Operand

\* Settle.
LEMMA SettleNodes == IInv /\ NodesInv /\ Settle => NodesInv'
<1> SUFFICES ASSUME IInv, NodesInv, Settle PROVE NodesInv'
  OBVIOUS
<1>1. At("settle") /\ UNCHANGED heap /\ Return(Top.res, pos)
  BY DEF Settle
<1>2. "settle" \notin Waiting
  BY DEF Waiting
<1>3. ret.expr = NULL
  BY <1>1, <1>2, AtNodes
<1> QED
  BY <1>1, <1>3, KeepsNodes

\* FuncStart.
LEMMA FuncStartNodes == IInv /\ NodesInv /\ FuncStart => NodesInv'
<1> SUFFICES ASSUME IInv, NodesInv, FuncStart PROVE NodesInv'
  OBVIOUS
<1>0. At("start")
  BY DEF FuncStart
<1>1. Top.res = NULL /\ ret.expr = NULL
  BY <1>0, AtStart
<1>2. CASE Fail(NULL) /\ UNCHANGED heap
  BY <1>0, <1>1, <1>2, KeepsNodes
<1>3. CASE /\ New(nodes, Node("func", pos, {}))
           /\ Continue([Top EXCEPT !.pc = "funcName", !.res = nextId], pos + 1)
  <2> DEFINE x == Node("func", pos, {})
  <2>1. x.type = "func" /\ x.left = NULL /\ x.right = NULL /\ KidsOf(x) = {}
    BY FreshNode
  <2> HIDE DEF x
  <2>2. Holds(nodes', nextId', nextId) /\ nodes'[nextId] = x /\ nextId \in Nat \ {NULL}
    BY <1>0, <1>1, <1>3, <2>1, FirstNode DEF x
  <2>3. \A f : f.pc = "funcName" /\ f.res = nextId => FrameOK(f, nodes')
    BY <2>1, <2>2 DEF FrameOK
  <2> QED
    BY <1>0, <1>3, <2>2, <2>3, GoesNodes DEF PCs
<1> QED
  BY <1>2, <1>3 DEF FuncStart

\* The points between the keyword of a function and its scope.
LEMMA AtFunc ==
  ASSUME IInv, NodesInv, NEW pc \in {"funcName", "funcArgs", "scope"}, At(pc)
  PROVE  /\ ret.expr = NULL /\ Top.pc = pc /\ Top.res \in DOMAIN nodes /\ Top.res \in Nat \ {NULL}
         /\ nodes[Top.res].type = "func" /\ nodes[Top.res].left = NULL
<1>1. pc \notin Waiting
  BY DEF Waiting
<1>2. /\ FrameOK(Top, nodes) /\ Top.pc = pc /\ Top.res \in DOMAIN nodes \cup {NULL}
      /\ ret.expr = NULL /\ Top.res \in Nat
  BY <1>1, AtNodes
<1> QED
  BY <1>2 DEF FrameOK

\* They ask the same of a function.
LEMMA FuncOK ==
  ASSUME NEW n, n # NULL, NEW ns, ns[n].type = "func", ns[n].left = NULL
  PROVE  \A f : f.pc \in {"funcName", "funcArgs", "scope"} /\ f.res = n => FrameOK(f, ns)
BY DEF FrameOK

\* FuncName.
LEMMA FuncNameNodes == IInv /\ NodesInv /\ FuncName => NodesInv'
<1> SUFFICES ASSUME IInv, NodesInv, FuncName PROVE NodesInv'
  OBVIOUS
<1> DEFINE q == NextToken(pos + 2, Top.hi)
<1>0. At("funcName") /\ UNCHANGED nextId
  BY DEF FuncName
<1>1. /\ ret.expr = NULL /\ Top.res \in Nat \ {NULL} /\ Top.res \in DOMAIN nodes
      /\ nodes[Top.res].type = "func" /\ nodes[Top.res].left = NULL
  BY <1>0, AtFunc
<1>2. CASE Fail(Top.res) /\ UNCHANGED <<ptr, strings, nodes>>
  <2>1. UNCHANGED heap
    BY <1>0, <1>2 DEF heap
  <2> QED
    BY <1>0, <1>1, <1>2, <2>1, KeepsNodes
<1>3. CASE /\ nodes' = Give(Top.res, {ptr[pos]})
           /\ \/ Fail(Top.res) \/ Crash("args_end")
              \/ Continue([Top EXCEPT !.pc = "funcArgs"], q)
  <2> HIDE DEF q
  <2>1. /\ Holds(nodes', nextId', Top.res) /\ DOMAIN nodes' = DOMAIN nodes
        /\ \A m \in DOMAIN nodes :
             /\ nodes'[m].left = nodes[m].left /\ nodes'[m].right = nodes[m].right
             /\ nodes'[m].items = nodes[m].items /\ nodes'[m].type = nodes[m].type
    BY <1>0, <1>1, <1>3, GivenNodes
  <2>2. CASE Fail(Top.res)
    BY <1>0, <1>1, <2>1, <2>2, FailNodes
  <2>3. CASE Crash("args_end")
    BY <1>0, <2>1, <2>3, SameNodes DEF Crash
  <2>4. CASE Continue([Top EXCEPT !.pc = "funcArgs"], q)
    <3>1. \A f : f.pc = "funcArgs" /\ f.res = Top.res => FrameOK(f, nodes')
      BY <1>1, <2>1, FuncOK
    <3>2. "funcArgs" \in PCs /\ \E p : Continue([Top EXCEPT !.pc = "funcArgs"], p)
      BY <2>4 DEF PCs
    <3> QED
      BY <1>0, <1>1, <2>1, <3>1, <3>2, GoesNodes
  <2> QED
    BY <1>3, <2>2, <2>3, <2>4
<1> QED
  BY <1>2, <1>3 DEF FuncName

\* FuncArg.
LEMMA FuncArgNodes == IInv /\ NodesInv /\ FuncArg => NodesInv'
<1> SUFFICES ASSUME IInv, NodesInv, FuncArg PROVE NodesInv'
  OBVIOUS
<1> DEFINE q == NextToken(pos + 2, Top.hi)
           own == {ptr[k] : k \in IF LastToken THEN {pos} ELSE {pos, pos + 1}}
           ns == [nodes EXCEPT ![Top.res].items = Append(@, nextId)]
           x == Node("arg", pos, own)
<1>0. At("funcArgs")
  BY DEF FuncArg
<1>1. /\ ret.expr = NULL /\ Top.res \in Nat \ {NULL} /\ Top.res \in DOMAIN nodes
      /\ nodes[Top.res].type = "func" /\ nodes[Top.res].left = NULL
      /\ Top.pc = "funcArgs" /\ Top \in FrameRecord
  BY <1>0, AtFunc, AtNodes
<1>2. CASE Fail(Top.res) /\ UNCHANGED heap
  BY <1>0, <1>1, <1>2, KeepsNodes
<1>3. CASE /\ New(ns, x)
           /\ Fail(Top.res) \/ Continue(Top, q) \/ Continue(Top, q + 1)
  <2>0. /\ nextId \in Nat \ {NULL} /\ DOMAIN nodes \subseteq Nat /\ nextId \notin DOMAIN nodes
        /\ nodes[Top.res] \in NodeRecord
    BY <1>0, <1>1, AtNodes DEF IInv, NodeInv, NodesTyped
  <2>1. /\ DOMAIN ns = DOMAIN nodes /\ \A m \in DOMAIN nodes : m # Top.res => ns[m] = nodes[m]
        /\ ns[Top.res] = [nodes[Top.res] EXCEPT !.items = Append(@, nextId)]
    BY <1>1
  <2>2. KidsOf(x) = {}
    BY FreshNode
  <2> HIDE DEF ns, x, q
  <2>3. /\ DOMAIN nodes' = DOMAIN nodes \cup {nextId} /\ nodes'[nextId] = x
        /\ \A m \in DOMAIN nodes : nodes'[m] = ns[m]
        /\ nextId' = nextId + 1
    <3>1. New(ns, x) /\ nextId \notin DOMAIN ns
      BY <1>3, <2>0, <2>1
    <3> QED
      BY <2>1, <3>1, AddedNode
  <2>4. nodes'[Top.res] = [nodes[Top.res] EXCEPT !.items = Append(@, nextId)]
    BY <1>1, <2>1, <2>3
  <2>5. Puts(nodes[Top.res], nodes'[Top.res], nextId)
    BY <2>0, <2>4, PutsOne
  <2>6. Holds(nodes', nextId', Top.res)
    <3>1. Holds(nodes, nextId, Top.res)
      BY <1>0, <1>1, HoldsTop
    <3>2. /\ KidsOf(nodes'[nextId]) = {}
          /\ \A m \in DOMAIN nodes : m # Top.res => nodes'[m] = nodes[m]
      BY <2>1, <2>2, <2>3
    <3>3. Holds(nodes', nextId + 1, Top.res)
      BY <1>1, <2>0, <2>3, <2>5, <3>1, <3>2, HoldsNewBelow
    <3> QED
      BY <2>3, <3>3
  <2>7. nodes'[Top.res].type = "func" /\ nodes'[Top.res].left = NULL
    BY <1>1, <2>0, <2>4 DEF NodeRecord
  <2>8. FrameOK(Top, nodes')
    BY <1>1, <2>7, FuncOK
  <2> QED
    BY <1>0, <1>1, <1>3, <2>6, <2>8, FailNodes, ContinueNodes
<1>4. CASE Token \notin Identifiers \ Keywords
  BY <1>2, <1>4 DEF FuncArg
<1>5. CASE Token \in Identifiers \ Keywords
  <2>1. /\ New(ns, x)
        /\ Fail(Top.res) \/ Continue(Top, q) \/ Continue(Top, q + 1)
    BY <1>5 DEF FuncArg
  <2> QED
    BY <1>3, <2>1
<1> QED
  BY <1>4, <1>5

\* FuncReturn.
LEMMA FuncReturnNodes == IInv /\ NodesInv /\ FuncReturn => NodesInv'
<1> SUFFICES ASSUME IInv, NodesInv, FuncReturn PROVE NodesInv'
  OBVIOUS
<1>0. At("funcArgs") /\ UNCHANGED nextId
  BY DEF FuncReturn
<1>1. /\ ret.expr = NULL /\ Top.res \in Nat \ {NULL} /\ Top.res \in DOMAIN nodes
      /\ nodes[Top.res].type = "func" /\ nodes[Top.res].left = NULL
  BY <1>0, AtFunc
<1>2. CASE Fail(Top.res) /\ UNCHANGED <<ptr, strings, nodes>>
  <2>1. UNCHANGED heap
    BY <1>0, <1>2 DEF heap
  <2> QED
    BY <1>0, <1>1, <1>2, <2>1, KeepsNodes
<1>3. CASE /\ nodes' = Give(Top.res, {ptr[pos + 1]})
           /\ \/ Fail(Top.res) \/ Return(Top.res, pos + 2)
              \/ Continue([Top EXCEPT !.pc = "scope"], pos + 2)
  <2>1. /\ Holds(nodes', nextId', Top.res)
        /\ nodes'[Top.res].left = NULL /\ nodes'[Top.res].type = "func"
    BY <1>0, <1>1, <1>3, GivenNodes
  <2>2. CASE Fail(Top.res) \/ Return(Top.res, pos + 2)
    BY <1>0, <1>1, <2>1, <2>2, FailNodes, ReturnNodes
  <2>3. CASE Continue([Top EXCEPT !.pc = "scope"], pos + 2)
    <3>1. \A f : f.pc = "scope" /\ f.res = Top.res => FrameOK(f, nodes')
      BY <1>1, <2>1, FuncOK
    <3>2. "scope" \in PCs /\ \E p : Continue([Top EXCEPT !.pc = "scope"], p)
      BY <2>3 DEF PCs
    <3> QED
      BY <1>0, <1>1, <2>1, <3>1, <3>2, GoesNodes
  <2> QED
    BY <1>3, <2>2, <2>3
<1> QED
  BY <1>2, <1>3 DEF FuncReturn

\* A call does not notice a step that leaves its result alone.
LEMMA KeptOK ==
  ASSUME NEW f, NEW ns, FrameOK(f, ns), NEW t, f.res = NULL \/ t[f.res] = ns[f.res]
  PROVE  FrameOK(f, t)
<1>1. f.pc = "declName" => f.res # NULL
  BY DEF FrameOK
<1> QED
  BY <1>1 DEF FrameOK

\* ScopeOpen.
LEMMA ScopeOpenNodes == IInv /\ NodesInv /\ ScopeOpen => NodesInv'
<1> SUFFICES ASSUME IInv, NodesInv, ScopeOpen PROVE NodesInv'
  OBVIOUS
<1>0. PICK pc \in {"scope", "start"} : At(pc)
  BY DEF ScopeOpen
<1>1. pc \notin Waiting
  BY DEF Waiting
<1>2. /\ ret.expr = NULL /\ Top.res \in Nat /\ Top.res \in DOMAIN nodes \cup {NULL}
      /\ Top.res \notin Below(stack) /\ Top \in FrameRecord /\ Top.pc = pc
      /\ Below(stack) \subseteq DOMAIN nodes /\ NULL \notin Below(stack)
      /\ DOMAIN nodes \ Kids(nodes) = Below(stack) \cup Only(Top.res)
      /\ nextId \notin DOMAIN nodes /\ Forest(nodes) /\ Small(nodes, nextId)
      /\ FrameOK(Top, nodes) /\ \A d \in 1..Len(stack) - 1 : FrameOK(stack[d], nodes)
      /\ NULL \notin DOMAIN nodes
  BY <1>0, <1>1, AtNodes DEF Only
<1>3. CASE Fail(Top.res) /\ UNCHANGED heap
  BY <1>0, <1>2, <1>3, KeepsNodes
<1>4. ASSUME NEW q \in pos + 1..Top.hi,
             New(nodes, Node("body", pos, {})),
             stack' = Append([stack EXCEPT ![Len(stack)].pc = "scopeEnd",
                                           ![Len(stack)].close = q],
                             Frame("loop", FALSE, nextId, q - 1)),
             ret' = Nothing, UNCHANGED calls
      PROVE  NodesInv'
  <2> DEFINE f == [Top EXCEPT !.pc = "scopeEnd", !.close = q]
             g == Frame("loop", FALSE, nextId, q - 1)
             r == [stack EXCEPT ![Len(stack)] = f]
             x == Node("body", pos, {})
  <2>0. /\ StackInv /\ stack \in Seq(FrameRecord) /\ stack # <<>> /\ RootsOnce(stack)
        /\ calls = <<>> /\ nextId \in Nat \ {NULL} /\ Len(stack) \in Nat \ {0}
        /\ Top.hi \in Nat /\ pos \in Nat \ {0}
    BY <1>0, AtNodes, AtFacts, TopFacts DEF IInv, NodeInv, StackInv, NodesInv
  <2>1. q \in Nat /\ q - 1 \in Nat
    BY <2>0
  <2>2. /\ f \in FrameRecord /\ f.res = Top.res /\ f.pc = "scopeEnd"
        /\ g \in FrameRecord /\ g.res = nextId /\ g.pc = "loop"
    BY <1>2, <2>0, <2>1 DEF FrameRecord, Frame, PCs
  <2>3. stack' = Append(r, g)
    BY <1>4, <2>0 DEF Top
  <2>4. KidsOf(x) = {}
    BY FreshNode
  <2> HIDE DEF f, g, x
  <2>5. /\ DOMAIN nodes' = DOMAIN nodes \cup {nextId} /\ nodes'[nextId] = x
        /\ \A m \in DOMAIN nodes : nodes'[m] = nodes[m]
        /\ nextId' = nextId + 1
    BY <1>2, <1>4, AddedNode DEF x
  <2>6. Forest(nodes') /\ Kids(nodes') = Kids(nodes)
    BY <1>2, <2>4, <2>5, LeafForest
  <2>7. FrameOK(f, nodes')
    <3>1. f.res # NULL => Top.pc = "scope"
      BY <1>0, <1>2, <2>2 DEF FrameOK
    <3>2. f.res # NULL => nodes[f.res].type = "func" /\ nodes[f.res].left = NULL
      BY <1>2, <2>2, <3>1 DEF FrameOK
    <3>3. f.res # NULL => nodes'[f.res] = nodes[f.res]
      BY <1>2, <2>2, <2>5
    <3> QED
      BY <2>2, <3>2, <3>3 DEF FrameOK
  <2>8. FrameOK(g, nodes')
    BY <2>0, <2>2 DEF FrameOK
  <2>9. \A d \in 1..Len(stack) - 1 : FrameOK(stack[d], nodes')
    <3> SUFFICES ASSUME NEW d \in 1..Len(stack) - 1 PROVE FrameOK(stack[d], nodes')
      OBVIOUS
    <3>1. stack[d].res = NULL \/ stack[d].res \in Below(stack)
      BY DEF Below
    <3>2. stack[d].res = NULL \/ nodes'[stack[d].res] = nodes[stack[d].res]
      BY <1>2, <2>5, <3>1
    <3> QED
      BY <1>2, <3>2, KeptOK
  <2>10. /\ r \in Seq(FrameRecord) /\ Roots(r) = Below(stack) \cup Only(Top.res)
         /\ RootsOnce(r) /\ FramesOK(r, nodes')
    <3>1. f.res \notin Below(stack)
      BY <1>2, <2>2
    <3> QED
      BY <2>0, <2>2, <2>7, <2>9, <3>1, ReplaceRoots
  <2> HIDE DEF r
  <2>11. g.res \notin Roots(r)
    BY <1>2, <2>2, <2>10 DEF Only
  <2>12. /\ Roots(stack') = Roots(r) \cup Only(nextId) /\ RootsOnce(stack')
         /\ FramesOK(stack', nodes')
    BY <2>2, <2>3, <2>8, <2>10, <2>11, AppendRoots
  <2>13. nextId \notin Kids(nodes)
    BY <1>2 DEF Forest
  <2>14. calls' = <<>> /\ ret'.expr = NULL /\ NULL \notin Roots(stack') /\ Only(NULL) = {}
    BY <1>4, <2>0 DEF Nothing, Roots, Only
  <2>15. DOMAIN nodes' \ Kids(nodes') = Roots(stack')
    BY <1>2, <2>0, <2>5, <2>6, <2>10, <2>12, <2>13 DEF Only
  <2>16. Parted'
    BY <2>14, <2>15, NoDoom DEF Parted
  <2>17. RetOK'
    BY <2>14 DEF RetOK
  <2>18. Small(nodes', nextId')
    BY <1>2, <2>0, <2>5 DEF Small, IInv, NodeInv, NodesTyped
  <2> QED
    BY <2>6, <2>12, <2>14, <2>16, <2>17, <2>18, NoDoom DEF NodesInv
<1> QED
  BY <1>3, <1>4 DEF ScopeOpen, heap

\* A node with something at its left.
LEMMA PutsLeft ==
  ASSUME NEW x, NEW y, x.left = NULL, y.right = x.right, y.items = x.items
  PROVE  Puts(x, y, y.left)
<1>1. /\ Slots(y) = Slots(x) /\ -1 \in Slots(y) /\ Kid(y, -1) = y.left /\ Kid(x, -1) = NULL
      /\ \A j \in Slots(x) : j # -1 => Kid(y, j) = Kid(x, j)
  BY DEF Slots, Kid
<1> QED
  BY <1>1 DEF Puts

\* A scope takes what the call on top has been given, and goes below its function.
LEMMA HoldsScope ==
  ASSUME IInv, NodesInv, At("scopeEnd"), Top.res # NULL,
         NEW leaf, KidsOf(leaf) = {}, NEW rec, Puts(leaf, rec, ret.expr),
         New([nodes EXCEPT ![Top.res].left = nextId], rec)
  PROVE  Holds(nodes', nextId', Top.res) /\ Top.res \in Nat
<1> DEFINE ns == [nodes EXCEPT ![Top.res].left = nextId]
<1>1. /\ Top.res \in DOMAIN nodes /\ Top.res \in Nat /\ Top.res \notin Below(stack)
      /\ nodes[Top.res] \in NodeRecord /\ nodes[Top.res].left = NULL
      /\ ret.expr \in DOMAIN nodes \cup {NULL} /\ ret.expr # Top.res
      /\ ret.expr \notin Below(stack)
      /\ Below(stack) \subseteq DOMAIN nodes /\ NULL \notin Below(stack)
      /\ DOMAIN nodes \ Kids(nodes) = Below(stack) \cup Only(Top.res) \cup Only(ret.expr)
      /\ nextId \in Nat \ {NULL} /\ nextId \notin DOMAIN nodes /\ NULL \notin DOMAIN nodes
      /\ Forest(nodes) /\ Small(nodes, nextId) /\ DOMAIN nodes \subseteq Nat
  <2>1. FrameOK(Top, nodes) /\ Top.pc = "scopeEnd" /\ Top.res \in DOMAIN nodes
    BY AtNodes
  <2>2. nodes[Top.res].left = NULL
    BY <2>1 DEF FrameOK
  <2>3. nodes[Top.res] \in NodeRecord /\ DOMAIN nodes \subseteq Nat /\ nextId \in Nat \ {NULL}
    BY <2>1 DEF IInv, NodeInv, NodesTyped
  <2> QED
    BY <2>1, <2>2, <2>3, AtNodes
<1>2. /\ DOMAIN ns = DOMAIN nodes /\ \A m \in DOMAIN nodes : m # Top.res => ns[m] = nodes[m]
      /\ ns[Top.res] = [nodes[Top.res] EXCEPT !.left = nextId]
  BY <1>1
<1> HIDE DEF ns
<1>3. /\ DOMAIN nodes' = DOMAIN nodes \cup {nextId} /\ nodes'[nextId] = rec
      /\ \A m \in DOMAIN nodes : nodes'[m] = ns[m]
      /\ nextId' = nextId + 1
  <2>1. New(ns, rec) /\ nextId \notin DOMAIN ns
    BY <1>1, <1>2 DEF ns
  <2> QED
    BY <1>2, <2>1, AddedNode
<1> DEFINE D == DOMAIN nodes \cup {nextId}
           t == [m \in D |-> IF m = nextId THEN leaf ELSE nodes[m]]
           u == [m \in D |-> IF m = nextId THEN rec ELSE nodes[m]]
<1>4. /\ DOMAIN t = D /\ t[nextId] = leaf /\ \A m \in DOMAIN nodes : t[m] = nodes[m]
      /\ DOMAIN u = D /\ u[nextId] = rec /\ \A m \in DOMAIN nodes : u[m] = nodes[m]
      /\ \A m \in D : m # nextId => u[m] = t[m]
  BY <1>1
<1> HIDE DEF t, u
<1>5. Forest(t) /\ Kids(t) = Kids(nodes)
  BY <1>1, <1>4, LeafForest
<1>6. /\ nextId \notin Kids(nodes) /\ Top.res \notin Kids(nodes) /\ NULL \notin Kids(nodes)
      /\ ret.expr \notin Kids(nodes)
  BY <1>1 DEF Forest, Only
<1>7. Forest(u) /\ Kids(u) = Kids(nodes) \cup ({ret.expr} \ {NULL})
  <2>1. /\ nextId \in DOMAIN t /\ nextId \notin Kids(t) /\ ret.expr \in DOMAIN t \cup {NULL}
        /\ ret.expr \notin Kids(t) /\ ret.expr # nextId
        /\ DOMAIN u = DOMAIN t /\ Puts(t[nextId], u[nextId], ret.expr)
        /\ \A m \in DOMAIN t : m # nextId => u[m] = t[m]
    BY <1>1, <1>4, <1>5, <1>6
  <2> QED
    BY <1>5, <2>1, AttachForest
<1>8. Puts(u[Top.res], nodes'[Top.res], nextId)
  <2>1. nodes'[Top.res] = [nodes[Top.res] EXCEPT !.left = nextId] /\ u[Top.res] = nodes[Top.res]
    <3>1. Top.res \in DOMAIN nodes
      BY <1>1
    <3>2. nodes'[Top.res] = ns[Top.res]
      BY <1>3, <3>1
    <3>3. u[Top.res] = nodes[Top.res]
      BY <1>4, <3>1
    <3> QED
      BY <1>2, <3>2, <3>3
  <2>2. nodes[Top.res] \in NodeRecord /\ nextId \in Nat /\ nodes[Top.res].left = NULL
    BY <1>1
  <2>3. Puts(nodes[Top.res], [nodes[Top.res] EXCEPT !.left = nextId], nextId)
    BY <2>2, PutsOne
  <2> QED
    BY <2>1, <2>3
<1>9. Forest(nodes') /\ Kids(nodes') = Kids(u) \cup ({nextId} \ {NULL})
  <2>1. /\ Top.res \in DOMAIN u /\ Top.res \notin Kids(u) /\ nextId \in DOMAIN u \cup {NULL}
        /\ nextId \notin Kids(u) /\ nextId # Top.res /\ DOMAIN nodes' = DOMAIN u
    BY <1>1, <1>3, <1>4, <1>6, <1>7
  <2>2. \A m \in DOMAIN u : m # Top.res => nodes'[m] = u[m]
    BY <1>2, <1>3, <1>4
  <2> QED
    BY <1>7, <1>8, <2>1, <2>2, AttachForest
<1>10. DOMAIN nodes' \ Kids(nodes') = Below(stack) \cup Only(Top.res)
  BY <1>1, <1>3, <1>6, <1>7, <1>9 DEF Only
<1>11. \A n \in Below(stack) : nodes'[n] = nodes[n]
  BY <1>1, <1>2, <1>3
<1>12. Small(nodes', nextId')
  BY <1>1, <1>3 DEF Small
<1> QED
  BY <1>1, <1>9, <1>10, <1>11, <1>12 DEF Holds

\* ScopeEnd.
LEMMA ScopeEndNodes ==
  ASSUME "stale" \notin FuncSlot \/ Top.res # NULL, IInv, NodesInv, ScopeEnd
  PROVE  NodesInv'
<1> DEFINE leaf == Node("scope", Top.close, {})
           rec == [Node("scope", Top.close, {}) EXCEPT !.left = ret.expr]
           p == Top.close + 1
<1>0. At("scopeEnd")
  BY DEF ScopeEnd
<1>1. /\ KidsOf(leaf) = {} /\ leaf.left = NULL /\ rec.left = ret.expr
      /\ rec.right = leaf.right /\ rec.items = leaf.items
  <2>1. rec.left = ret.expr /\ rec.right = leaf.right /\ rec.items = leaf.items
    BY DEF Node
  <2> QED
    BY <2>1, FreshNode
<1>2. \/ ret.expr = NULL /\ Fail(Top.res) /\ UNCHANGED <<nodes, nextId>>
      \/ Top.res # NULL /\ New([nodes EXCEPT ![Top.res].left = nextId], rec) /\ Return(Top.res, p)
      \/ Top.res = NULL /\ New(nodes, rec) /\ Return(nextId, p)
      \/ Crash("func_garbage") /\ UNCHANGED <<nodes, nextId>>
  BY DEF ScopeEnd
<1> HIDE DEF leaf, rec, p
<1>3. Puts(leaf, rec, ret.expr)
  <2>1. Puts(leaf, rec, rec.left)
    BY <1>1, PutsLeft
  <2> QED
    BY <1>1, <2>1
<1>4. CASE ret.expr = NULL /\ Fail(Top.res) /\ UNCHANGED <<nodes, nextId>>
  <2>1. Holds(nodes', nextId', Top.res) /\ Top.res \in Nat
    <3>1. Holds(nodes, nextId, Top.res) /\ Top.res \in Nat
      BY <1>0, <1>4, HoldsTop, AtNodes
    <3> QED
      BY <1>4, <3>1
  <2> QED
    BY <1>0, <1>4, <2>1, FailNodes
<1>5. CASE Top.res # NULL /\ New([nodes EXCEPT ![Top.res].left = nextId], rec) /\ Return(Top.res, p)
  <2>1. Holds(nodes', nextId', Top.res) /\ Top.res \in Nat
    BY <1>0, <1>1, <1>3, <1>5, HoldsScope
  <2> QED
    BY <1>0, <1>5, <2>1, ReturnNodes
<1>6. CASE Top.res = NULL /\ New(nodes, rec) /\ Return(nextId, p)
  <2>1. /\ nextId \in Nat \ {NULL} /\ nextId \notin DOMAIN nodes /\ DOMAIN nodes \subseteq Nat
        /\ NULL \notin DOMAIN nodes
    BY <1>0, AtNodes DEF IInv, NodeInv, NodesTyped
  <2>2. /\ DOMAIN nodes' = DOMAIN nodes \cup {nextId} /\ nodes'[nextId] = rec
        /\ \A m \in DOMAIN nodes : nodes'[m] = nodes[m]
        /\ nextId' = nextId + 1
    BY <1>6, <2>1, AddedNode
  <2>3. Holds(nodes, nextId, ret.expr)
    BY <1>0, <1>6, HoldsRet
  <2>4. Holds(nodes', nextId', nextId)
    <3>1. Holds(nodes', nextId + 1, nextId)
      BY <1>1, <1>3, <2>1, <2>2, <2>3, HoldsNewAbove
    <3> QED
      BY <2>2, <3>1
  <2> QED
    BY <1>0, <1>6, <2>1, <2>4, ReturnNodes
<1>7. CASE Crash("func_garbage") /\ UNCHANGED <<nodes, nextId>>
  BY <1>7, CrashNodes
<1> QED
  BY <1>2, <1>4, <1>5, <1>6, <1>7

\* BodyNext.
LEMMA BodyNextNodes == IInv /\ NodesInv /\ BodyNext => NodesInv'
<1> SUFFICES ASSUME IInv, NodesInv, BodyNext PROVE NodesInv'
  OBVIOUS
<1>0. /\ At("loop") /\ UNCHANGED heap
      /\ Return(Top.res, pos) \/ Call([Top EXCEPT !.pc = "item"], pos)
  BY DEF BodyNext
<1>1. "loop" \notin Waiting
  BY DEF Waiting
<1>2. ret.expr = NULL /\ FrameOK(Top, nodes) /\ Top.pc = "loop"
  BY <1>0, <1>1, AtNodes
<1>3. CASE Return(Top.res, pos)
  BY <1>0, <1>2, <1>3, KeepsNodes
<1>4. CASE Call([Top EXCEPT !.pc = "item"], pos)
  <2>1. Top.res # NULL
    BY <1>2 DEF FrameOK
  <2>2. \A f : f.pc = "item" /\ f.res = Top.res /\ FrameOK(Top, nodes) => FrameOK(f, nodes)
    BY <2>1 DEF FrameOK
  <2>3. "item" \in PCs /\ \E p : Call([Top EXCEPT !.pc = "item"], p)
    BY <1>4 DEF PCs
  <2> QED
    BY <1>0, <1>2, <2>2, <2>3, WalksNodes
<1> QED
  BY <1>0, <1>3, <1>4

\* BodyItem.
LEMMA BodyItemNodes == IInv /\ NodesInv /\ BodyItem => NodesInv'
<1> SUFFICES ASSUME IInv, NodesInv, BodyItem PROVE NodesInv'
  OBVIOUS
<1>0. At("item") /\ UNCHANGED nextId
  BY DEF BodyItem
<1>1. /\ Top.res # NULL /\ Top.res \in DOMAIN nodes /\ Top.res \in Nat
      /\ nodes[Top.res] \in NodeRecord /\ ret.expr \in Nat
      /\ ret.error => ret.expr = NULL
  <2>1. FrameOK(Top, nodes) /\ Top.pc = "item" /\ Top.res \in DOMAIN nodes \cup {NULL}
    BY <1>0, AtNodes
  <2>2. Top.res # NULL
    BY <2>1 DEF FrameOK
  <2>3. nodes[Top.res] \in NodeRecord
    BY <2>1, <2>2 DEF IInv, NodeInv, NodesTyped
  <2> QED
    BY <1>0, <2>1, <2>2, <2>3, AtNodes
<1>2. CASE /\ ret.error /\ calls' = Calls("destroy", <<Top.res>>) /\ stack' = Pop
           /\ ret' = Nothing /\ UNCHANGED nodes
  <2>1. Holds(nodes, nextId, Top.res)
    BY <1>0, <1>1, <1>2, HoldsTop
  <2>2. Holds(nodes', nextId', Top.res)
    BY <1>0, <1>2, <2>1
  <2>3. ret'.expr = NULL
    BY <1>2 DEF Nothing
  <2> QED
    BY <1>0, <1>1, <1>2, <2>2, <2>3, DropNodes
<1>3. CASE /\ nodes' = IF ret.expr = NULL THEN nodes
                       ELSE [nodes EXCEPT ![Top.res].items = Append(@, ret.expr)]
           /\ Continue([Top EXCEPT !.pc = "loop"], pos)
  <2>1. Holds(nodes', nextId', Top.res)
    <3>1. CASE ret.expr = NULL
      <4>1. Holds(nodes, nextId, Top.res)
        BY <1>0, <3>1, HoldsTop
      <4> QED
        BY <1>0, <1>3, <3>1, <4>1
    <3>2. CASE ret.expr # NULL
      <4>1. /\ DOMAIN nodes' = DOMAIN nodes
            /\ \A m \in DOMAIN nodes : m # Top.res => nodes'[m] = nodes[m]
            /\ nodes'[Top.res] = [nodes[Top.res] EXCEPT !.items = Append(@, ret.expr)]
        BY <1>1, <1>3, <3>2
      <4>2. Puts(nodes[Top.res], nodes'[Top.res], ret.expr)
        BY <1>1, <4>1, PutsOne
      <4>3. Holds(nodes', nextId, Top.res)
        BY <1>0, <1>1, <4>1, <4>2, HoldsAnswer
      <4> QED
        BY <1>0, <4>3
    <3> QED
      BY <3>1, <3>2
  <2>2. \A f : f.pc = "loop" /\ f.res = Top.res => FrameOK(f, nodes')
    BY <1>1 DEF FrameOK
  <2>3. "loop" \in PCs /\ \E p : Continue([Top EXCEPT !.pc = "loop"], p)
    BY <1>3 DEF PCs
  <2> QED
    BY <1>0, <1>1, <2>1, <2>2, <2>3, GoesNodes
<1> QED
  BY <1>2, <1>3 DEF BodyItem

-----------------------------------------------------------------------------
(* Pending calls and main.                                                 *)

\* The first of the pending calls, and those after it.
LEMMA FirstCall ==
  ASSUME NEW cl \in Seq(CallRecord), cl # <<>>
  PROVE  /\ Len(cl) \in Nat \ {0} /\ Head(cl) = cl[1] /\ Tail(cl) \in Seq(CallRecord)
         /\ Len(Tail(cl)) = Len(cl) - 1
         /\ \A j \in 1..Len(cl) - 1 : Tail(cl)[j] = cl[j + 1]
<1>1. Len(cl) \in Nat \ {0}
  BY EmptySeq, ElementOfSeq
<1> QED
  BY <1>1, HeadTailProperties

\* Calls of fn are made before others.
LEMMA CallsBefore ==
  ASSUME NEW fn \in {"process_operation", "destroy"}, NEW ns \in Seq(Nat),
         NEW cl \in Seq(CallRecord)
  PROVE  LET w == Calls(fn, ns) \o cl
         IN  /\ Len(w) = Len(ns) + Len(cl) /\ Len(ns) \in Nat /\ Len(cl) \in Nat
             /\ \A j \in 1..Len(ns) : w[j] = [fn |-> fn, node |-> ns[j]]
             /\ \A j \in 1..Len(cl) : w[Len(ns) + j] = cl[j]
<1> DEFINE cs == Calls(fn, ns)
<1>1. Len(ns) \in Nat /\ DOMAIN ns = 1..Len(ns) /\ Len(cl) \in Nat
  BY LenProperties
<1>2. cs \in Seq(CallRecord)
  BY CallsTyped
<1>3. DOMAIN cs = 1..Len(ns) /\ \A j \in 1..Len(ns) : cs[j] = [fn |-> fn, node |-> ns[j]]
  BY <1>1 DEF Calls
<1> HIDE DEF cs
<1>4. Len(cs) = Len(ns)
  BY <1>1, <1>2, <1>3, LenProperties
<1>5. /\ Len(cs \o cl) = Len(cs) + Len(cl)
      /\ \A j \in 1..Len(cs) + Len(cl) :
           (cs \o cl)[j] = IF j <= Len(cs) THEN cs[j] ELSE cl[j - Len(cs)]
  BY <1>2, ConcatProperties
<1>6. \A j \in 1..Len(ns) : j \in 1..Len(cs) + Len(cl) /\ j <= Len(cs)
  BY <1>1, <1>4
<1>7. \A j \in 1..Len(cl) : /\ Len(ns) + j \in 1..Len(cs) + Len(cl) /\ ~(Len(ns) + j <= Len(cs))
                            /\ Len(ns) + j - Len(cs) = j
  BY <1>1, <1>4
<1>8. \A j \in 1..Len(ns) : (cs \o cl)[j] = [fn |-> fn, node |-> ns[j]]
  BY <1>3, <1>5, <1>6
<1>9. \A j \in 1..Len(cl) : (cs \o cl)[Len(ns) + j] = cl[j]
  BY <1>5, <1>7
<1> QED
  BY <1>1, <1>4, <1>5, <1>8, <1>9 DEF cs

\* A destructor that has been called is no longer to be called.
LEMMA TailDoom ==
  ASSUME NEW cl \in Seq(CallRecord), cl # <<>>, Head(cl).fn = "destroy", Uniform(cl),
         DoomedOnce(cl)
  PROVE  LET t == Tail(cl)
         IN  /\ t \in Seq(CallRecord) /\ \A j \in 1..Len(t) : t[j].fn = "destroy"
             /\ DoomedOnce(t) /\ Doomed(t) = Doomed(cl) \ {Head(cl).node}
             /\ Head(cl).node # NULL => Head(cl).node \in Doomed(cl)
<1> DEFINE t == Tail(cl)
<1>1. /\ Len(cl) \in Nat \ {0} /\ Head(cl) = cl[1] /\ t \in Seq(CallRecord)
      /\ Len(t) = Len(cl) - 1 /\ \A j \in 1..Len(cl) - 1 : t[j] = cl[j + 1]
  BY FirstCall
<1> HIDE DEF t
<1>2. /\ \A j \in 1..Len(t) : j + 1 \in 1..Len(cl) /\ j + 1 # 1 /\ t[j] = cl[j + 1]
      /\ \A j \in 1..Len(cl) : j = 1 \/ (j - 1 \in 1..Len(t) /\ t[j - 1] = cl[j])
      /\ 1 \in 1..Len(cl)
  BY <1>1
<1>3. \A j \in 1..Len(cl) : cl[j].fn = "destroy"
  BY <1>1, <1>2 DEF Uniform
<1>4. \A j \in 1..Len(t) : t[j].fn = "destroy"
  BY <1>2, <1>3
<1>5. DoomedOnce(t)
  <2> SUFFICES ASSUME NEW i \in 1..Len(t), NEW j \in 1..Len(t),
                      t[i].node = t[j].node, t[i].node # NULL
               PROVE  i = j
    BY DEF DoomedOnce
  <2>1. /\ i + 1 \in 1..Len(cl) /\ j + 1 \in 1..Len(cl)
        /\ cl[i + 1].node = cl[j + 1].node /\ cl[i + 1].node # NULL
    BY <1>2
  <2>2. i + 1 = j + 1
    BY <1>3, <2>1 DEF DoomedOnce
  <2> QED
    BY <2>2
<1>6. \A j \in 1..Len(t) : t[j].node = NULL \/ t[j].node # Head(cl).node
  BY <1>1, <1>2, <1>3 DEF DoomedOnce
<1>7. Doomed(cl) = {cl[j].node : j \in 1..Len(cl)} \ {NULL}
  BY <1>3 DEF Doomed
<1>8. Doomed(t) = {t[j].node : j \in 1..Len(t)} \ {NULL}
  BY <1>4 DEF Doomed
<1>9. \A k : k \in Doomed(cl) => k = Head(cl).node \/ k \in Doomed(t)
  <2> SUFFICES ASSUME NEW k \in Doomed(cl), k # Head(cl).node PROVE k \in Doomed(t)
    OBVIOUS
  <2>1. PICK j \in 1..Len(cl) : cl[j].node = k /\ k # NULL
    BY <1>7
  <2>2. j - 1 \in 1..Len(t) /\ t[j - 1].node = k
    BY <1>1, <1>2, <2>1
  <2> QED
    BY <1>8, <2>1, <2>2
<1>10. \A k : k \in Doomed(t) => k \in Doomed(cl) /\ k # Head(cl).node
  BY <1>2, <1>6, <1>7, <1>8
<1> QED
  BY <1>1, <1>2, <1>4, <1>5, <1>7, <1>9, <1>10 DEF t

\* process_operation.
LEMMA ProcessOperationNodes == IInv /\ NodesInv /\ process_operation => NodesInv'
<1> SUFFICES ASSUME IInv, NodesInv, process_operation PROVE NodesInv'
  OBVIOUS
<1> DEFINE n == Head(calls).node
           r == nodes[n].right
           both == <<nodes'[n].left, nodes'[n].right>>
<1>0. /\ Pending("process_operation") /\ UNCHANGED nextId /\ calls \in Seq(CallRecord)
      /\ calls # <<>> /\ Head(calls).fn = "process_operation" /\ NodesTyped(nodes)
  BY DEF process_operation, Pending, IInv, StackInv, NodeInv
<1>1. /\ Len(calls) \in Nat \ {0} /\ Head(calls) = calls[1] /\ Tail(calls) \in Seq(CallRecord)
      /\ Len(Tail(calls)) = Len(calls) - 1
      /\ \A j \in 1..Len(calls) - 1 : Tail(calls)[j] = calls[j + 1]
  BY <1>0, FirstCall
<1>2. \A j \in 1..Len(calls) : calls[j].fn # "destroy"
  <2>1. 1 \in 1..Len(calls) /\ calls[1].fn # "destroy"
    BY <1>0, <1>1
  <2> QED
    BY <2>1 DEF NodesInv, Uniform
<1>3. \A j \in 1..Len(Tail(calls)) : Tail(calls)[j].fn # "destroy"
  BY <1>1, <1>2
<1>4. Doomed(calls) = {} /\ ret.expr = NULL
  BY <1>0, <1>2, ProcessDoom DEF NodesInv, RetOK
\* The step changes no pointer from a result, and the results stay the results.
<1>5. ASSUME UNCHANGED <<stack, ret>>, Forest(nodes'), Kids(nodes') = Kids(nodes),
             DOMAIN nodes' = DOMAIN nodes, FramesOK(stack, nodes'),
             \A j \in 1..Len(calls') : calls'[j].fn # "destroy"
      PROVE  NodesInv'
  <2>1. Uniform(calls') /\ DoomedOnce(calls') /\ Doomed(calls') = {}
    BY <1>5, ProcessDoom
  <2>2. Parted'
    BY <1>4, <1>5, <2>1 DEF NodesInv, Parted
  <2>3. RetOK'
    BY <1>4, <1>5 DEF RetOK
  <2>4. Small(nodes', nextId') /\ RootsOnce(stack')
    BY <1>0, <1>5 DEF NodesInv, Small
  <2> QED
    BY <1>5, <2>1, <2>2, <2>3, <2>4 DEF NodesInv
<1>6. CASE Crash("null_operand") /\ UNCHANGED nodes
  BY <1>0, <1>6, CrashNodes
<1>7. CASE calls' = Tail(calls) /\ UNCHANGED <<nodes, stack, ret>>
  BY <1>3, <1>5, <1>7 DEF NodesInv
<1>8. CASE /\ n \in DOMAIN nodes /\ nodes[n].type = "oper" /\ r \in DOMAIN nodes
           /\ nodes' = Rotate(n, r) \/ nodes' = nodes
           /\ calls' = Calls("process_operation", both) \o Tail(calls)
           /\ UNCHANGED <<stack, ret>>
  <2>0. NULL \notin DOMAIN nodes
    BY <1>0 DEF NodesTyped
  <2>1. /\ Forest(nodes') /\ Kids(nodes') = Kids(nodes) /\ DOMAIN nodes' = DOMAIN nodes
        /\ \A m \in DOMAIN nodes : m # n /\ m # r => nodes'[m] = nodes[m]
    <3>1. CASE nodes' = nodes
      BY <3>1 DEF NodesInv
    <3>2. CASE nodes' = Rotate(n, r)
      BY <1>0, <1>8, <3>2, RotateForest DEF NodesInv
    <3> QED
      BY <1>8, <3>1, <3>2
  <2>2. r \in Kids(nodes)
    <3>1. 0 \in Slots(nodes[n]) /\ Kid(nodes[n], 0) = r
      BY KidFields
    <3> QED
      BY <1>8, <2>0, <3>1, KidSlot
  <2>3. FramesOK(stack, nodes')
    <3> SUFFICES ASSUME NEW d \in 1..Len(stack) PROVE FrameOK(stack[d], nodes')
      BY DEF FramesOK
    <3>1. FrameOK(stack[d], nodes)
      BY DEF NodesInv, FramesOK
    <3>2. stack[d].res = NULL \/ (stack[d].res \in DOMAIN nodes /\ stack[d].res # r)
      <4>1. stack[d].res = NULL \/ stack[d].res \in Roots(stack)
        BY DEF Roots
      <4> QED
        BY <2>2, <4>1 DEF NodesInv, Parted
    <3>3. CASE stack[d].res = NULL \/ stack[d].res # n
      BY <2>1, <3>1, <3>2, <3>3, KeptOK
    <3>4. CASE stack[d].res # NULL /\ stack[d].res = n
      <4>1. /\ nodes[stack[d].res].type = "oper" /\ nodes[stack[d].res].right # NULL
        BY <1>8, <2>0, <3>4
      <4>2. stack[d].pc \notin {"declName", "declMark", "declType", "declAssign", "declValue",
                                "operand", "funcName", "funcArgs", "scope", "scopeEnd",
                                "start", "paren"}
        BY <3>1, <3>4, <4>1 DEF FrameOK
      <4> QED
        BY <3>4, <4>2 DEF FrameOK
    <3> QED
      BY <3>3, <3>4
  <2>4. \A j \in 1..Len(calls') : calls'[j].fn # "destroy"
    <3>1. NodesTyped(nodes')
      BY <1>0, <1>8, RotateTyped
    <3>2. both \in Seq(Nat) /\ Len(both) = 2
      <4>1. nodes'[n].left \in Nat /\ nodes'[n].right \in Nat
        BY <1>8, <2>1, <3>1 DEF NodesTyped, NodeRecord
      <4> QED
        BY <4>1
    <3> HIDE DEF both
    <3>3. /\ Len(calls') = Len(both) + Len(Tail(calls)) /\ Len(Tail(calls)) \in Nat
          /\ \A j \in 1..Len(both) : calls'[j] = [fn |-> "process_operation", node |-> both[j]]
          /\ \A j \in 1..Len(Tail(calls)) : calls'[Len(both) + j] = Tail(calls)[j]
      <4>1. calls' = Calls("process_operation", both) \o Tail(calls)
        BY <1>8
      <4>2. Tail(calls) \in Seq(CallRecord) /\ both \in Seq(Nat)
        BY <1>1, <3>2
      <4>3. PICK cl : cl = Tail(calls)
        OBVIOUS
      <4>4. /\ Len(calls') = Len(both) + Len(cl) /\ Len(cl) \in Nat
            /\ \A j \in 1..Len(both) :
                 calls'[j] = [fn |-> "process_operation", node |-> both[j]]
            /\ \A j \in 1..Len(cl) : calls'[Len(both) + j] = cl[j]
        BY <4>1, <4>2, <4>3, CallsBefore
      <4> QED
        BY <4>3, <4>4
    <3> SUFFICES ASSUME NEW j \in 1..Len(calls') PROVE calls'[j].fn # "destroy"
      OBVIOUS
    <3>4. CASE j <= 2
      <4>1. j \in 1..Len(both)
        BY <3>2, <3>3, <3>4
      <4>2. calls'[j] = [fn |-> "process_operation", node |-> both[j]]
        BY <3>3, <4>1
      <4> QED
        BY <4>2
    <3>5. CASE ~(j <= 2)
      <4>1. j - 2 \in 1..Len(Tail(calls)) /\ Len(both) + (j - 2) = j
        BY <3>2, <3>3, <3>5
      <4> QED
        BY <1>3, <3>3, <4>1
    <3> QED
      BY <3>4, <3>5
  <2> QED
    BY <1>5, <1>8, <2>1, <2>3, <2>4
<1> QED
  BY <1>6, <1>7, <1>8 DEF process_operation, Closed

\* The first L of the calls w destroy what x points to, the j-th what is in the
\* slot j - 2; those of cl follow.
Ahead(w, L, x, cl) ==
  /\ L \in Nat /\ Len(cl) \in Nat /\ Len(w) = L + Len(cl)
  /\ \A j \in 1..L : j - 2 \in Slots(x) /\ w[j].fn = "destroy" /\ w[j].node = Kid(x, j - 2)
  /\ \A j \in 1..Len(cl) : w[L + j] = cl[j]
  /\ \A i \in Slots(x) : \E j \in 1..L : j - 2 = i

\* The calls that the destructor of a node makes.
LEMMA KidCalls ==
  ASSUME NodesTyped(nodes), NEW n \in DOMAIN nodes, NEW cl \in Seq(CallRecord)
  PROVE  LET x == nodes[n]
             w == Calls("destroy", <<x.left, x.right>> \o x.items) \o cl
             L == 2 + Len(x.items)
         IN  Ahead(w, L, x, cl)
<1> DEFINE x == nodes[n]
           L == 2 + Len(x.items)
           two == <<x.left, x.right>>
           ns == two \o x.items
           w == Calls("destroy", ns) \o cl
<1>1. x.left \in Nat /\ x.right \in Nat /\ x.items \in Seq(Nat) /\ Len(x.items) \in Nat
  BY LenProperties DEF NodesTyped, NodeRecord
<1>2. two \in Seq(Nat) /\ Len(two) = 2 /\ two[1] = x.left /\ two[2] = x.right
  BY <1>1
<1> HIDE DEF x, two
<1>3. /\ ns \in Seq(Nat) /\ Len(ns) = Len(two) + Len(x.items)
      /\ \A j \in 1..Len(two) + Len(x.items) :
           ns[j] = IF j <= Len(two) THEN two[j] ELSE x.items[j - Len(two)]
  BY <1>1, <1>2, ConcatProperties
<1> HIDE DEF ns
<1>4. /\ Len(w) = Len(ns) + Len(cl) /\ Len(cl) \in Nat
      /\ \A j \in 1..Len(ns) : w[j] = [fn |-> "destroy", node |-> ns[j]]
      /\ \A j \in 1..Len(cl) : w[Len(ns) + j] = cl[j]
  BY <1>3, CallsBefore
<1> HIDE DEF w
<1>5. L \in Nat /\ Len(ns) = L
  BY <1>1, <1>2, <1>3
<1> HIDE DEF L
<1>6. ASSUME NEW j \in 1..L PROVE w[j].fn = "destroy" /\ w[j].node = ns[j]
  <2>1. w[j] = [fn |-> "destroy", node |-> ns[j]]
    BY <1>4, <1>5
  <2> QED
    BY <2>1
<1>7. ASSUME NEW j \in 1..L
      PROVE  j - 2 \in Slots(x) /\ ns[j] = Kid(x, j - 2)
  <2>1. CASE j = 1
    <3>1. j - 2 = -1 /\ ns[j] = x.left
      BY <1>1, <1>2, <1>3, <2>1
    <3> QED
      BY <3>1, KidFields
  <2>2. CASE j = 2
    <3>1. j - 2 = 0 /\ ns[j] = x.right
      BY <1>1, <1>2, <1>3, <2>2
    <3> QED
      BY <3>1, KidFields
  <2>3. CASE j # 1 /\ j # 2
    <3>1. j - 2 \in 1..Len(x.items) /\ ns[j] = x.items[j - 2]
      BY <1>1, <1>2, <1>3, <1>5, <2>3 DEF L
    <3>2. j - 2 \in Int /\ j - 2 # -1 /\ j - 2 # 0
      BY <3>1
    <3> QED
      BY <3>1, <3>2, KidFields DEF Slots
  <2> QED
    BY <2>1, <2>2, <2>3
<1>8. ASSUME NEW i \in Slots(x) PROVE \E j \in 1..L : j - 2 = i
  <2>1. i + 2 \in 1..L /\ (i + 2) - 2 = i
    BY <1>1 DEF Slots, L
  <2> QED
    BY <2>1
<1>9. \A j \in 1..Len(cl) : w[L + j] = cl[j]
  BY <1>4, <1>5
<1>10. Len(w) = L + Len(cl) /\ Len(cl) \in Nat
  BY <1>4, <1>5
<1>11. \A j \in 1..L : /\ j - 2 \in Slots(x) /\ w[j].fn = "destroy"
                       /\ w[j].node = Kid(x, j - 2)
  BY <1>6, <1>7
<1>12. Ahead(w, L, x, cl)
  BY <1>5, <1>8, <1>9, <1>10, <1>11 DEF Ahead
<1> QED
  BY <1>12 DEF x, L, w, ns, two

\* What a node points to is destroyed after it.
LEMMA KidsDoomed ==
  ASSUME Forest(nodes), NEW n \in DOMAIN nodes,
         NEW cl, \A j \in 1..Len(cl) : cl[j].fn = "destroy",
         DoomedOnce(cl), Doomed(cl) \cap Kids(nodes) = {},
         NEW w, NEW L, Ahead(w, L, nodes[n], cl)
  PROVE  Uniform(w) /\ DoomedOnce(w) /\ Doomed(w) = KidsOf(nodes[n]) \cup Doomed(cl)
<1>1. /\ L \in Nat /\ Len(cl) \in Nat /\ Len(w) = L + Len(cl)
      /\ \A j \in 1..L : /\ j - 2 \in Slots(nodes[n]) /\ w[j].fn = "destroy"
                       /\ w[j].node = Kid(nodes[n], j - 2)
      /\ \A j \in 1..Len(cl) : w[L + j] = cl[j]
      /\ \A i \in Slots(nodes[n]) : \E j \in 1..L : j - 2 = i
  BY DEF Ahead
<1> USE <1>1
<1>9. ASSUME NEW j \in 1..Len(w), j \notin 1..L
      PROVE  j - L \in 1..Len(cl) /\ w[j] = cl[j - L]
  <2>1. j - L \in 1..Len(cl) /\ L + (j - L) = j
    BY <1>9
  <2> QED
    BY <2>1
<1>10. \A j \in 1..Len(w) : w[j].fn = "destroy"
  BY <1>9
<1>11. \A j \in 1..Len(cl) : cl[j].node # NULL => cl[j].node \in Doomed(cl)
  BY DEF Doomed
<1>12. ASSUME NEW j \in 1..L, w[j].node # NULL
       PROVE  w[j].node \in KidsOf(nodes[n]) /\ w[j].node \in Kids(nodes)
  BY <1>12, KidSlot
<1>13. DoomedOnce(w)
  <2> SUFFICES ASSUME NEW i \in 1..Len(w), NEW j \in 1..Len(w),
                      w[i].node = w[j].node, w[i].node # NULL
               PROVE  i = j
    BY DEF DoomedOnce
  <2>1. CASE i \in 1..L /\ j \in 1..L
    <3>1. /\ i - 2 \in Slots(nodes[n]) /\ j - 2 \in Slots(nodes[n])
          /\ Kid(nodes[n], i - 2) = Kid(nodes[n], j - 2) /\ Kid(nodes[n], i - 2) # NULL
      BY <2>1
    <3>2. i - 2 = j - 2
      BY <3>1 DEF Forest, KidsOnce
    <3> QED
      BY <3>2
  <2>2. CASE i \notin 1..L /\ j \notin 1..L
    <3>1. /\ i - L \in 1..Len(cl) /\ j - L \in 1..Len(cl)
          /\ cl[i - L].node = cl[j - L].node /\ cl[i - L].node # NULL
      BY <1>9, <2>2
    <3>2. i - L = j - L
      BY <3>1 DEF DoomedOnce
    <3> QED
      BY <3>2
  <2>3. ASSUME NEW k \in 1..Len(w), k \notin 1..L, w[k].node # NULL
        PROVE  w[k].node \notin Kids(nodes)
    <3>1. k - L \in 1..Len(cl) /\ w[k] = cl[k - L]
      BY <1>9, <2>3
    <3> QED
      BY <1>11, <2>3, <3>1
  <2>4. CASE i \in 1..L /\ j \notin 1..L
    <3>1. w[i].node \in Kids(nodes)
      BY <1>12, <2>4
    <3> QED
      BY <2>3, <2>4, <3>1
  <2>5. CASE i \notin 1..L /\ j \in 1..L
    <3>1. w[j].node \in Kids(nodes)
      BY <1>12, <2>5
    <3> QED
      BY <2>3, <2>5, <3>1
  <2> QED
    BY <2>1, <2>2, <2>4, <2>5
<1>14. Doomed(w) = {w[j].node : j \in 1..Len(w)} \ {NULL}
  BY <1>10 DEF Doomed
<1>15. ASSUME NEW k \in Doomed(w) PROVE k \in KidsOf(nodes[n]) \/ k \in Doomed(cl)
  <2>1. PICK j \in 1..Len(w) : w[j].node = k /\ k # NULL
    BY <1>14
  <2>2. CASE j \in 1..L
    BY <1>12, <2>1, <2>2
  <2>3. CASE j \notin 1..L
    <3>1. j - L \in 1..Len(cl) /\ w[j] = cl[j - L]
      BY <1>9, <2>3
    <3> QED
      BY <1>11, <2>1, <3>1
  <2> QED
    BY <2>2, <2>3
<1>16. ASSUME NEW k \in KidsOf(nodes[n]) PROVE k \in Doomed(w)
  <2>1. PICK i \in Slots(nodes[n]) : Kid(nodes[n], i) = k /\ k # NULL
    BY DEF KidsOf
  <2>2. PICK j \in 1..L : j - 2 = i
    OBVIOUS
  <2>3. w[j].node = Kid(nodes[n], j - 2)
    OBVIOUS
  <2>4. j \in 1..Len(w)
    OBVIOUS
  <2> QED
    BY <1>14, <2>1, <2>2, <2>3, <2>4
<1>17. ASSUME NEW k \in Doomed(cl) PROVE k \in Doomed(w)
  <2>1. PICK j \in 1..Len(cl) : cl[j].node = k /\ k # NULL
    BY DEF Doomed
  <2>2. w[L + j].node = k
    BY <2>1
  <2>3. L + j \in 1..Len(w)
    OBVIOUS
  <2> QED
    BY <1>14, <2>1, <2>2, <2>3
<1> QED
  BY <1>10, <1>13, <1>15, <1>16, <1>17 DEF Uniform

\* DestroyNode.
LEMMA DestroyNodeNodes == IInv /\ NodesInv /\ DestroyNode => NodesInv'
<1> SUFFICES ASSUME IInv, NodesInv, DestroyNode PROVE NodesInv'
  OBVIOUS
<1> DEFINE n == Head(calls).node
           cl == Tail(calls)
<1>0. /\ UNCHANGED nextId /\ calls \in Seq(CallRecord) /\ calls # <<>>
      /\ Head(calls).fn = "destroy" /\ NodesTyped(nodes) /\ NULL \notin DOMAIN nodes
  BY DEF DestroyNode, Pending, IInv, StackInv, NodeInv, NodesTyped
<1>1. /\ cl \in Seq(CallRecord) /\ \A j \in 1..Len(cl) : cl[j].fn = "destroy"
      /\ DoomedOnce(cl) /\ Doomed(cl) = Doomed(calls) \ {n}
      /\ n # NULL => n \in Doomed(calls)
  BY <1>0, TailDoom DEF NodesInv
<1>2. ret.expr = NULL
  BY <1>0 DEF NodesInv, RetOK
<1>3. NULL \notin Doomed(calls) /\ NULL \notin Roots(stack)
  BY DEF Doomed, Roots
<1>4. \/ n = NULL /\ calls' = cl /\ UNCHANGED <<nodes, stack, ret>>
      \/ \E site : Crash(site) /\ UNCHANGED nodes
      \/ /\ n \in DOMAIN nodes
         /\ nodes' = [m \in DOMAIN nodes \ {n} |-> nodes[m]]
         /\ calls' = Calls("destroy", <<nodes[n].left, nodes[n].right>> \o nodes[n].items) \o cl
         /\ UNCHANGED <<stack, ret>>
  BY DEF DestroyNode
<1> HIDE DEF n, cl
<1>5. CASE n = NULL /\ calls' = cl /\ UNCHANGED <<nodes, stack, ret>>
  <2>1. Uniform(calls') /\ DoomedOnce(calls') /\ Doomed(calls') = Doomed(calls)
    BY <1>1, <1>3, <1>5 DEF Uniform
  <2>2. Parted'
    BY <1>5, <2>1 DEF NodesInv, Parted
  <2>3. RetOK'
    BY <1>2, <1>5 DEF RetOK
  <2> QED
    BY <1>0, <1>5, <2>1, <2>2, <2>3 DEF NodesInv
<1>6. CASE \E site : Crash(site) /\ UNCHANGED nodes
  BY <1>0, <1>6, CrashNodes
<1>7. CASE /\ n \in DOMAIN nodes
           /\ nodes' = [m \in DOMAIN nodes \ {n} |-> nodes[m]]
           /\ calls' = Calls("destroy", <<nodes[n].left, nodes[n].right>> \o nodes[n].items) \o cl
           /\ UNCHANGED <<stack, ret>>
  <2>1. /\ n \in Doomed(calls) /\ n \notin Kids(nodes) /\ n \notin Roots(stack)
        /\ Doomed(calls) \cap Kids(nodes) = {} /\ Roots(stack) \cap Kids(nodes) = {}
        /\ Roots(stack) \subseteq DOMAIN nodes
        /\ DOMAIN nodes \ Kids(nodes) = Roots(stack) \cup Doomed(calls)
    BY <1>0, <1>1, <1>2, <1>7 DEF NodesInv, Parted, Only
  <2>2. DOMAIN nodes' = DOMAIN nodes \ {n} /\ \A m \in DOMAIN nodes' : nodes'[m] = nodes[m]
    BY <1>7
  <2>3. Forest(nodes') /\ Kids(nodes') = Kids(nodes) \ KidsOf(nodes[n])
    BY <1>7, <2>1, <2>2, RemoveForest DEF NodesInv
  <2>4. KidsOf(nodes[n]) \subseteq Kids(nodes) /\ Kids(nodes) \subseteq DOMAIN nodes
    BY <1>7, KidSlot DEF NodesInv, Forest
  <2>5. /\ Uniform(calls') /\ DoomedOnce(calls')
        /\ Doomed(calls') = KidsOf(nodes[n]) \cup Doomed(cl)
    <3>1. Doomed(cl) \cap Kids(nodes) = {}
      BY <1>1, <2>1
    <3> DEFINE w == Calls("destroy", <<nodes[n].left, nodes[n].right>> \o nodes[n].items) \o cl
               L == 2 + Len(nodes[n].items)
    <3>2. Ahead(w, L, nodes[n], cl)
      BY <1>0, <1>1, <1>7, KidCalls
    <3>3. calls' = w /\ n \in DOMAIN nodes /\ Forest(nodes)
      BY <1>7 DEF NodesInv
    <3> HIDE DEF w, L
    <3>4. Uniform(w) /\ DoomedOnce(w) /\ Doomed(w) = KidsOf(nodes[n]) \cup Doomed(cl)
      BY <1>1, <3>1, <3>2, <3>3, KidsDoomed
    <3> QED
      BY <3>3, <3>4
  <2>6. DOMAIN nodes' \ Kids(nodes') = Roots(stack) \cup Doomed(calls')
    BY <1>1, <2>1, <2>2, <2>3, <2>4, <2>5
  <2>7. Roots(stack) \cap Doomed(calls') = {} /\ NULL \notin Doomed(calls')
    <3>1. Roots(stack) \cap Doomed(calls) = {}
      BY DEF NodesInv, Parted
    <3>2. NULL \notin KidsOf(nodes[n])
      BY DEF KidsOf
    <3> QED
      BY <1>1, <1>3, <2>1, <2>4, <2>5, <3>1, <3>2
  <2>8. Parted'
    BY <1>2, <1>3, <1>7, <2>6, <2>7 DEF Parted, Only
  <2>9. FramesOK(stack, nodes')
    <3> SUFFICES ASSUME NEW d \in 1..Len(stack) PROVE FrameOK(stack[d], nodes')
      BY DEF FramesOK
    <3>1. FrameOK(stack[d], nodes)
      BY DEF NodesInv, FramesOK
    <3>2. stack[d].res = NULL \/ stack[d].res \in Roots(stack)
      BY DEF Roots
    <3>3. stack[d].res = NULL \/ nodes'[stack[d].res] = nodes[stack[d].res]
      BY <2>1, <2>2, <3>2
    <3> QED
      BY <3>1, <3>3, KeptOK
  <2>10. RetOK'
    BY <1>2, <1>7 DEF RetOK
  <2>11. Small(nodes', nextId')
    BY <1>0, <2>2 DEF NodesInv, Small
  <2> QED
    BY <1>7, <2>3, <2>5, <2>8, <2>9, <2>10, <2>11 DEF NodesInv
<1> QED
  BY <1>4, <1>5, <1>6, <1>7

\* PrintAst.
LEMMA PrintAstNodes == IInv /\ NodesInv /\ PrintAst => NodesInv'
<1> SUFFICES ASSUME IInv, NodesInv, PrintAst PROVE NodesInv'
  OBVIOUS
<1>0. /\ stack = <<>> /\ calls = <<>> /\ UNCHANGED <<nodes, nextId, stack>> /\ ret.expr \in Nat
  BY DEF PrintAst, heap, IInv, StackInv
<1>1. CASE UNCHANGED <<ret, calls>>
  BY <1>0, <1>1, SameNodes
<1>2. CASE calls' = Calls("destroy", <<ret.expr>>) /\ ret' = Nothing
  <2>1. Uniform(calls') /\ DoomedOnce(calls') /\ Doomed(calls') = Only(ret.expr)
    BY <1>0, <1>2, OneDoom
  <2>2. /\ Doomed(calls) = {} /\ Only(NULL) = {} /\ NULL \notin Only(ret.expr)
        /\ ret'.expr = NULL
    BY <1>0, <1>2, NoDoom DEF Only, Nothing
  <2>3. Roots(stack) = {}
    <3>1. Len(stack) = 0
      BY <1>0
    <3> QED
      BY <3>1 DEF Roots
  <2>4. Parted'
    BY <1>0, <2>1, <2>2, <2>3 DEF NodesInv, Parted
  <2>5. RetOK'
    BY <2>2 DEF RetOK
  <2> QED
    BY <1>0, <2>1, <2>4, <2>5 DEF NodesInv
<1> QED
  BY <1>1, <1>2 DEF PrintAst

\* The initial states.
LEMMA InitNodes == Init => NodesInv
<1> SUFFICES ASSUME Init PROVE NodesInv
  OBVIOUS
<1> DEFINE none == [m \in {} |-> Node("body", 0, {})]
           f == Frame("loop", FALSE, 1, Len(tokens))
<1>1. /\ DOMAIN nodes = {1} /\ nodes[1] = Node("body", 0, {}) /\ nextId = 2
      /\ stack = <<f>> /\ calls = <<>> /\ ret.expr = NULL /\ ret.error = FALSE
  BY DEF Init, Nothing
<1>2. Forest(none) /\ Kids(none) = {}
  <2>1. Kids(none) = {}
    BY DEF Kids
  <2>2. Ranks(none, none, 0)
    BY DEF Ranks
  <2> QED
    BY <2>1, <2>2 DEF Forest, KidsOnce, Ranked
<1>3. Forest(nodes) /\ Kids(nodes) = {}
  <2>1. KidsOf(nodes[1]) = {}
    BY <1>1, FreshNode
  <2>2. DOMAIN none = {} /\ 1 \notin DOMAIN none
    OBVIOUS
  <2> HIDE DEF none
  <2> QED
    BY <1>1, <1>2, <2>1, <2>2, LeafForest
<1>4. f \in FrameRecord /\ f.res = 1 /\ f.pc = "loop"
  <2>1. Len(tokens) \in Nat
    BY InputsAssumption, LenProperties DEF Init
  <2> QED
    BY <2>1 DEF Frame, FrameRecord, PCs
<1> HIDE DEF none, f
<1>5. Roots(stack) = {1} /\ RootsOnce(stack) /\ FramesOK(stack, nodes)
  <2>1. Len(stack) = 1 /\ stack[1] = f
    BY <1>1
  <2>2. \A d \in 1..Len(stack) : d = 1
    BY <2>1
  <2>3. 1 \in 1..Len(stack)
    BY <2>1
  <2>4. FrameOK(f, nodes)
    BY <1>4 DEF FrameOK, NULL
  <2> QED
    BY <1>4, <2>1, <2>2, <2>3, <2>4 DEF Roots, RootsOnce, FramesOK, NULL
<1>6. Parted
  BY <1>1, <1>3, <1>5, NoDoom DEF Parted, Only, NULL
<1>7. RetOK /\ Small(nodes, nextId)
  BY <1>1 DEF RetOK, Small
<1> QED
  BY <1>1, <1>3, <1>5, <1>6, <1>7, NoDoom DEF NodesInv

\* Every step keeps the invariant.
LEMMA NextNodes ==
  ASSUME "stale" \notin FuncSlot, IInv, NodesInv, [Next]_vars
  PROVE  NodesInv'
<1>1. CASE UNCHANGED vars
  BY <1>1, SameNodes DEF vars, heap
<1>2. CASE LexerFree
  BY <1>2, SameNodes DEF LexerFree
<1>3. CASE Next /\ ~LexerFree
  BY <1>1, <1>3, DeclStartNodes, DeclNameNodes, DeclMarkNodes, DeclTypeNodes,
     DeclAssignNodes, DeclValueNodes, SkipTokenNodes, RejectTokenNodes, VariableNodes,
     LiteralNodes, ParenOpenNodes, ParenCloseNodes, NextLabelNodes, OperandNodes,
     SettleNodes, FuncStartNodes, FuncNameNodes, FuncArgNodes, FuncReturnNodes,
     ScopeOpenNodes, ScopeEndNodes, BodyNextNodes, BodyItemNodes,
     ProcessOperationNodes, DestroyNodeNodes, PrintAstNodes
  DEF Next, Stop
<1> QED
  BY <1>1, <1>2, <1>3

LEMMA NodesInvariance == ASSUME "stale" \notin FuncSlot PROVE Spec => []NodesInv
<1>1. IInv /\ NodesInv /\ [Next]_vars => NodesInv'
  BY NextNodes
<1> QED
  BY <1>1, InitNodes, Invariance, PTL DEF Spec

-----------------------------------------------------------------------------
(* The theorem.                                                            *)

\* The six kinds of owner, one set each.
LeftOwners(n) == {<<"left", m>> : m \in {m \in DOMAIN nodes : nodes[m].left = n}}
RightOwners(n) == {<<"right", m>> : m \in {m \in DOMAIN nodes : nodes[m].right = n}}
ItemOwners(n) ==
  UNION {{<<"item", m, j>> : j \in {j \in DOMAIN nodes[m].items : nodes[m].items[j] = n}} :
         m \in DOMAIN nodes}
FrameOwners(n) == {<<"frame", d>> : d \in {d \in DOMAIN stack : stack[d].res = n}}
CallOwners(n) ==
  {<<"call", j>> : j \in {j \in DOMAIN calls :
                            calls[j].fn = "destroy" /\ calls[j].node = n}}
RetOwners(n) == IF ret.expr = n THEN {<<"ret">>} ELSE {}

\* What has one owner: a slot of another node, or a call, a destructor or the
\* result that is handed over.
LEMMA OneOwner ==
  ASSUME IInv, NodesInv, NEW n \in DOMAIN nodes
  PROVE  Cardinality(Owners(n)) = 1
<1> DEFINE Left == {m \in DOMAIN nodes : nodes[m].left = n}
           Right == {m \in DOMAIN nodes : nodes[m].right = n}
           In(m) == {j \in DOMAIN nodes[m].items : nodes[m].items[j] = n}
           Frames == {d \in DOMAIN stack : stack[d].res = n}
           Pended == {j \in DOMAIN calls : calls[j].fn = "destroy" /\ calls[j].node = n}
           L == LeftOwners(n)
           R == RightOwners(n)
           I == ItemOwners(n)
           F == FrameOwners(n)
           C == CallOwners(n)
           T == RetOwners(n)
<1>0. /\ n # NULL /\ DOMAIN stack = 1..Len(stack) /\ DOMAIN calls = 1..Len(calls)
      /\ \A m \in DOMAIN nodes : DOMAIN nodes[m].items = 1..Len(nodes[m].items)
  <2>1. /\ NULL \notin DOMAIN nodes /\ stack \in Seq(FrameRecord) /\ calls \in Seq(CallRecord)
        /\ \A m \in DOMAIN nodes : nodes[m].items \in Seq(Nat)
    BY DEF IInv, NodeInv, NodesTyped, StackInv, NodeRecord
  <2> QED
    BY <2>1, LenProperties
<1>1. Owners(n) = L \cup R \cup I \cup F \cup C \cup T
  BY DEF Owners, LeftOwners, RightOwners, ItemOwners, FrameOwners, CallOwners, RetOwners
<1>11. /\ L = {<<"left", m>> : m \in Left} /\ R = {<<"right", m>> : m \in Right}
       /\ F = {<<"frame", d>> : d \in Frames} /\ C = {<<"call", j>> : j \in Pended}
       /\ T = IF ret.expr = n THEN {<<"ret">>} ELSE {}
  BY DEF LeftOwners, RightOwners, FrameOwners, CallOwners, RetOwners
<1>12. I = UNION {{<<"item", m, j>> : j \in In(m)} : m \in DOMAIN nodes}
  BY DEF ItemOwners
<1>2. /\ Left = {m \in DOMAIN nodes : Kid(nodes[m], -1) = n}
      /\ Right = {m \in DOMAIN nodes : Kid(nodes[m], 0) = n}
      /\ \A m \in DOMAIN nodes : In(m) = {j \in 1..Len(nodes[m].items) : Kid(nodes[m], j) = n}
  <2>1. \A m \in DOMAIN nodes : /\ Kid(nodes[m], -1) = nodes[m].left
                                /\ Kid(nodes[m], 0) = nodes[m].right
    BY KidFields
  <2>2. \A m \in DOMAIN nodes : \A j \in 1..Len(nodes[m].items) :
          Kid(nodes[m], j) = nodes[m].items[j]
    BY DEF Kid
  <2> QED
    BY <1>0, <2>1, <2>2
<1>3. /\ n \in Roots(stack) <=> \E d \in 1..Len(stack) : stack[d].res = n
      /\ n \in Doomed(calls) <=> \E j \in 1..Len(calls) : calls[j].fn = "destroy" /\ calls[j].node = n
  BY <1>0 DEF Roots, Doomed
<1>4. /\ n \notin Roots(stack) => Frames = {}
      /\ n \notin Doomed(calls) => Pended = {}
  BY <1>0, <1>3
<1> HIDE DEF Left, Right, In, Frames, Pended
<1>8. /\ Left = {} => L = {}
      /\ Right = {} => R = {}
      /\ (\A m \in DOMAIN nodes : In(m) = {}) => I = {}
      /\ Frames = {} => F = {}
      /\ Pended = {} => C = {}
      /\ ret.expr # n => T = {}
  BY <1>11, <1>12
<1>9. /\ \A m : Left = {m} => L = {<<"left", m>>}
      /\ \A m : Right = {m} => R = {<<"right", m>>}
      /\ \A d : Frames = {d} => F = {<<"frame", d>>}
      /\ \A j : Pended = {j} => C = {<<"call", j>>}
      /\ ret.expr = n => T = {<<"ret">>}
  BY <1>11
<1>10. ASSUME NEW m \in DOMAIN nodes, NEW i, In(m) = {i},
              \A o \in DOMAIN nodes : o # m => In(o) = {}
       PROVE  I = {<<"item", m, i>>}
  <2>1. \A o \in DOMAIN nodes : \A j \in In(o) : o = m /\ j = i
    BY <1>10
  <2>2. i \in In(m)
    BY <1>10
  <2> QED
    BY <1>12, <2>1, <2>2
<1> HIDE DEF L, R, I, F, C, T
<1>5. ASSUME NEW p, Owners(n) = {p} PROVE Cardinality(Owners(n)) = 1
  BY <1>5, FS_Singleton
<1>6. CASE n \in Kids(nodes)
  <2>1. PICK m \in DOMAIN nodes : \E i \in Slots(nodes[m]) : Kid(nodes[m], i) = n
    BY <1>6, KidSlot
  <2>2. PICK i \in Slots(nodes[m]) : Kid(nodes[m], i) = n
    BY <2>1
  <2>3. \A o \in DOMAIN nodes : \A j \in Slots(nodes[o]) :
          Kid(nodes[o], j) = n => o = m /\ j = i
    BY <1>0, <2>2 DEF NodesInv, Forest, KidsOnce
  <2>4. n \notin Roots(stack) /\ n \notin Doomed(calls) /\ ret.expr # n
    BY <1>0, <1>6 DEF NodesInv, Parted, Only
  <2>5. Frames = {} /\ Pended = {}
    BY <1>4, <2>4
  <2>6. \A o \in DOMAIN nodes : /\ -1 \in Slots(nodes[o]) /\ 0 \in Slots(nodes[o])
                                /\ 1..Len(nodes[o].items) \subseteq Slots(nodes[o])
    BY DEF Slots
  <2>7. /\ Left = IF i = -1 THEN {m} ELSE {}
        /\ Right = IF i = 0 THEN {m} ELSE {}
    BY <1>2, <2>2, <2>3, <2>6
  <2>8. \A o \in DOMAIN nodes :
          In(o) = IF o = m /\ i \in 1..Len(nodes[m].items) THEN {i} ELSE {}
    BY <1>2, <2>2, <2>3, <2>6
  <2>9. i = -1 \/ i = 0 \/ i \in 1..Len(nodes[m].items)
    BY DEF Slots
  <2>10. CASE i = -1
    <3>1. Left = {m} /\ Right = {} /\ \A o \in DOMAIN nodes : In(o) = {}
      BY <2>7, <2>8, <2>10
    <3>2. Owners(n) = {<<"left", m>>}
      BY <1>1, <1>8, <1>9, <2>4, <2>5, <3>1
    <3> QED
      BY <1>5, <3>2
  <2>11. CASE i = 0
    <3>1. Left = {} /\ Right = {m} /\ \A o \in DOMAIN nodes : In(o) = {}
      BY <2>7, <2>8, <2>11
    <3>2. Owners(n) = {<<"right", m>>}
      BY <1>1, <1>8, <1>9, <2>4, <2>5, <3>1
    <3> QED
      BY <1>5, <3>2
  <2>12. CASE i \in 1..Len(nodes[m].items)
    <3>1. /\ Left = {} /\ Right = {} /\ In(m) = {i}
          /\ \A o \in DOMAIN nodes : o # m => In(o) = {}
      BY <2>7, <2>8, <2>12
    <3>2. I = {<<"item", m, i>>}
      BY <1>10, <3>1
    <3>3. Owners(n) = {<<"item", m, i>>}
      BY <1>1, <1>8, <2>4, <2>5, <3>1, <3>2
    <3> QED
      BY <1>5, <3>3
  <2> QED
    BY <2>9, <2>10, <2>11, <2>12
<1>7. CASE n \notin Kids(nodes)
  <2>1. Left = {} /\ Right = {} /\ \A o \in DOMAIN nodes : In(o) = {}
    <3>1. \A o \in DOMAIN nodes : \A j \in Slots(nodes[o]) : Kid(nodes[o], j) # n
      BY <1>0, <1>7, KidSlot
    <3>2. \A o \in DOMAIN nodes : /\ -1 \in Slots(nodes[o]) /\ 0 \in Slots(nodes[o])
                                  /\ 1..Len(nodes[o].items) \subseteq Slots(nodes[o])
      BY DEF Slots
    <3> QED
      BY <1>2, <3>1, <3>2
  <2>2. L = {} /\ R = {} /\ I = {}
    BY <1>8, <2>1
  <2>3. CASE n \in Roots(stack)
    <3>1. PICK d \in 1..Len(stack) : stack[d].res = n
      BY <1>3, <2>3
    <3>2. Frames = {d}
      BY <1>0, <3>1 DEF NodesInv, RootsOnce, Frames
    <3>3. Pended = {} /\ ret.expr # n
      BY <1>4, <2>3 DEF NodesInv, Parted
    <3>4. Owners(n) = {<<"frame", d>>}
      BY <1>1, <1>8, <1>9, <2>2, <3>2, <3>3
    <3> QED
      BY <1>5, <3>4
  <2>4. CASE n \in Doomed(calls)
    <3>1. PICK j \in 1..Len(calls) : calls[j].fn = "destroy" /\ calls[j].node = n
      BY <1>3, <2>4
    <3>2. Pended = {j}
      BY <1>0, <3>1 DEF NodesInv, DoomedOnce, Pended
    <3>3. Frames = {} /\ ret.expr # n
      BY <1>4, <2>4 DEF NodesInv, Parted
    <3>4. Owners(n) = {<<"call", j>>}
      BY <1>1, <1>8, <1>9, <2>2, <3>2, <3>3
    <3> QED
      BY <1>5, <3>4
  <2>5. CASE n \notin Roots(stack) /\ n \notin Doomed(calls)
    <3>1. ret.expr = n
      BY <1>7, <2>5 DEF NodesInv, Parted, Only
    <3>2. Frames = {} /\ Pended = {}
      BY <1>4, <2>5
    <3>3. Owners(n) = {<<"ret">>}
      BY <1>1, <1>8, <1>9, <2>2, <3>1, <3>2
    <3> QED
      BY <1>5, <3>3
  <2> QED
    BY <2>3, <2>4, <2>5
<1> QED
  BY <1>6, <1>7

\* On every program the nodes of the tree are a forest and each has one owner,
\* on every way out of ast_parse_expr too, so that one destructor is called for it
\* (ast.c:26-69), unless func is an earlier function by chance: then "goto
\* func_scope" gives it a second scope and a second owner (ast.c:772).
THEOREM NodesHaveOneOwner ==
  ASSUME "stale" \notin FuncSlot
  PROVE  Spec => []NodesOwnedOnce
<1>1. ASSUME IInv, NodesInv PROVE NodesOwnedOnce
  <2>1. \A n \in DOMAIN nodes : Cardinality(Owners(n)) = 1
    BY <1>1, OneOwner
  <2>2. ASSUME NEW n \in DOMAIN nodes
        PROVE  {nodes[n].left, nodes[n].right} \cup Items(n) \subseteq DOMAIN nodes \cup {NULL}
    <3>1. \A i \in Slots(nodes[n]) : Kid(nodes[n], i) \in DOMAIN nodes \cup {NULL}
      BY <1>1, KidSlot DEF NodesInv, Forest
    <3>2. nodes[n].left = Kid(nodes[n], -1) /\ nodes[n].right = Kid(nodes[n], 0)
          /\ -1 \in Slots(nodes[n]) /\ 0 \in Slots(nodes[n])
      BY KidFields
    <3>3. DOMAIN nodes[n].items = 1..Len(nodes[n].items)
      BY <1>1, LenProperties DEF IInv, NodeInv, NodesTyped, NodeRecord
    <3>4. \A j \in 1..Len(nodes[n].items) :
            j \in Slots(nodes[n]) /\ Kid(nodes[n], j) = nodes[n].items[j]
      BY DEF Slots, Kid
    <3>5. Items(n) \subseteq DOMAIN nodes \cup {NULL}
      BY <3>1, <3>3, <3>4 DEF Items
    <3> QED
      BY <3>1, <3>2, <3>5
  <2>3. ASSUME NEW d \in DOMAIN stack PROVE stack[d].res \in DOMAIN nodes \cup {NULL}
    <3>1. d \in 1..Len(stack)
      BY <1>1, LenProperties DEF IInv, StackInv
    <3>2. stack[d].res = NULL \/ stack[d].res \in Roots(stack)
      BY <3>1 DEF Roots
    <3> QED
      BY <1>1, <3>2 DEF NodesInv, Parted
  <2>4. ret.expr \in DOMAIN nodes \cup {NULL}
    BY <1>1 DEF NodesInv, Parted, Only
  <2> QED
    BY <2>1, <2>2, <2>3, <2>4 DEF NodesOwnedOnce
<1> QED
  BY <1>1, Invariance, NodesInvariance, PTL

-----------------------------------------------------------------------------
(* Nodes that hold nothing new.                                            *)

\* What node n of ns holds; nothing if there is no such node.
OwnOf(ns, n) == IF n \in DOMAIN ns THEN ns[n].own ELSE {}

\* No node of ms holds what it does not hold in ns, but node x, which may hold
\* P too.
Acquires(ns, ms, x, P) ==
  \A n \in DOMAIN ms : ms[n].own \subseteq OwnOf(ns, n) \cup (IF n = x THEN P ELSE {})

\* No node of ms holds what it does not hold in ns.
Keeps(ns, ms) == \A n \in DOMAIN ms : ms[n].own \subseteq OwnOf(ns, n)

LEMMA KeepsSame == \A ns : Keeps(ns, ns)
BY DEF Keeps, OwnOf

\* Setting a pointer to a node, or appending one, gives no string to anybody.
LEMMA UpdateKeeps ==
  ASSUME NEW ns, NodesTyped(ns), NEW n, NEW m, NEW b
  PROVE  /\ Keeps(ns, [ns EXCEPT ![n].left = m])
         /\ Keeps(ns, [ns EXCEPT ![n].right = m])
         /\ Keeps(ns, [ns EXCEPT ![n].items = Append(@, m)])
         /\ Keeps(ns, [ns EXCEPT ![n].wrapped = b])
<1>1. \A k \in DOMAIN ns : ns[k] \in NodeRecord
  BY DEF NodesTyped
<1>2. \A rec \in NodeRecord :
        /\ [rec EXCEPT !.left = m].own = rec.own
        /\ [rec EXCEPT !.right = m].own = rec.own
        /\ [rec EXCEPT !.items = Append(@, m)].own = rec.own
        /\ [rec EXCEPT !.wrapped = b].own = rec.own
  BY DEF NodeRecord
<1> QED
  BY <1>1, <1>2 DEF Keeps, OwnOf

\* A new node is the only one to gain anything, and gains what it is made with.
LEMMA NewAcquires ==
  ASSUME NEW ns, NEW ms, Keeps(ns, ms), NEW id, NEW rec, NEW P, rec.own \subseteq P
  PROVE  Acquires(ns, With(ms, id, rec), id, P)
BY DEF Acquires, Keeps, OwnOf, With

\* A new node that is made with nothing changes nothing.
LEMMA NewKeeps ==
  ASSUME NEW ns, NEW ms, Keeps(ns, ms), NEW id, NEW rec, rec.own = {}
  PROVE  Keeps(ns, With(ms, id, rec))
BY DEF Keeps, OwnOf, With

\* Give: the node that is given pointers gains those that are not NULL.
LEMMA GiveAcquires ==
  ASSUME NodesTyped(nodes), NEW n, NEW P
  PROVE  Acquires(nodes, Give(n, P), n, P \ {NULL})
<1>1. \A k \in DOMAIN nodes : nodes[k] \in NodeRecord
  BY DEF NodesTyped
<1>2. \A rec \in NodeRecord :
        [rec EXCEPT !.own = @ \cup (P \ {NULL})].own = rec.own \cup (P \ {NULL})
  BY DEF NodeRecord
<1> QED
  BY <1>1, <1>2 DEF Acquires, OwnOf, Give

\* Rotate moves operators and operands; the strings stay where they are.
LEMMA RotateKeeps ==
  ASSUME NodesTyped(nodes), NEW n \in DOMAIN nodes, NEW r \in DOMAIN nodes
  PROVE  Keeps(nodes, Rotate(n, r))
<1>1. nodes[n] \in NodeRecord /\ nodes[r] \in NodeRecord
  BY DEF NodesTyped
<1>2. \A k \in DOMAIN nodes : Rotate(n, r)[k].own = nodes[k].own
  BY <1>1 DEF Rotate, NodeRecord
<1>3. DOMAIN Rotate(n, r) = DOMAIN nodes
  BY DEF Rotate
<1> QED
  BY <1>2, <1>3 DEF Keeps, OwnOf

-----------------------------------------------------------------------------
(* The four things that may happen to the strings.                         *)

\* StringsNotShared of pointers p, strings ss and nodes ns.
NotShared(p, ss, ns) ==
  /\ \A k \in DOMAIN p : p[k] \in ss \cup {NULL, Wild}
  /\ \A n \in DOMAIN ns : ns[n].own \subseteq ss \cup {Wild}
  /\ \A n \in DOMAIN ns, k \in DOMAIN p : p[k] \in ns[n].own => p[k] = Wild
  /\ \A m, n \in DOMAIN ns : m # n => ns[m].own \cap ns[n].own \subseteq {Wild}

LEMMA NotSharedHere == StringsNotShared <=> NotShared(ptr, strings, nodes)
BY DEF StringsNotShared, NotShared

\* Nothing happens: no node gains a string.
LEMMA LeaveStrings ==
  ASSUME StringsNotShared, UNCHANGED <<ptr, strings>>, Keeps(nodes, nodes')
  PROVE  StringsNotShared'
BY DEF StringsNotShared, Keeps, OwnOf

\* The strings of the tokens in S pass to node x.
LEMMA PassStrings ==
  ASSUME PtrInv, StringsNotShared, NEW S, S \subseteq DOMAIN ptr, Steal(S),
         NEW x, Acquires(nodes, nodes', x, {ptr[k] : k \in S} \ {NULL})
  PROVE  StringsNotShared'
<1> DEFINE P == {ptr[k] : k \in S} \ {NULL}
<1>1. /\ DOMAIN ptr' = DOMAIN ptr /\ strings' = strings
      /\ \A k \in DOMAIN ptr : ptr'[k] = IF k \in S THEN NULL ELSE ptr[k]
  BY DEF Steal
<1>2. /\ \A k \in DOMAIN ptr : ptr[k] \in {NULL, Wild, k}
      /\ NULL \notin strings /\ NULL # Wild
  BY DEF PtrInv, NULL, Wild
<1>3. P \subseteq strings \cup {Wild} /\ NULL \notin P
  BY DEF StringsNotShared
<1>4. \A n \in DOMAIN nodes : OwnOf(nodes, n) \cap P \subseteq {Wild}
  BY DEF StringsNotShared, OwnOf
<1>5. \A k \in DOMAIN ptr \ S : ptr[k] \in P => ptr[k] = Wild
  BY <1>2
<1>6. \A n \in DOMAIN nodes' :
        nodes'[n].own \subseteq OwnOf(nodes, n) \cup (IF n = x THEN P ELSE {})
  BY DEF Acquires
<1>7. \A n : /\ OwnOf(nodes, n) \subseteq strings \cup {Wild}
             /\ OwnOf(nodes, n) \cap P \subseteq {Wild}
             /\ \A k \in DOMAIN ptr : ptr[k] \in OwnOf(nodes, n) => ptr[k] = Wild
             /\ \A m : m # n => OwnOf(nodes, m) \cap OwnOf(nodes, n) \subseteq {Wild}
  BY <1>4 DEF StringsNotShared, OwnOf
<1> HIDE DEF P
<1>8. \A k \in DOMAIN ptr' : ptr'[k] \in strings \cup {NULL, Wild}
  BY <1>1 DEF StringsNotShared
<1>9. \A n \in DOMAIN nodes' : nodes'[n].own \subseteq strings \cup {Wild}
  BY <1>3, <1>6, <1>7
<1>10. ASSUME NEW n \in DOMAIN nodes', NEW k \in DOMAIN ptr', ptr'[k] \in nodes'[n].own
       PROVE  ptr'[k] = Wild
  <2>1. k \notin S
    BY <1>1, <1>2, <1>9, <1>10
  <2> QED
    BY <1>1, <1>5, <1>6, <1>7, <1>10, <2>1
<1>11. \A m, n \in DOMAIN nodes' :
         m # n => nodes'[m].own \cap nodes'[n].own \subseteq {Wild}
  BY <1>6, <1>7
<1> QED
  BY <1>1, <1>8, <1>9, <1>10, <1>11 DEF StringsNotShared

\* The strings of one node are freed with it.
LEMMA FreeNodeStrings ==
  ASSUME PtrInv, StringsNotShared, UNCHANGED ptr, NEW n \in DOMAIN nodes,
         nodes[n].own \subseteq strings,
         nodes' = [m \in DOMAIN nodes \ {n} |-> nodes[m]],
         strings' = strings \ nodes[n].own
  PROVE  StringsNotShared'
<1>1. Wild \notin nodes[n].own
  BY DEF PtrInv, Wild
<1>2. \A k \in DOMAIN ptr : ptr[k] \notin nodes[n].own
  BY <1>1 DEF StringsNotShared
<1>3. \A m \in DOMAIN nodes \ {n} : nodes[m].own \cap nodes[n].own = {}
  BY <1>1 DEF StringsNotShared
<1> QED
  BY <1>2, <1>3 DEF StringsNotShared

\* The strings that are left in the tokens are freed with them.
LEMMA FreeTokenStrings ==
  ASSUME PtrInv, StringsNotShared, UNCHANGED nodes,
         NEW K \in SUBSET DOMAIN ptr, {ptr[k] : k \in K} \ {NULL} \subseteq strings,
         strings' = strings \ ({ptr[k] : k \in K} \ {NULL}),
         ptr' = [k \in DOMAIN ptr |-> NULL]
  PROVE  StringsNotShared'
<1>1. \A k \in K : ptr[k] # Wild
  BY DEF PtrInv, NULL, Wild
<1>2. \A n \in DOMAIN nodes : nodes[n].own \cap ({ptr[k] : k \in K} \ {NULL}) = {}
  BY <1>1 DEF StringsNotShared
<1>3. \A n \in DOMAIN nodes : NULL \notin nodes[n].own
  BY DEF StringsNotShared, PtrInv, NULL, Wild
<1> QED
  BY <1>2, <1>3 DEF StringsNotShared

-----------------------------------------------------------------------------
(* The actions.                                                            *)

\* The tokens that an action reads are tokens there are.
LEMMA Tokens ==
  ASSUME IInv, NEW pc \in Reading, At(pc)
  PROVE  /\ pos \in DOMAIN ptr
         /\ ~LastToken => pos + 1 \in DOMAIN ptr
<1>1. /\ Top.hi \in Nat /\ pos \in 1..Top.hi /\ pos \in Nat
      /\ ~LastToken => pos + 1 <= Top.hi
  BY AtFacts
<1>2. Top.hi <= Len(tokens) /\ Len(tokens) \in Nat /\ DOMAIN ptr = 1..Len(tokens)
  BY TopFacts DEF At, IInv, PtrInv
<1> QED
  BY <1>1, <1>2

\* What a new node is made with.
LEMMA NodeOwn ==
  \A type, at, own : Node(type, at, own).own = own \ {NULL}
BY DEF Node

\* The actions that touch no node and no string.
LEMMA SameHeapStrings ==
  ASSUME StringsNotShared, UNCHANGED heap
  PROVE  StringsNotShared'
BY LeaveStrings, KeepsSame DEF heap

\* The actions that make a node with nothing, and change no string.
LEMMA EmptyNodeStrings ==
  ASSUME StringsNotShared, UNCHANGED <<ptr, strings>>,
         NEW ns, Keeps(nodes, ns), NEW rec, rec.own = {}, New(ns, rec)
  PROVE  StringsNotShared'
BY NewKeeps, LeaveStrings DEF New

\* The actions that make a node with the strings of the tokens in S.
LEMMA NewNodeStrings ==
  ASSUME PtrInv, StringsNotShared, NEW S, S \subseteq DOMAIN ptr, Steal(S),
         NEW ns, Keeps(nodes, ns), NEW type, NEW at,
         New(ns, Node(type, at, {ptr[k] : k \in S}))
  PROVE  StringsNotShared'
<1>1. Acquires(nodes, nodes', nextId, {ptr[k] : k \in S} \ {NULL})
  BY NodeOwn, NewAcquires DEF New
<1> QED
  BY <1>1, PassStrings

\* The actions that give a node the string of token k.
LEMMA GiveStrings ==
  ASSUME IInv, StringsNotShared, NEW k \in DOMAIN ptr, Steal({k}),
         NEW n, nodes' = Give(n, {ptr[k]})
  PROVE  StringsNotShared'
<1>1. {ptr[j] : j \in {k}} = {ptr[k]}
  OBVIOUS
<1>2. Acquires(nodes, nodes', n, {ptr[j] : j \in {k}} \ {NULL})
  BY <1>1, GiveAcquires DEF IInv, NodeInv
<1> QED
  BY <1>2, PassStrings DEF IInv

LEMMA DeclStartStrings == IInv /\ StringsNotShared /\ DeclStart => StringsNotShared'
<1> SUFFICES ASSUME IInv, StringsNotShared, DeclStart PROVE StringsNotShared'
  OBVIOUS
<1>1. CASE UNCHANGED heap
  BY <1>1, SameHeapStrings
<1>2. CASE New(nodes, Node("decl", pos, {})) /\ UNCHANGED <<ptr, strings>>
  BY <1>2, KeepsSame, NodeOwn, EmptyNodeStrings
<1> QED
  BY <1>1, <1>2 DEF DeclStart

LEMMA DeclNameStrings == IInv /\ StringsNotShared /\ DeclName => StringsNotShared'
<1> SUFFICES ASSUME IInv, StringsNotShared, DeclName PROVE StringsNotShared'
  OBVIOUS
<1>1. CASE UNCHANGED heap
  BY <1>1, SameHeapStrings
<1>2. CASE /\ New([nodes EXCEPT ![Top.res].left = nextId],
                  Node("string", pos, {ptr[pos]}))
           /\ Steal({pos})
  <2>1. pos \in DOMAIN ptr
    BY Tokens, Points DEF DeclName
  <2>2. {ptr[k] : k \in {pos}} = {ptr[pos]}
    OBVIOUS
  <2>3. Keeps(nodes, [nodes EXCEPT ![Top.res].left = nextId])
    BY UpdateKeeps DEF IInv, NodeInv
  <2> QED
    BY <1>2, <2>1, <2>2, <2>3, NewNodeStrings DEF IInv
<1> QED
  BY <1>1, <1>2 DEF DeclName

LEMMA DeclTypeStrings == IInv /\ StringsNotShared /\ DeclType => StringsNotShared'
<1> SUFFICES ASSUME IInv, StringsNotShared, DeclType PROVE StringsNotShared'
  OBVIOUS
<1>1. CASE UNCHANGED heap
  BY <1>1, SameHeapStrings
<1>2. CASE nodes' = Give(Top.res, {ptr[pos]}) /\ Steal({pos})
  BY <1>2, Tokens, Points, GiveStrings DEF DeclType
<1> QED
  BY <1>1, <1>2 DEF DeclType

LEMMA DeclValueStrings == IInv /\ StringsNotShared /\ DeclValue => StringsNotShared'
<1> SUFFICES ASSUME IInv, StringsNotShared, DeclValue PROVE StringsNotShared'
  OBVIOUS
<1>1. /\ nodes' = [nodes EXCEPT ![Top.res].right = ret.expr]
      /\ UNCHANGED <<ptr, strings>>
  BY DEF DeclValue
<1>2. Keeps(nodes, [nodes EXCEPT ![Top.res].right = ret.expr])
  BY UpdateKeeps DEF IInv, NodeInv
<1> QED
  BY <1>1, <1>2, LeaveStrings

LEMMA VariableStrings == IInv /\ StringsNotShared /\ Variable => StringsNotShared'
<1> SUFFICES ASSUME IInv, StringsNotShared, Variable PROVE StringsNotShared'
  OBVIOUS
<1>1. pos \in DOMAIN ptr
  BY Tokens, Points DEF Variable
<1>2. {ptr[k] : k \in {pos}} = {ptr[pos]}
  OBVIOUS
<1>3. New(nodes, Node("var", pos, {ptr[pos]})) /\ Steal({pos})
  BY DEF Variable
<1> QED
  BY <1>1, <1>2, <1>3, KeepsSame, NewNodeStrings DEF IInv

LEMMA LiteralStrings == IInv /\ StringsNotShared /\ Literal => StringsNotShared'
<1> SUFFICES ASSUME IInv, StringsNotShared, Literal PROVE StringsNotShared'
  OBVIOUS
<1> DEFINE S == IF Token = "string" THEN {pos} ELSE {}
<1>1. S \subseteq DOMAIN ptr
  BY Tokens, Points DEF Literal
<1>2. {ptr[k] : k \in S} = IF Token = "string" THEN {ptr[pos]} ELSE {}
  OBVIOUS
<1>3. New(nodes, Node(Token, pos, {ptr[k] : k \in S})) /\ Steal(S)
  BY <1>2 DEF Literal
<1> QED
  BY <1>1, <1>3, KeepsSame, NewNodeStrings DEF IInv

LEMMA ParenCloseStrings == IInv /\ StringsNotShared /\ ParenClose => StringsNotShared'
<1> SUFFICES ASSUME IInv, StringsNotShared, ParenClose PROVE StringsNotShared'
  OBVIOUS
<1> DEFINE b == nodes[ret.expr].type = "oper"
<1>1. Keeps(nodes, [nodes EXCEPT ![ret.expr].wrapped = b])
  BY UpdateKeeps DEF IInv, NodeInv
<1>2. nodes' = nodes \/ nodes' = [nodes EXCEPT ![ret.expr].wrapped = b]
  BY DEF ParenClose
<1>3. Keeps(nodes, nodes')
  BY <1>1, <1>2, KeepsSame
<1> QED
  BY <1>3, LeaveStrings DEF ParenClose

LEMMA NextLabelStrings == IInv /\ StringsNotShared /\ NextLabel => StringsNotShared'
<1> SUFFICES ASSUME IInv, StringsNotShared, NextLabel PROVE StringsNotShared'
  OBVIOUS
<1> DEFINE rec == [Node("oper", pos, {}) EXCEPT !.op = Token, !.left = Top.res]
<1>1. CASE UNCHANGED heap
  BY <1>1, SameHeapStrings
<1>2. CASE New(nodes, rec) /\ UNCHANGED <<ptr, strings>>
  <2>1. rec.own = {}
    BY DEF Node
  <2> QED
    BY <1>2, <2>1, KeepsSame, EmptyNodeStrings
<1> QED
  BY <1>1, <1>2 DEF NextLabel

LEMMA OperandStrings == IInv /\ StringsNotShared /\ Operand => StringsNotShared'
<1> SUFFICES ASSUME IInv, StringsNotShared, Operand PROVE StringsNotShared'
  OBVIOUS
<1>1. /\ nodes' = [nodes EXCEPT ![Top.res].right = ret.expr]
      /\ UNCHANGED <<ptr, strings>>
  BY DEF Operand
<1>2. Keeps(nodes, [nodes EXCEPT ![Top.res].right = ret.expr])
  BY UpdateKeeps DEF IInv, NodeInv
<1> QED
  BY <1>1, <1>2, LeaveStrings

LEMMA FuncStartStrings == IInv /\ StringsNotShared /\ FuncStart => StringsNotShared'
<1> SUFFICES ASSUME IInv, StringsNotShared, FuncStart PROVE StringsNotShared'
  OBVIOUS
<1>1. CASE UNCHANGED heap
  BY <1>1, SameHeapStrings
<1>2. CASE New(nodes, Node("func", pos, {})) /\ UNCHANGED <<ptr, strings>>
  BY <1>2, KeepsSame, NodeOwn, EmptyNodeStrings
<1> QED
  BY <1>1, <1>2 DEF FuncStart

LEMMA FuncNameStrings == IInv /\ StringsNotShared /\ FuncName => StringsNotShared'
<1> SUFFICES ASSUME IInv, StringsNotShared, FuncName PROVE StringsNotShared'
  OBVIOUS
<1>1. CASE UNCHANGED <<ptr, strings, nodes>>
  BY <1>1, KeepsSame, LeaveStrings
<1>2. CASE nodes' = Give(Top.res, {ptr[pos]}) /\ Steal({pos})
  BY <1>2, Tokens, Points, GiveStrings DEF FuncName
<1> QED
  BY <1>1, <1>2 DEF FuncName

LEMMA FuncArgStrings == IInv /\ StringsNotShared /\ FuncArg => StringsNotShared'
<1> SUFFICES ASSUME IInv, StringsNotShared, FuncArg PROVE StringsNotShared'
  OBVIOUS
<1> DEFINE taken == IF LastToken THEN {pos} ELSE {pos, pos + 1}
           ns == [nodes EXCEPT ![Top.res].items = Append(@, nextId)]
<1>1. CASE UNCHANGED heap
  BY <1>1, SameHeapStrings
<1>2. CASE Steal(taken) /\ New(ns, Node("arg", pos, {ptr[k] : k \in taken}))
  <2>1. taken \subseteq DOMAIN ptr
    BY Tokens, Points DEF FuncArg
  <2>2. Keeps(nodes, ns)
    BY UpdateKeeps DEF IInv, NodeInv
  <2> QED
    BY <1>2, <2>1, <2>2, NewNodeStrings DEF IInv
<1> QED
  BY <1>1, <1>2 DEF FuncArg

LEMMA FuncReturnStrings == IInv /\ StringsNotShared /\ FuncReturn => StringsNotShared'
<1> SUFFICES ASSUME IInv, StringsNotShared, FuncReturn PROVE StringsNotShared'
  OBVIOUS
<1>1. CASE UNCHANGED <<ptr, strings, nodes>>
  BY <1>1, KeepsSame, LeaveStrings
<1>2. CASE /\ Follows(Identifiers)
           /\ nodes' = Give(Top.res, {ptr[pos + 1]}) /\ Steal({pos + 1})
  <2>1. pos + 1 \in DOMAIN ptr
    BY <1>2, Tokens, Points DEF FuncReturn, Follows
  <2> QED
    BY <1>2, <2>1, GiveStrings
<1> QED
  BY <1>1, <1>2 DEF FuncReturn

LEMMA ScopeOpenStrings == IInv /\ StringsNotShared /\ ScopeOpen => StringsNotShared'
<1> SUFFICES ASSUME IInv, StringsNotShared, ScopeOpen PROVE StringsNotShared'
  OBVIOUS
<1>1. UNCHANGED <<ptr, strings>>
  BY DEF ScopeOpen
<1>2. CASE UNCHANGED <<nodes, nextId>>
  BY <1>1, <1>2, KeepsSame, LeaveStrings
<1>3. CASE New(nodes, Node("body", pos, {}))
  BY <1>1, <1>3, KeepsSame, NodeOwn, EmptyNodeStrings
<1> QED
  BY <1>2, <1>3 DEF ScopeOpen

LEMMA ScopeEndStrings == IInv /\ StringsNotShared /\ ScopeEnd => StringsNotShared'
<1> SUFFICES ASSUME IInv, StringsNotShared, ScopeEnd PROVE StringsNotShared'
  OBVIOUS
<1> DEFINE Scope == [Node("scope", Top.close, {}) EXCEPT !.left = ret.expr]
<1>1. UNCHANGED <<ptr, strings>>
  BY DEF ScopeEnd
<1>2. Scope.own = {}
  BY DEF Node
<1>3. CASE UNCHANGED <<nodes, nextId>>
  BY <1>1, <1>3, KeepsSame, LeaveStrings
<1>4. CASE New(nodes, Scope)
  BY <1>1, <1>2, <1>4, KeepsSame, EmptyNodeStrings
<1>5. ASSUME NEW func, New([nodes EXCEPT ![func].left = nextId], Scope)
      PROVE  StringsNotShared'
  <2>1. Keeps(nodes, [nodes EXCEPT ![func].left = nextId])
    BY UpdateKeeps DEF IInv, NodeInv
  <2> QED
    BY <1>1, <1>2, <1>5, <2>1, EmptyNodeStrings
<1> HIDE DEF Scope
<1> QED
  BY <1>3, <1>4, <1>5 DEF ScopeEnd, Scope

LEMMA BodyItemStrings == IInv /\ StringsNotShared /\ BodyItem => StringsNotShared'
<1> SUFFICES ASSUME IInv, StringsNotShared, BodyItem PROVE StringsNotShared'
  OBVIOUS
<1> DEFINE ns == [nodes EXCEPT ![Top.res].items = Append(@, ret.expr)]
<1>1. Keeps(nodes, ns)
  BY UpdateKeeps DEF IInv, NodeInv
<1>2. nodes' = nodes \/ nodes' = ns
  BY DEF BodyItem
<1>3. Keeps(nodes, nodes')
  BY <1>1, <1>2, KeepsSame
<1> QED
  BY <1>3, LeaveStrings DEF BodyItem

LEMMA ProcessOperationStrings ==
  IInv /\ StringsNotShared /\ process_operation => StringsNotShared'
<1> SUFFICES ASSUME IInv, StringsNotShared, process_operation PROVE StringsNotShared'
  OBVIOUS
<1> DEFINE n == Head(calls).node
           r == nodes[n].right
<1>1. UNCHANGED <<ptr, strings>>
  BY DEF process_operation
<1>2. CASE UNCHANGED nodes
  BY <1>1, <1>2, KeepsSame, LeaveStrings
<1>3. CASE n \in DOMAIN nodes /\ r \in DOMAIN nodes /\ nodes' = Rotate(n, r)
  BY <1>1, <1>3, RotateKeeps, LeaveStrings DEF IInv, NodeInv
<1> QED
  BY <1>2, <1>3 DEF process_operation

LEMMA DestroyNodeStrings ==
  IInv /\ StringsNotShared /\ DestroyNode => StringsNotShared'
<1> SUFFICES ASSUME IInv, StringsNotShared, DestroyNode PROVE StringsNotShared'
  OBVIOUS
<1> DEFINE n == Head(calls).node
<1>1. UNCHANGED ptr
  BY DEF DestroyNode
<1>2. CASE UNCHANGED <<nodes, strings>>
  BY <1>1, <1>2, KeepsSame, LeaveStrings
<1>3. CASE /\ n \in DOMAIN nodes /\ nodes[n].own \subseteq strings
           /\ nodes' = [m \in DOMAIN nodes \ {n} |-> nodes[m]]
           /\ strings' = strings \ nodes[n].own
  BY <1>1, <1>3, FreeNodeStrings DEF IInv
<1> QED
  BY <1>2, <1>3 DEF DestroyNode

LEMMA LexerFreeStrings == IInv /\ StringsNotShared /\ LexerFree => StringsNotShared'
<1> SUFFICES ASSUME IInv, StringsNotShared, LexerFree PROVE StringsNotShared'
  OBVIOUS
<1> DEFINE K == {k \in DOMAIN ptr : tokens[k] \in Identifiers \cup {"string"}}
           left == {ptr[k] : k \in K} \ {NULL}
<1>1. UNCHANGED nodes
  BY DEF LexerFree
<1>2. CASE UNCHANGED <<ptr, strings>>
  BY <1>1, <1>2, KeepsSame, LeaveStrings
<1>3. CASE /\ left \subseteq strings /\ strings' = strings \ left
           /\ ptr' = [k \in DOMAIN ptr |-> NULL]
  BY <1>1, <1>3, FreeTokenStrings DEF IInv
<1> QED
  BY <1>2, <1>3 DEF LexerFree

\* Before the first step the tokens hold all strings there are.
LEMMA InitStrings == Init => StringsNotShared
<1> SUFFICES ASSUME Init PROVE StringsNotShared
  OBVIOUS
<1>1. /\ DOMAIN ptr = 1..Len(tokens)
      /\ \A k \in DOMAIN ptr : ptr[k] = PtrOf(k, tokens[k])
      /\ strings = {k \in 1..Len(tokens) : PtrOf(k, tokens[k]) = k}
  BY DEF Init
<1>2. \A k \in DOMAIN ptr : ptr[k] \in strings \cup {NULL, Wild}
  BY <1>1 DEF PtrOf
<1>3. DOMAIN nodes = {1} /\ nodes[1].own = {}
  BY DEF Init, Node
<1> QED
  BY <1>2, <1>3 DEF StringsNotShared

\* Every step of the program keeps the strings apart.
LEMMA NextStrings == IInv /\ StringsNotShared /\ [Next]_vars => StringsNotShared'
<1> SUFFICES ASSUME IInv, StringsNotShared, [Next]_vars PROVE StringsNotShared'
  OBVIOUS
<1>1. CASE UNCHANGED heap
  BY <1>1, SameHeapStrings
<1>2. CASE DeclMark \/ DeclAssign \/ SkipToken \/ RejectToken \/ ParenOpen \/ Settle
           \/ BodyNext \/ PrintAst \/ Stop
  BY <1>1, <1>2 DEF DeclMark, DeclAssign, SkipToken, RejectToken, ParenOpen, Settle,
     BodyNext, PrintAst, Stop, vars
<1> QED
  BY <1>1, <1>2, DeclStartStrings, DeclNameStrings, DeclTypeStrings, DeclValueStrings,
     VariableStrings, LiteralStrings, ParenCloseStrings, NextLabelStrings,
     OperandStrings, FuncStartStrings, FuncNameStrings, FuncArgStrings,
     FuncReturnStrings, ScopeOpenStrings, ScopeEndStrings, BodyItemStrings,
     ProcessOperationStrings, DestroyNodeStrings, LexerFreeStrings
  DEF Next, vars

-----------------------------------------------------------------------------
(* The first theorem.                                                      *)

\* On every program, accepted or not, and even if a scope is given to a
\* function that has one already (ast.c:772), no two tokens or nodes hold the
\* same string and nobody holds a string that was freed: no string is freed
\* twice.
THEOREM StringsFreedOnce == Spec => []StringsNotShared
<1>1. Init => IInv /\ StringsNotShared
  BY InitInv, InitStrings
<1>2. IInv /\ StringsNotShared /\ [Next]_vars => (IInv /\ StringsNotShared)'
  BY NextInv, NextStrings
<1> QED
  BY <1>1, <1>2, PTL DEF Spec

-----------------------------------------------------------------------------
(* What a step does to the strings.                                        *)

\* The nodes of ns, in the place of those there are, hold all that those hold.
Spares(ns) == \A n \in DOMAIN nodes : n \in DOMAIN ns /\ nodes[n].own \subseteq ns[n].own

\* The strings stay where they are.
Leaves == UNCHANGED <<ptr, strings>> /\ Spares(nodes')

\* The strings of the tokens in S pass to node x.
Passes(S, x) ==
  /\ S \subseteq DOMAIN ptr /\ Steal(S) /\ Spares(nodes')
  /\ x \in DOMAIN nodes' /\ {ptr[k] : k \in S} \ {NULL} \subseteq nodes'[x].own

Carries == Leaves \/ \E S, x : Passes(S, x)

LEMMA SparesSame == Spares(nodes)
BY DEF Spares

\* Setting a pointer to a node, giving a node strings, or Rotate.
LEMMA UpdateSpares ==
  ASSUME NodesTyped(nodes), NEW n, NEW m, NEW b, NEW P
  PROVE  /\ Spares([nodes EXCEPT ![n].left = m])
         /\ Spares([nodes EXCEPT ![n].right = m])
         /\ Spares([nodes EXCEPT ![n].items = Append(@, m)])
         /\ Spares([nodes EXCEPT ![n].wrapped = b])
         /\ Spares(Give(n, P))
<1>1. \A k \in DOMAIN nodes : nodes[k] \in NodeRecord
  BY DEF NodesTyped
<1>2. \A rec \in NodeRecord :
        /\ [rec EXCEPT !.left = m].own = rec.own
        /\ [rec EXCEPT !.right = m].own = rec.own
        /\ [rec EXCEPT !.items = Append(@, m)].own = rec.own
        /\ [rec EXCEPT !.wrapped = b].own = rec.own
        /\ [rec EXCEPT !.own = @ \cup (P \ {NULL})].own = rec.own \cup (P \ {NULL})
  BY DEF NodeRecord
<1> QED
  BY <1>1, <1>2 DEF Spares, Give

LEMMA RotateSpares ==
  ASSUME NodesTyped(nodes), NEW n \in DOMAIN nodes, NEW r \in DOMAIN nodes
  PROVE  Spares(Rotate(n, r))
<1>1. nodes[n] \in NodeRecord /\ nodes[r] \in NodeRecord
  BY DEF NodesTyped
<1>2. \A k \in DOMAIN nodes : Rotate(n, r)[k].own = nodes[k].own
  BY <1>1 DEF Rotate, NodeRecord
<1>3. DOMAIN Rotate(n, r) = DOMAIN nodes
  BY DEF Rotate
<1> QED
  BY <1>2, <1>3 DEF Spares

\* A new node, which takes no name that is in use.
LEMMA NewSpares ==
  ASSUME nextId \notin DOMAIN nodes, NEW ns, Spares(ns), NEW rec, New(ns, rec)
  PROVE  Spares(nodes') /\ nextId \in DOMAIN nodes' /\ nodes'[nextId] = rec
<1>1. nodes' = With(ns, nextId, rec)
  BY DEF New
<1>2. /\ DOMAIN nodes' = DOMAIN ns \cup {nextId} /\ nodes'[nextId] = rec
      /\ \A m \in DOMAIN ns : m # nextId => nodes'[m] = ns[m]
  BY <1>1 DEF With
<1> QED
  BY <1>2 DEF Spares

LEMMA NewLeaves ==
  ASSUME UNCHANGED <<ptr, strings>>, nextId \notin DOMAIN nodes,
         NEW ns, Spares(ns), NEW rec, New(ns, rec)
  PROVE  Carries
BY NewSpares DEF Carries, Leaves

LEMMA NewPasses ==
  ASSUME nextId \notin DOMAIN nodes, NEW S, S \subseteq DOMAIN ptr, Steal(S),
         NEW ns, Spares(ns), NEW type, NEW at,
         New(ns, Node(type, at, {ptr[k] : k \in S}))
  PROVE  Carries
<1>1. Passes(S, nextId)
  BY NewSpares, NodeOwn DEF Passes
<1> QED
  BY <1>1 DEF Carries

LEMMA GivePasses ==
  ASSUME NodesTyped(nodes), NEW k \in DOMAIN ptr, Steal({k}),
         NEW n \in DOMAIN nodes, nodes' = Give(n, {ptr[k]})
  PROVE  Carries
<1>1. {ptr[j] : j \in {k}} \ {NULL} \subseteq nodes'[n].own /\ n \in DOMAIN nodes'
  <2>1. nodes[n] \in NodeRecord
    BY DEF NodesTyped
  <2>2. \A rec \in NodeRecord : {ptr[k]} \ {NULL} \subseteq
          [rec EXCEPT !.own = @ \cup ({ptr[k]} \ {NULL})].own
    BY DEF NodeRecord
  <2> QED
    BY <2>1, <2>2 DEF Give
<1>2. Passes({k}, n)
  BY <1>1, UpdateSpares DEF Passes
<1> QED
  BY <1>2 DEF Carries

\* The function or declaration that a call is at work on.
LEMMA TopHeld ==
  ASSUME IInv, NodesInv, NEW pc \in {"declType", "funcName", "funcArgs"}, At(pc)
  PROVE  Top.res \in DOMAIN nodes /\ pos \in DOMAIN ptr
<1>1. Top.res \in DOMAIN nodes \cup {NULL} /\ FrameOK(Top, nodes) /\ Top.pc = pc
  BY AtNodes
<1>2. Top.res # NULL
  BY <1>1 DEF FrameOK
<1>3. pc \in Reading
  BY DEF Reading
<1> QED
  BY <1>1, <1>2, <1>3, Tokens

-----------------------------------------------------------------------------
(* The actions of the parser.                                              *)

LEMMA FreshId == IInv /\ NodesInv => nextId \notin DOMAIN nodes
BY DEF NodesInv, Small, IInv, NodeInv

LEMMA SameHeapMoves == UNCHANGED heap => Carries
BY SparesSame DEF Carries, Leaves, heap

LEMMA DeclMoves ==
  ASSUME IInv, NodesInv, DeclStart \/ DeclName \/ DeclType \/ DeclValue
  PROVE  Carries
<1>0. nextId \notin DOMAIN nodes /\ NodesTyped(nodes)
  BY FreshId DEF IInv, NodeInv
<1>1. CASE DeclStart
  <2>1. CASE New(nodes, Node("decl", pos, {})) /\ UNCHANGED <<ptr, strings>>
    BY <1>0, <2>1, SparesSame, NewLeaves
  <2> QED
    BY <1>1, <2>1, SameHeapMoves DEF DeclStart
<1>2. CASE DeclName
  <2>1. CASE /\ New([nodes EXCEPT ![Top.res].left = nextId],
                    Node("string", pos, {ptr[pos]}))
             /\ Steal({pos})
    <3>1. pos \in DOMAIN ptr /\ {ptr[k] : k \in {pos}} = {ptr[pos]}
      BY <1>2, Tokens, Points DEF DeclName
    <3>2. Spares([nodes EXCEPT ![Top.res].left = nextId])
      BY <1>0, UpdateSpares
    <3> QED
      BY <1>0, <2>1, <3>1, <3>2, NewPasses
  <2> QED
    BY <1>2, <2>1, SameHeapMoves DEF DeclName
<1>3. CASE DeclType
  <2>1. CASE nodes' = Give(Top.res, {ptr[pos]}) /\ Steal({pos})
    BY <1>0, <1>3, <2>1, TopHeld, GivePasses DEF DeclType
  <2> QED
    BY <1>3, <2>1, SameHeapMoves DEF DeclType
<1>4. CASE DeclValue
  BY <1>0, <1>4, UpdateSpares DEF DeclValue, Carries, Leaves
<1> QED
  BY <1>1, <1>2, <1>3, <1>4

LEMMA OperandMoves ==
  ASSUME IInv, NodesInv, Variable \/ Literal \/ ParenClose \/ NextLabel \/ Operand
  PROVE  Carries
<1>0. nextId \notin DOMAIN nodes /\ NodesTyped(nodes)
  BY FreshId DEF IInv, NodeInv
<1>1. CASE Variable
  <2>1. pos \in DOMAIN ptr /\ {ptr[k] : k \in {pos}} = {ptr[pos]}
    BY <1>1, Tokens, Points DEF Variable
  <2>2. New(nodes, Node("var", pos, {ptr[pos]})) /\ Steal({pos})
    BY <1>1 DEF Variable
  <2> QED
    BY <1>0, <2>1, <2>2, SparesSame, NewPasses
<1>2. CASE Literal
  <2> DEFINE S == IF Token = "string" THEN {pos} ELSE {}
  <2>1. S \subseteq DOMAIN ptr
    BY <1>2, Tokens, Points DEF Literal
  <2>2. {ptr[k] : k \in S} = IF Token = "string" THEN {ptr[pos]} ELSE {}
    OBVIOUS
  <2>3. New(nodes, Node(Token, pos, {ptr[k] : k \in S})) /\ Steal(S)
    BY <1>2, <2>2 DEF Literal
  <2> QED
    BY <1>0, <2>1, <2>3, SparesSame, NewPasses
<1>3. CASE ParenClose
  <2> DEFINE b == nodes[ret.expr].type = "oper"
  <2>1. Spares([nodes EXCEPT ![ret.expr].wrapped = b])
    BY <1>0, UpdateSpares
  <2>2. nodes' = nodes \/ nodes' = [nodes EXCEPT ![ret.expr].wrapped = b]
    BY <1>3 DEF ParenClose
  <2>3. Spares(nodes')
    BY <2>1, <2>2, SparesSame
  <2> QED
    BY <1>3, <2>3 DEF ParenClose, Carries, Leaves
<1>4. CASE NextLabel
  <2>1. CASE \E rec : New(nodes, rec) /\ UNCHANGED <<ptr, strings>>
    BY <1>0, <2>1, SparesSame, NewLeaves
  <2> QED
    BY <1>4, <2>1, SameHeapMoves DEF NextLabel
<1>5. CASE Operand
  BY <1>0, <1>5, UpdateSpares DEF Operand, Carries, Leaves
<1> QED
  BY <1>1, <1>2, <1>3, <1>4, <1>5

LEMMA FuncMoves ==
  ASSUME IInv, NodesInv, FuncStart \/ FuncName \/ FuncArg \/ FuncReturn
  PROVE  Carries
<1>0. nextId \notin DOMAIN nodes /\ NodesTyped(nodes)
  BY FreshId DEF IInv, NodeInv
<1>1. CASE UNCHANGED <<ptr, strings, nodes>>
  BY <1>1, SparesSame DEF Carries, Leaves
<1>2. CASE FuncStart
  <2>1. CASE New(nodes, Node("func", pos, {})) /\ UNCHANGED <<ptr, strings>>
    BY <1>0, <2>1, SparesSame, NewLeaves
  <2> QED
    BY <1>2, <2>1, SameHeapMoves DEF FuncStart
<1>3. CASE FuncName
  <2>1. CASE nodes' = Give(Top.res, {ptr[pos]}) /\ Steal({pos})
    BY <1>0, <1>3, <2>1, TopHeld, GivePasses DEF FuncName
  <2> QED
    BY <1>1, <1>3, <2>1 DEF FuncName
<1>4. CASE FuncArg
  <2> DEFINE taken == IF LastToken THEN {pos} ELSE {pos, pos + 1}
             ns == [nodes EXCEPT ![Top.res].items = Append(@, nextId)]
  <2>1. CASE Steal(taken) /\ New(ns, Node("arg", pos, {ptr[k] : k \in taken}))
    <3>1. taken \subseteq DOMAIN ptr
      BY <1>4, Tokens, Points DEF FuncArg
    <3>2. Spares(ns)
      BY <1>0, UpdateSpares
    <3> QED
      BY <1>0, <2>1, <3>1, <3>2, NewPasses
  <2> QED
    BY <1>4, <2>1, SameHeapMoves DEF FuncArg
<1>5. CASE FuncReturn
  <2>1. CASE /\ Follows(Identifiers)
             /\ nodes' = Give(Top.res, {ptr[pos + 1]}) /\ Steal({pos + 1})
    <3>1. pos + 1 \in DOMAIN ptr
      BY <1>5, <2>1, Tokens, Points DEF FuncReturn, Follows
    <3>2. Top.res \in DOMAIN nodes
      BY <1>5, TopHeld DEF FuncReturn
    <3> QED
      BY <1>0, <2>1, <3>1, <3>2, GivePasses
  <2> QED
    BY <1>1, <1>5, <2>1 DEF FuncReturn
<1> QED
  BY <1>2, <1>3, <1>4, <1>5

LEMMA ScopeMoves ==
  ASSUME IInv, NodesInv, ScopeOpen \/ ScopeEnd \/ BodyItem \/ process_operation
  PROVE  Carries
<1>0. nextId \notin DOMAIN nodes /\ NodesTyped(nodes)
  BY FreshId DEF IInv, NodeInv
<1>1. UNCHANGED <<ptr, strings>>
  BY DEF ScopeOpen, ScopeEnd, BodyItem, process_operation
<1>2. CASE UNCHANGED nodes
  BY <1>1, <1>2, SparesSame DEF Carries, Leaves
<1>3. CASE \E rec : New(nodes, rec)
  BY <1>0, <1>1, <1>3, SparesSame, NewLeaves
<1>4. CASE ScopeOpen
  BY <1>2, <1>3, <1>4 DEF ScopeOpen
<1>5. CASE ScopeEnd
  <2>1. ASSUME NEW func, NEW rec, New([nodes EXCEPT ![func].left = nextId], rec)
        PROVE  Carries
    <3>1. Spares([nodes EXCEPT ![func].left = nextId])
      BY <1>0, UpdateSpares
    <3> QED
      BY <1>0, <1>1, <2>1, <3>1, NewLeaves
  <2> QED
    BY <1>2, <1>3, <1>5, <2>1 DEF ScopeEnd
<1>6. CASE BodyItem
  <2>1. CASE nodes' = [nodes EXCEPT ![Top.res].items = Append(@, ret.expr)]
    BY <1>0, <1>1, <2>1, UpdateSpares DEF Carries, Leaves
  <2> QED
    BY <1>2, <1>6, <2>1 DEF BodyItem
<1>7. CASE process_operation
  <2> DEFINE n == Head(calls).node
             r == nodes[n].right
  <2>1. CASE n \in DOMAIN nodes /\ r \in DOMAIN nodes /\ nodes' = Rotate(n, r)
    BY <1>0, <1>1, <2>1, RotateSpares DEF Carries, Leaves
  <2> QED
    BY <1>2, <1>7, <2>1 DEF process_operation
<1> QED
  BY <1>4, <1>5, <1>6, <1>7

\* Every step of the parser leaves the strings or passes some to a node.
Parses ==
  \/ DeclStart \/ DeclName \/ DeclMark \/ DeclType \/ DeclAssign \/ DeclValue
  \/ SkipToken \/ RejectToken \/ Variable \/ Literal
  \/ ParenOpen \/ ParenClose \/ NextLabel \/ Operand \/ Settle
  \/ FuncStart \/ FuncName \/ FuncArg \/ FuncReturn
  \/ ScopeOpen \/ ScopeEnd \/ BodyNext \/ BodyItem \/ process_operation

LEMMA ParsesMoves == IInv /\ NodesInv /\ Parses => Carries /\ UNCHANGED <<tokens, phase>>
<1> SUFFICES ASSUME IInv, NodesInv, Parses PROVE Carries /\ UNCHANGED <<tokens, phase>>
  OBVIOUS
<1>1. UNCHANGED <<tokens, phase>>
  BY DEF Parses, DeclStart, DeclName, DeclMark, DeclType, DeclAssign, DeclValue, SkipToken,
     RejectToken, Variable, Literal, ParenOpen, ParenClose, NextLabel, Operand, Settle,
     FuncStart, FuncName, FuncArg, FuncReturn, ScopeOpen, ScopeEnd, BodyNext, BodyItem,
     process_operation, At, Pending
<1>2. CASE DeclMark \/ DeclAssign \/ SkipToken \/ RejectToken \/ ParenOpen \/ Settle
           \/ BodyNext
  BY <1>1, <1>2, SameHeapMoves DEF DeclMark, DeclAssign, SkipToken, RejectToken, ParenOpen,
     Settle, BodyNext
<1> QED
  BY <1>1, <1>2, DeclMoves, OperandMoves, FuncMoves, ScopeMoves DEF Parses

-----------------------------------------------------------------------------
(* The destructors and lexer_free.                                         *)

\* The strings of one node are freed with it.
FreesNode(n) ==
  /\ n \in DOMAIN nodes /\ nodes[n].own \subseteq strings
  /\ nodes' = [m \in DOMAIN nodes \ {n} |-> nodes[m]]
  /\ strings' = strings \ nodes[n].own
  /\ UNCHANGED ptr

\* The strings that are left in the tokens are freed with them.
FreesTokens ==
  LET left == {ptr[k] : k \in {k \in DOMAIN ptr :
                 tokens[k] \in Identifiers \cup {"string"}}} \ {NULL}
  IN  /\ left \subseteq strings /\ strings' = strings \ left
      /\ ptr' = [k \in DOMAIN ptr |-> NULL]
      /\ UNCHANGED nodes

LEMMA DestroyMoves ==
  DestroyNode => UNCHANGED <<tokens, phase>> /\ (Leaves \/ \E n : FreesNode(n))
<1> SUFFICES ASSUME DestroyNode
             PROVE  UNCHANGED <<tokens, phase>> /\ (Leaves \/ \E n : FreesNode(n))
  OBVIOUS
<1> DEFINE n == Head(calls).node
<1>1. UNCHANGED <<tokens, phase, ptr>>
  BY DEF DestroyNode, Pending
<1>2. CASE UNCHANGED <<nodes, strings>>
  BY <1>1, <1>2, SparesSame DEF Leaves
<1>3. CASE /\ n \in DOMAIN nodes /\ nodes[n].own \subseteq strings
           /\ nodes' = [m \in DOMAIN nodes \ {n} |-> nodes[m]]
           /\ strings' = strings \ nodes[n].own
  BY <1>1, <1>3 DEF FreesNode
<1> QED
  BY <1>1, <1>2, <1>3 DEF DestroyNode

LEMMA PrintMoves == PrintAst => Leaves /\ UNCHANGED tokens
BY SparesSame DEF PrintAst, Leaves, heap

LEMMA FreeMoves ==
  LexerFree => /\ UNCHANGED <<tokens, nodes, stack, ret, calls>>
               /\ \/ Leaves /\ UNCHANGED phase /\ fault' # "none"
                  \/ FreesTokens /\ phase' = "exit" /\ UNCHANGED fault
BY SparesSame DEF LexerFree, Leaves, FreesTokens

\* Every step, by what it does to the strings.
LEMMA StringSteps ==
  ASSUME IInv, NodesInv, [Next]_vars
  PROVE  /\ UNCHANGED tokens
         /\ \/ Carries
            \/ \E n : FreesNode(n)
            \/ LexerFree /\ FreesTokens
<1>1. CASE UNCHANGED vars
  BY <1>1, SameHeapMoves DEF vars
<1>2. CASE Parses
  BY <1>2, ParsesMoves
<1>3. CASE DestroyNode \/ PrintAst \/ LexerFree
  BY <1>3, DestroyMoves, PrintMoves, FreeMoves DEF Carries
<1> QED
  BY <1>1, <1>2, <1>3 DEF Next, Parses, Stop

-----------------------------------------------------------------------------
(* No string is lost.                                                      *)

\* The strings are those of tokens that have one, as the lexer made them.
Cloned == strings \subseteq {k \in DOMAIN tokens : PtrOf(k, tokens[k]) = k}

LEMMA ClonedKinds ==
  ASSUME IInv, Cloned, NEW k \in strings
  PROVE  /\ k \in DOMAIN ptr /\ k \in DOMAIN tokens /\ k \in Nat \ {NULL}
         /\ k # Wild /\ PtrOf(k, tokens[k]) = k
         /\ tokens[k] \in Identifiers \cup {"string"}
<1>1. /\ k \in DOMAIN tokens /\ PtrOf(k, tokens[k]) = k
      /\ k \in 1..Len(tokens) /\ DOMAIN ptr = 1..Len(tokens) /\ Len(tokens) \in Nat
  BY LenProperties DEF Cloned, IInv, PtrInv, StackInv
<1>2. k \in Nat \ {NULL} /\ k # Wild
  BY <1>1 DEF NULL, Wild
<1> QED
  BY <1>1, <1>2 DEF PtrOf

LEMMA CarriesKeep ==
  ASSUME IInv, Cloned, StringsNotLost, UNCHANGED tokens, Carries
  PROVE  Cloned' /\ StringsNotLost' /\ UNCHANGED strings
<1>1. CASE Leaves
  BY <1>1 DEF Leaves, Spares, Cloned, StringsNotLost
<1>2. ASSUME NEW S, NEW x, Passes(S, x) PROVE Cloned' /\ StringsNotLost' /\ UNCHANGED strings
  <2>1. /\ strings' = strings /\ Spares(nodes')
        /\ \A k \in DOMAIN ptr : ptr'[k] = IF k \in S THEN NULL ELSE ptr[k]
        /\ x \in DOMAIN nodes' /\ \A k \in S : ptr[k] # NULL => ptr[k] \in nodes'[x].own
    BY <1>2 DEF Passes, Steal
  <2>2. ASSUME NEW k \in strings
        PROVE  ptr'[k] = k \/ \E n \in DOMAIN nodes' : k \in nodes'[n].own
    <3>1. k \in DOMAIN ptr /\ k # NULL
      BY ClonedKinds
    <3>2. CASE ptr[k] = k
      BY <2>1, <3>1, <3>2
    <3>3. CASE \E n \in DOMAIN nodes : k \in nodes[n].own
      BY <2>1, <3>3 DEF Spares
    <3> QED
      BY <3>2, <3>3 DEF StringsNotLost
  <2> QED
    BY <2>1, <2>2 DEF Cloned, StringsNotLost
<1> QED
  BY <1>1, <1>2 DEF Carries

LEMMA FreesNodeKeeps ==
  ASSUME Cloned, StringsNotLost, UNCHANGED tokens, NEW n, FreesNode(n)
  PROVE  Cloned' /\ StringsNotLost'
<1>1. ASSUME NEW k \in strings'
      PROVE  ptr'[k] = k \/ \E m \in DOMAIN nodes' : k \in nodes'[m].own
  <2>1. k \in strings /\ k \notin nodes[n].own /\ ptr' = ptr
    BY DEF FreesNode
  <2>2. \A m \in DOMAIN nodes : m # n => m \in DOMAIN nodes' /\ nodes'[m] = nodes[m]
    BY DEF FreesNode
  <2> QED
    BY <2>1, <2>2 DEF StringsNotLost
<1> QED
  BY <1>1 DEF Cloned, StringsNotLost, FreesNode

\* What lexer_free finds in the tokens, when the tree is gone, is all there is.
LEMMA FreesTokensKeeps ==
  ASSUME IInv, Cloned, StringsNotLost, UNCHANGED tokens, FreesTokens
  PROVE  /\ Cloned' /\ StringsNotLost'
         /\ DOMAIN nodes = {} => strings' = {}
<1> DEFINE left == {ptr[k] : k \in {k \in DOMAIN ptr :
                      tokens[k] \in Identifiers \cup {"string"}}} \ {NULL}
<1>1. strings' = strings \ left /\ UNCHANGED nodes
  BY DEF FreesTokens
<1>2. \A k \in strings : ptr[k] = k => k \in left
  BY ClonedKinds
<1> HIDE DEF left
<1>3. \A k \in strings' : k \in strings /\ \E n \in DOMAIN nodes : k \in nodes[n].own
  BY <1>1, <1>2 DEF StringsNotLost
<1> QED
  BY <1>1, <1>3 DEF Cloned, StringsNotLost

-----------------------------------------------------------------------------
(* At the exit nothing is left.                                            *)

\* A forest that is not empty has a node that is below no other.
LEMMA NoRootNoNode ==
  ASSUME Forest(nodes), DOMAIN nodes \ Kids(nodes) = {}
  PROVE  DOMAIN nodes = {}
<1> SUFFICES ASSUME DOMAIN nodes # {} PROVE FALSE
  OBVIOUS
<1>1. PICK top \in Nat : \E rank : Ranks(nodes, rank, top)
  BY DEF Forest, Ranked
<1>2. PICK rank : Ranks(nodes, rank, top)
  BY <1>1
<1> DEFINE D == {top - rank[m] : m \in DOMAIN nodes}
<1>3. \A m \in DOMAIN nodes : rank[m] \in Nat /\ rank[m] <= top
  BY <1>2 DEF Ranks
<1>4. D \in SUBSET Nat /\ D # {}
  BY <1>3
<1>5. PICK x \in D : \A y \in D : x <= y
  BY <1>4, LeastNat
<1>6. PICK m \in DOMAIN nodes : x = top - rank[m]
  BY <1>5
<1>7. PICK p \in DOMAIN nodes : m \in KidsOf(nodes[p])
  BY <1>6 DEF Kids
<1>8. rank[m] < rank[p]
  BY <1>2, <1>7 DEF Ranks
<1>9. top - rank[p] \in D
  BY <1>7
<1>10. /\ top - rank[m] <= top - rank[p] /\ top \in Nat
       /\ rank[m] \in Nat /\ rank[p] \in Nat
  BY <1>3, <1>5, <1>6, <1>9
<1> QED
  BY <1>8, <1>10

\* When main goes on no call is under way and the tree has been handed to its
\* destructor; when it is at its end nothing is left.
ExitInv ==
  /\ phase # "parse" => stack = <<>> /\ ret = Nothing
  /\ phase = "exit" =>
       calls = <<>> /\ fault = "none" /\ DOMAIN nodes = {} /\ strings = {}

\* Once the destructors are done there is no node.
LEMMA TreeGone ==
  ASSUME NodesInv, ExitInv, phase # "parse", calls = <<>>
  PROVE  DOMAIN nodes = {}
<1>1. stack = <<>> /\ ret.expr = NULL /\ Len(stack) = 0
  BY DEF ExitInv, Nothing
<1>2. Roots(stack) = {} /\ Doomed(calls) = {} /\ Only(ret.expr) = {}
  BY <1>1, NoDoom DEF Roots, Only
<1> QED
  BY <1>2, NoRootNoNode DEF NodesInv, Parted

MemoryInv == Cloned /\ StringsNotLost /\ ExitInv

LEMMA InitMemory == Init => MemoryInv
<1> SUFFICES ASSUME Init PROVE MemoryInv
  OBVIOUS
<1>1. /\ ptr = [k \in 1..Len(tokens) |-> PtrOf(k, tokens[k])]
      /\ strings = {k \in 1..Len(tokens) : PtrOf(k, tokens[k]) = k}
      /\ phase = "parse" /\ tokens \in Seq(TokenKinds)
  BY InputsAssumption DEF Init
<1>2. DOMAIN tokens = 1..Len(tokens)
  BY <1>1, LenProperties
<1>3. \A k \in strings : ptr[k] = k
  BY <1>1
<1> QED
  BY <1>1, <1>2, <1>3 DEF MemoryInv, Cloned, StringsNotLost, ExitInv

LEMMA NextExit ==
  ASSUME IInv, NodesInv, MemoryInv, [Next]_vars
  PROVE  ExitInv'
<1>1. CASE UNCHANGED vars
  BY <1>1 DEF vars, heap, MemoryInv, ExitInv
<1>2. CASE Parses /\ ~process_operation
  BY <1>2 DEF Parses, DeclStart, DeclName, DeclMark, DeclType, DeclAssign, DeclValue,
     SkipToken, RejectToken, Variable, Literal, ParenOpen, ParenClose, NextLabel, Operand,
     Settle, FuncStart, FuncName, FuncArg, FuncReturn, ScopeOpen, ScopeEnd, BodyNext,
     BodyItem, At, ExitInv
<1>3. CASE process_operation \/ DestroyNode
  <2>1. UNCHANGED <<stack, ret, phase>> /\ calls # <<>>
    BY <1>3 DEF process_operation, DestroyNode, Pending, Crash
  <2> QED
    BY <2>1 DEF MemoryInv, ExitInv
<1>4. CASE PrintAst
  BY <1>4 DEF PrintAst, ExitInv
<1>5. CASE LexerFree
  <2>1. phase = "free" /\ calls = <<>> /\ fault = "none"
    BY <1>5 DEF LexerFree
  <2>2. DOMAIN nodes = {} /\ stack = <<>> /\ ret = Nothing
    BY <2>1, TreeGone DEF MemoryInv, ExitInv
  <2>3. UNCHANGED <<tokens, nodes, stack, ret, calls>>
    BY <1>5, FreeMoves
  <2>4. CASE UNCHANGED phase
    BY <2>1, <2>2, <2>3, <2>4 DEF ExitInv
  <2>5. CASE FreesTokens /\ UNCHANGED fault
    BY <2>1, <2>2, <2>3, <2>5, FreesTokensKeeps DEF MemoryInv, ExitInv
  <2> QED
    BY <1>5, <2>4, <2>5, FreeMoves
<1> QED
  BY <1>1, <1>2, <1>3, <1>4, <1>5 DEF Next, Parses, Stop

LEMMA NextMemory == IInv /\ NodesInv /\ MemoryInv /\ [Next]_vars => MemoryInv'
<1> SUFFICES ASSUME IInv, NodesInv, MemoryInv, [Next]_vars PROVE MemoryInv'
  OBVIOUS
<1>1. Cloned' /\ StringsNotLost'
  BY StringSteps, CarriesKeep, FreesNodeKeeps, FreesTokensKeeps DEF MemoryInv
<1> QED
  BY <1>1, NextExit DEF MemoryInv

LEMMA MemoryInvariance == ASSUME "stale" \notin FuncSlot PROVE Spec => []MemoryInv
<1>1. Spec => []NodesInv
  BY NodesInvariance
<1> QED
  BY <1>1, Invariance, InitMemory, NextMemory, PTL DEF Spec

-----------------------------------------------------------------------------
(* The theorems.                                                           *)

\* On every program, and on every way out of a parse error, each string that
\* the lexer cloned is in its token or in a node until it is freed: the parser
\* stores what it takes before anything can fail (ast.c:318-321).
THEOREM NoStringIsLost ==
  ASSUME "stale" \notin FuncSlot
  PROVE  Spec => []StringsNotLost
<1>1. MemoryInv => StringsNotLost
  BY DEF MemoryInv
<1> QED
  BY <1>1, MemoryInvariance, PTL

\* When main is at its end, the parser, the destructors and lexer_free have
\* returned every node, every string and every error String (jacv.c:54-60,
\* jcontext.c:22).
THEOREM AllMemoryIsReturned ==
  ASSUME "stale" \notin FuncSlot
  PROVE  Spec => []MemoryReturned
<1>1. ASSUME IInv, MemoryInv, ErrorsAccounted PROVE MemoryReturned
  <2>1. ASSUME phase = "exit" PROVE nodes = <<>> /\ strings = {} /\ messages = 0
    <3>1. DOMAIN nodes = {} /\ strings = {} /\ fault = "none" /\ ret.error = FALSE
      BY <1>1, <2>1 DEF MemoryInv, ExitInv, Nothing
    <3>2. nodes \in [{} -> NodeRecord]
      BY <1>1, <3>1 DEF IInv, NodeInv, NodesTyped
    <3>3. nodes = <<>>
      BY <3>2
    <3> QED
      BY <1>1, <3>1, <3>3 DEF ErrorsAccounted
  <2> QED
    BY <2>1 DEF MemoryReturned
<1> QED
  BY <1>1, Invariance, MemoryInvariance, ErrorsAreAccounted, PTL

-----------------------------------------------------------------------------
(* The promise of Custody.                                                 *)

\* A holder that differs from the one there is.
LEMMA HolderParts ==
  /\ DOMAIN holder = {k \in DOMAIN tokens : PtrOf(k, tokens[k]) = k}
  /\ \A k \in DOMAIN holder :
       holder[k] = IF k \notin strings THEN "nobody"
                   ELSE IF ptr[k] = k THEN "lexer" ELSE "parser"
BY DEF holder

LEMMA HolderNext ==
  ASSUME UNCHANGED tokens
  PROVE  /\ DOMAIN holder' = DOMAIN holder
         /\ \A k \in DOMAIN holder :
              holder'[k] = IF k \notin strings' THEN "nobody"
                           ELSE IF ptr'[k] = k THEN "lexer" ELSE "parser"
         /\ holder' = [k \in DOMAIN holder |-> holder'[k]]
BY DEF holder

\* If what changes is that S passes from one to the other, it is a step.
LEMMA PassOrStutter ==
  ASSUME UNCHANGED tokens, NEW from, NEW to, NEW S \in SUBSET DOMAIN holder,
         \A k \in S : holder[k] = from /\ holder'[k] = to,
         \A k \in DOMAIN holder \ S : holder'[k] = holder[k]
  PROVE  UNCHANGED holder \/ Promise!Pass(S, from, to)
<1>1. holder' = [k \in DOMAIN holder |-> IF k \in S THEN to ELSE holder[k]]
  BY HolderNext
<1>2. holder = [k \in DOMAIN holder |-> holder[k]]
  BY DEF holder
<1>3. CASE S = {}
  BY <1>1, <1>2, <1>3
<1> QED
  BY <1>1, <1>3 DEF Promise!Pass

LEMMA InitCustody == Init => Promise!Init
<1> SUFFICES ASSUME Init PROVE Promise!Init
  OBVIOUS
<1>1. /\ ptr = [k \in 1..Len(tokens) |-> PtrOf(k, tokens[k])]
      /\ strings = {k \in 1..Len(tokens) : PtrOf(k, tokens[k]) = k}
      /\ DOMAIN tokens = 1..Len(tokens)
  BY InputsAssumption, LenProperties DEF Init
<1>2. \A k \in DOMAIN holder : holder[k] = "lexer"
  BY <1>1, HolderParts
<1>3. holder = [k \in DOMAIN holder |-> holder[k]]
  BY DEF holder
<1> QED
  BY <1>2, <1>3 DEF Promise!Init

\* The parser takes over what it takes from the tokens, and nothing else.
LEMMA CarriesCustody ==
  ASSUME IInv, Cloned, UNCHANGED tokens, Carries
  PROVE  UNCHANGED holder \/ Promise!ParserTakes
<1>1. CASE Leaves
  BY <1>1 DEF Leaves, holder
<1>2. ASSUME NEW S, NEW x, Passes(S, x) PROVE UNCHANGED holder \/ Promise!ParserTakes
  <2> DEFINE T == {k \in strings : k \in S /\ ptr[k] = k}
  <2>1. /\ strings' = strings /\ S \subseteq DOMAIN ptr
        /\ \A k \in DOMAIN ptr : ptr'[k] = IF k \in S THEN NULL ELSE ptr[k]
    BY <1>2 DEF Passes, Steal
  <2>2. strings \subseteq DOMAIN holder
    BY HolderParts DEF Cloned
  <2>3. \A k \in strings : k \in DOMAIN ptr /\ k # NULL
    BY ClonedKinds
  <2>4. \A k \in T : holder[k] = "lexer" /\ holder'[k] = "parser"
    BY <2>1, <2>2, <2>3, HolderParts, HolderNext
  <2>5. \A k \in DOMAIN holder \ T : holder'[k] = holder[k]
    BY <2>1, <2>2, <2>3, HolderParts, HolderNext
  <2>6. T \in SUBSET DOMAIN holder
    BY <2>2
  <2> HIDE DEF T
  <2>7. UNCHANGED holder \/ Promise!Pass(T, "lexer", "parser")
    BY <2>4, <2>5, <2>6, PassOrStutter
  <2> QED
    BY <2>6, <2>7 DEF Promise!ParserTakes
<1> QED
  BY <1>1, <1>2 DEF Carries

\* A destructor frees what the parser took.
LEMMA FreesNodeCustody ==
  ASSUME IInv, StringsNotShared, Cloned, UNCHANGED tokens, NEW n, FreesNode(n)
  PROVE  UNCHANGED holder \/ Promise!TreeFrees
<1> DEFINE T == nodes[n].own
<1>1. /\ n \in DOMAIN nodes /\ T \subseteq strings /\ strings' = strings \ T /\ ptr' = ptr
  BY DEF FreesNode
<1>2. strings \subseteq DOMAIN holder
  BY HolderParts DEF Cloned
<1>3. \A k \in T : k \in DOMAIN ptr /\ k # Wild
  BY <1>1, ClonedKinds
<1>4. \A k \in T : ptr[k] # k
  BY <1>1, <1>3 DEF StringsNotShared
<1> HIDE DEF T
<1>5. \A k \in T : holder[k] = "parser" /\ holder'[k] = "nobody"
  BY <1>1, <1>2, <1>4, HolderParts, HolderNext
<1>6. \A k \in DOMAIN holder \ T : holder'[k] = holder[k]
  BY <1>1, HolderParts, HolderNext
<1>7. UNCHANGED holder \/ Promise!Pass(T, "parser", "nobody")
  BY <1>1, <1>2, <1>5, <1>6, PassOrStutter
<1> QED
  BY <1>1, <1>2, <1>7 DEF Promise!TreeFrees

\* lexer_free runs when the tree is gone, and frees all the rest.
LEMMA FreesTokensCustody ==
  ASSUME IInv, NodesInv, MemoryInv, LexerFree, FreesTokens
  PROVE  UNCHANGED holder \/ Promise!LexerFrees
<1> DEFINE T == {k \in DOMAIN holder : holder[k] = "lexer"}
<1>1. UNCHANGED tokens
  BY DEF LexerFree
<1>2. DOMAIN nodes = {}
  BY TreeGone DEF LexerFree, MemoryInv
<1>3. strings' = {}
  BY <1>1, <1>2, FreesTokensKeeps DEF MemoryInv
<1>4. \A k \in strings : ptr[k] = k
  BY <1>2 DEF MemoryInv, StringsNotLost
<1>5. \A k \in DOMAIN holder : holder[k] # "parser"
  BY <1>4, HolderParts
<1>6. \A k \in T : holder[k] = "lexer" /\ holder'[k] = "nobody"
  BY <1>1, <1>3, HolderNext
<1>7. \A k \in DOMAIN holder \ T : holder'[k] = holder[k]
  BY <1>1, <1>3, <1>5, HolderParts, HolderNext
<1>8. T \in SUBSET DOMAIN holder
  OBVIOUS
<1>9. UNCHANGED holder \/ Promise!Pass(T, "lexer", "nobody")
  <2> HIDE DEF T
  <2> QED
    BY <1>1, <1>6, <1>7, <1>8, PassOrStutter
<1> QED
  BY <1>5, <1>9 DEF Promise!LexerFrees

LEMMA NextCustody ==
  IInv /\ StringsNotShared /\ NodesInv /\ MemoryInv /\ [Next]_vars
    => [Promise!Next]_holder
<1> SUFFICES ASSUME IInv, StringsNotShared, NodesInv, MemoryInv, [Next]_vars
             PROVE  UNCHANGED holder \/ Promise!Next
  OBVIOUS
<1>1. Cloned /\ UNCHANGED tokens
  BY StringSteps DEF MemoryInv
<1>2. CASE Carries
  BY <1>1, <1>2, CarriesCustody DEF Promise!Next
<1>3. ASSUME NEW n, FreesNode(n) PROVE UNCHANGED holder \/ Promise!Next
  BY <1>1, <1>3, FreesNodeCustody DEF Promise!Next
<1>4. CASE LexerFree /\ FreesTokens
  BY <1>4, FreesTokensCustody DEF Promise!Next
<1> QED
  BY <1>2, <1>3, <1>4, StringSteps

\* If no earlier function is left in the slot of func (ast.c:772), the parser,
\* its destructors and lexer_free implement Custody: what the
\* parser took over never goes back to its token, the tree frees it, and
\* lexer_free runs when the tree is gone and frees exactly the rest (ast.c:320,
\* lexer.c:69).
THEOREM CustodyIsKept ==
  ASSUME "stale" \notin FuncSlot
  PROVE  Spec => StringsInCustody
<1>1. Spec => []NodesInv
  BY NodesInvariance
<1>2. Spec => []MemoryInv
  BY MemoryInvariance
<1> QED
  BY <1>1, <1>2, Invariance, StringsFreedOnce, InitCustody, NextCustody, PTL
  DEF Spec, StringsInCustody, Promise!Spec

=============================================================================
