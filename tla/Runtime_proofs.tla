--------------------------- MODULE Runtime_proofs ---------------------------
(***************************************************************************)
(* Proofs about the memory monitor of module Runtime, for every set of     *)
(* blocks and sizes: the registry is always one chain with a node for each *)
(* object, so that the search of map_remove finds every object that is     *)
(* allocated.  The invariant names the chain and the place of the walk.    *)
(* From it follow the types, and with them that the number which is        *)
(* reported is the sum of the sizes.                                       *)
(***************************************************************************)
EXTENDS Runtime, TLAPS, FiniteSetTheorems, NaturalsInduction, WellFoundedInduction

\* c lists the set dom of n nodes as they are linked in N, from first on.
Ord(c, n, N, dom, first) ==
  /\ n \in Nat /\ c \in [1..n -> dom]
  /\ \A i, j \in 1..n : c[i] = c[j] => i = j
  /\ \A a \in dom : \E i \in 1..n : c[i] = a
  /\ first = IF n = 0 THEN NULL ELSE c[1]
  /\ \A i \in 1..n : N[c[i]].next = IF i < n THEN c[i + 1] ELSE NULL

\* The keys of these nodes are the objects, each once.
Reg(c, n, N, objects) ==
  /\ \A i, j \in 1..n : N[c[i]].key = N[c[j]].key => i = j
  /\ \A i \in 1..n : N[c[i]].key \in objects
  /\ \A p \in objects : \E i \in 1..n : N[c[i]].key = p

\* The walk of map_put is at a node.
PutAt(c, n) ==
  /\ new \in DOMAIN nodes /\ nodes[new].key = key /\ nodes[new].next = NULL
  /\ key \in DOMAIN header
  /\ \E k \in 1..n : at = c[k]

\* The search of map_remove has passed the first k - 1 nodes.
RemoveAt(c, n, k) ==
  /\ at = IF k \in 1..n THEN c[k] ELSE NULL
  /\ k > 1 => prev = c[k - 1]
  /\ \A i \in 1..k - 1 : nodes[c[i]].key # key
  /\ k = 1 => n = 0 \/ nodes[c[1]].key # key

Members == IF pc = "put" THEN DOMAIN nodes \ {new} ELSE DOMAIN nodes
Objects == IF pc = "put" THEN DOMAIN header \ {key} ELSE DOMAIN header

Blocks ==
  /\ DOMAIN header \subseteq Addr /\ DOMAIN nodes \subseteq Addr
  /\ DOMAIN header \cap DOMAIN nodes = {}
  /\ head \in Addr \cup {NULL}
  /\ pc # "put" => new = NULL

Walking(c, n) ==
  /\ pc = "put" => PutAt(c, n)
  /\ pc = "remove" => key \in Addr /\ \E k \in 1..n + 1 : RemoveAt(c, n, k)

IInv ==
  /\ Blocks
  /\ pc \in {"client", "closed", "put", "remove"} =>
       \E n, c :
         /\ Ord(c, n, nodes, Members, head) /\ Reg(c, n, nodes, Objects)
         /\ Walking(c, n)
  /\ pc = "clear" =>
       \E n, c : Ord(c, n, nodes, DOMAIN nodes, at)
  /\ pc = "destroyed" => DOMAIN nodes = {}
  /\ pc = "twice" => key \notin DOMAIN header

-----------------------------------------------------------------------------
(* Chains.                                                                 *)

\* A chain of none is the one without a first node.
LEMMA OrdHead ==
  ASSUME NEW c, NEW n, NEW N, NEW dom, NEW first, NULL \notin dom,
         Ord(c, n, N, dom, first)
  PROVE  /\ first = NULL <=> n = 0
         /\ n # 0 => first = c[1] /\ 1 \in 1..n
         /\ n = 0 => dom = {}
  BY DEF Ord

\* A node after the last one.
Grown(c, n, a) == [i \in 1..n + 1 |-> IF i = n + 1 THEN a ELSE c[i]]

\* A node that is appended by the last one is at the end of the chain.
LEMMA OrdAppend ==
  ASSUME NEW c, NEW n, NEW N, NEW dom, NEW first, NEW M, NEW a,
         Ord(c, n, N, dom, first), a \notin dom, n # 0,
         \A b \in dom : b # c[n] => M[b].next = N[b].next,
         M[c[n]].next = a, M[a].next = NULL
  PROVE  Ord(Grown(c, n, a), n + 1, M, dom \cup {a}, first)
<1> DEFINE d == [i \in 1..n + 1 |-> IF i = n + 1 THEN a ELSE c[i]]
<1>1. /\ n \in Nat /\ n > 0 /\ c \in [1..n -> dom]
      /\ \A i, j \in 1..n : c[i] = c[j] => i = j
      /\ \A b \in dom : \E i \in 1..n : c[i] = b
      /\ first = c[1]
      /\ \A i \in 1..n : N[c[i]].next = IF i < n THEN c[i + 1] ELSE NULL
  BY DEF Ord
<1>2. \A i \in 1..n + 1 : i \in 1..n \/ i = n + 1
  BY <1>1
<1>3. /\ \A i \in 1..n : d[i] = c[i] /\ c[i] \in dom /\ c[i] # a
      /\ d[n + 1] = a /\ d[1] = c[1]
  BY <1>1
<1>4. d \in [1..n + 1 -> dom \cup {a}]
  BY <1>1, <1>2
<1>5. \A i, j \in 1..n + 1 : d[i] = d[j] => i = j
  BY <1>1, <1>2, <1>3
<1>6. \A b \in dom \cup {a} : \E i \in 1..n + 1 : d[i] = b
  <2>1. ASSUME NEW b \in dom PROVE \E i \in 1..n + 1 : d[i] = b
    <3>1. PICK i \in 1..n : c[i] = b
      BY <1>1
    <3>2. i \in 1..n + 1 /\ d[i] = b
      BY <1>1, <1>3, <3>1
    <3> QED
      BY <3>2
  <2>2. n + 1 \in 1..n + 1 /\ d[n + 1] = a
    BY <1>1, <1>3
  <2> QED
    BY <2>1, <2>2
<1>7. ASSUME NEW i \in 1..n + 1
      PROVE M[d[i]].next = IF i < n + 1 THEN d[i + 1] ELSE NULL
  <2>1. CASE i = n + 1
    BY <1>1, <1>3, <2>1
  <2>2. CASE i = n
    BY <1>1, <1>3, <2>2
  <2>3. CASE i \in 1..n /\ i # n
    <3>1. n \in 1..n /\ i + 1 \in 1..n /\ i < n /\ i < n + 1
      BY <1>1, <2>3
    <3>2. c[i] # c[n] /\ c[i] \in dom
      BY <1>1, <2>3, <3>1
    <3> QED
      BY <1>1, <1>3, <2>3, <3>1, <3>2
  <2> QED
    BY <1>2, <2>1, <2>2, <2>3
<1> HIDE DEF d
<1>8. n + 1 \in Nat /\ first = IF n + 1 = 0 THEN NULL ELSE d[1]
  BY <1>1, <1>3
<1>9. Ord(d, n + 1, M, dom \cup {a}, first)
  BY <1>4, <1>5, <1>6, <1>7, <1>8 DEF Ord
<1> QED
  BY <1>9 DEF d, Grown

\* A node that is skipped by the one before it, or by the head, is out.
Cut(c, n, k) == [i \in 1..n - 1 |-> IF i < k THEN c[i] ELSE c[i + 1]]

\* In M the node at place k is skipped.
Skips(c, n, N, first, M, k, newFirst) ==
  /\ k \in 1..n
  /\ \A i \in 1..n : i # k /\ i # k - 1 => M[c[i]].next = N[c[i]].next
  /\ k > 1 => M[c[k - 1]].next = N[c[k]].next
  /\ newFirst = IF k = 1 THEN N[c[1]].next ELSE first

LEMMA OrdCut ==
  ASSUME NEW c, NEW n, NEW N, NEW dom, NEW first, NEW M, NEW k, NEW newFirst,
         Ord(c, n, N, dom, first), Skips(c, n, N, first, M, k, newFirst)
  PROVE  Ord(Cut(c, n, k), n - 1, M, dom \ {c[k]}, newFirst)
<1>0. /\ k \in 1..n
      /\ \A i \in 1..n : i # k /\ i # k - 1 => M[c[i]].next = N[c[i]].next
      /\ k > 1 => M[c[k - 1]].next = N[c[k]].next
      /\ newFirst = IF k = 1 THEN N[c[1]].next ELSE first
  BY DEF Skips
<1> DEFINE d == [i \in 1..n - 1 |-> IF i < k THEN c[i] ELSE c[i + 1]]
<1>1. /\ n \in Nat /\ n > 0 /\ c \in [1..n -> dom] /\ k \in Nat /\ k > 0 /\ k <= n
      /\ \A i, j \in 1..n : c[i] = c[j] => i = j
      /\ \A b \in dom : \E i \in 1..n : c[i] = b
      /\ first = c[1]
      /\ \A i \in 1..n : N[c[i]].next = IF i < n THEN c[i + 1] ELSE NULL
  BY <1>0 DEF Ord
<1> DEFINE J(i) == IF i < k THEN i ELSE i + 1
<1>2. \A i \in 1..n - 1 : J(i) \in 1..n /\ J(i) # k /\ d[i] = c[J(i)]
  BY <1>1
<1>3. \A i, j \in 1..n - 1 : J(i) = J(j) => i = j
  BY <1>1
<1>4. \A j \in 1..n : j # k => \E i \in 1..n - 1 : J(i) = j
  <2> SUFFICES ASSUME NEW j \in 1..n, j # k PROVE \E i \in 1..n - 1 : J(i) = j
    OBVIOUS
  <2>1. CASE j < k
    <3>1. j \in 1..n - 1 /\ J(j) = j
      BY <1>1, <2>1
    <3> QED
      BY <3>1
  <2>2. CASE j > k
    <3>1. j - 1 \in 1..n - 1 /\ J(j - 1) = j
      BY <1>1, <2>2
    <3> QED
      BY <3>1
  <2> QED
    BY <1>1, <2>1, <2>2
<1>5. \A i \in 1..n - 1 : i < n - 1 => i + 1 \in 1..n - 1
  BY <1>1
<1>6. n - 1 \in Nat /\ (n - 1 = 0 => n = 1 /\ k = 1) /\ (n - 1 # 0 => 1 \in 1..n - 1)
  BY <1>1
<1>10. ASSUME NEW i \in 1..n - 1
       PROVE M[d[i]].next = IF i < n - 1 THEN d[i + 1] ELSE NULL
  <2>1. CASE i = k - 1
    <3>1. k > 1 /\ J(i) = k - 1 /\ k \in 1..n
      BY <1>1, <2>1
    <3>2. M[d[i]].next = N[c[k]].next
      BY <1>0, <1>2, <3>1
    <3>3. i < n - 1 <=> k < n
      BY <1>1, <2>1
    <3>4. i < n - 1 => J(i + 1) = k + 1
      BY <1>1, <2>1
    <3> QED
      BY <1>1, <1>2, <1>5, <3>2, <3>3, <3>4
  <2>2. CASE i # k - 1
    <3>1. J(i) # k - 1
      BY <1>1, <2>2
    <3>2. M[d[i]].next = N[c[J(i)]].next
      BY <1>0, <1>2, <3>1
    <3>3. i < n - 1 <=> J(i) < n
      BY <1>1, <2>2
    <3>4. i < n - 1 => J(i + 1) = J(i) + 1
      BY <1>1, <2>2
    <3>5. J(i) \in 1..n
      BY <1>2
    <3>6. N[c[J(i)]].next = IF J(i) < n THEN c[J(i) + 1] ELSE NULL
      BY <1>1, <3>5
    <3> QED
      BY <1>2, <1>5, <3>2, <3>3, <3>4, <3>6
  <2> QED
    BY <2>1, <2>2
<1>11. newFirst = IF n - 1 = 0 THEN NULL ELSE d[1]
  <2>1. CASE k = 1
    <3>1. newFirst = N[c[1]].next /\ 1 \in 1..n
      BY <1>0, <1>1, <2>1
    <3>2. n - 1 # 0 => 1 < n /\ J(1) = 1 + 1
      BY <1>1, <2>1
    <3>3. n - 1 = 0 => ~(1 < n)
      BY <1>1
    <3> QED
      BY <1>1, <1>2, <1>6, <3>1, <3>2, <3>3
  <2>2. CASE k # 1
    <3>1. newFirst = c[1] /\ J(1) = 1 /\ n - 1 # 0
      BY <1>0, <1>1, <2>2
    <3> QED
      BY <1>2, <1>6, <3>1
  <2> QED
    BY <2>1, <2>2
<1>12. d \in [1..n - 1 -> dom \ {c[k]}]
  <2>1. \A i \in 1..n - 1 : d[i] \in dom \ {c[k]}
    BY <1>1, <1>2
  <2> QED
    BY <2>1
<1> HIDE DEF J
<1> HIDE DEF d
<1>7. \A i, j \in 1..n - 1 : d[i] = d[j] => i = j
  BY <1>1, <1>2, <1>3
<1>8. \A b \in dom \ {c[k]} : \E i \in 1..n - 1 : d[i] = b
  <2> SUFFICES ASSUME NEW b \in dom \ {c[k]} PROVE \E i \in 1..n - 1 : d[i] = b
    OBVIOUS
  <2>1. PICK j \in 1..n : c[j] = b
    BY <1>1
  <2>2. PICK i \in 1..n - 1 : J(i) = j
    BY <1>4, <2>1
  <2> QED
    BY <1>2, <2>1, <2>2
<1>9. Ord(d, n - 1, M, dom \ {c[k]}, newFirst)
  BY <1>6, <1>7, <1>8, <1>10, <1>11, <1>12 DEF Ord
<1> QED
  BY <1>9 DEF d, Cut

\* With a node goes its object.
LEMMA RegCut ==
  ASSUME NEW c, NEW n, NEW N, NEW dom, NEW first, NEW M, NEW k \in 1..n,
         NEW objects,
         Ord(c, n, N, dom, first), Reg(c, n, N, objects),
         \A i \in 1..n : i # k => M[c[i]].key = N[c[i]].key
  PROVE  Reg(Cut(c, n, k), n - 1, M, objects \ {N[c[k]].key})
<1> DEFINE d == Cut(c, n, k)
           J(i) == IF i < k THEN i ELSE i + 1
<1>1. n \in Nat /\ k \in Nat /\ k > 0 /\ k <= n
  BY DEF Ord
<1>2. \A i \in 1..n - 1 : J(i) \in 1..n /\ J(i) # k /\ d[i] = c[J(i)]
  BY <1>1 DEF Cut
<1>3. \A i, j \in 1..n - 1 : J(i) = J(j) => i = j
  BY <1>1
<1>4. \A j \in 1..n : j # k => \E i \in 1..n - 1 : J(i) = j
  <2> SUFFICES ASSUME NEW j \in 1..n, j # k PROVE \E i \in 1..n - 1 : J(i) = j
    OBVIOUS
  <2>1. CASE j < k
    <3>1. j \in 1..n - 1 /\ J(j) = j
      BY <1>1, <2>1
    <3> QED
      BY <3>1
  <2>2. CASE j > k
    <3>1. j - 1 \in 1..n - 1 /\ J(j - 1) = j
      BY <1>1, <2>2
    <3> QED
      BY <3>1
  <2> QED
    BY <1>1, <2>1, <2>2
<1> HIDE DEF J
<1> HIDE DEF d
<1>5. \A i \in 1..n - 1 : M[d[i]].key = N[c[J(i)]].key
  BY <1>2
<1>6. \A i, j \in 1..n - 1 : M[d[i]].key = M[d[j]].key => i = j
  BY <1>2, <1>3, <1>5 DEF Reg
<1>7. \A i \in 1..n - 1 : M[d[i]].key \in objects \ {N[c[k]].key}
  BY <1>2, <1>5 DEF Reg
<1>8. \A p \in objects \ {N[c[k]].key} : \E i \in 1..n - 1 : M[d[i]].key = p
  <2> SUFFICES ASSUME NEW p \in objects \ {N[c[k]].key}
               PROVE \E i \in 1..n - 1 : M[d[i]].key = p
    OBVIOUS
  <2>1. PICK j \in 1..n : N[c[j]].key = p
    BY DEF Reg
  <2>2. PICK i \in 1..n - 1 : J(i) = j
    BY <1>4, <2>1
  <2> QED
    BY <1>5, <2>1, <2>2
<1>9. Reg(d, n - 1, M, objects \ {N[c[k]].key})
  BY <1>6, <1>7, <1>8 DEF Reg
<1> QED
  BY <1>9 DEF d

\* What the order of the nodes and their keys depend on.
LEMMA OrdSame ==
  ASSUME NEW c, NEW n, NEW N, NEW dom, NEW first, NEW M,
         Ord(c, n, N, dom, first), \A b \in dom : M[b].next = N[b].next
  PROVE  Ord(c, n, M, dom, first)
  BY DEF Ord

LEMMA RegSame ==
  ASSUME NEW c, NEW n, NEW N, NEW dom, NEW first, NEW M, NEW objects,
         Ord(c, n, N, dom, first), Reg(c, n, N, objects),
         \A b \in dom : M[b].key = N[b].key
  PROVE  Reg(c, n, M, objects)
<1>1. \A i \in 1..n : c[i] \in dom
  BY DEF Ord
<1> QED
  BY <1>1 DEF Reg

\* One more node, for one more object.
LEMMA RegAppend ==
  ASSUME NEW c, NEW n, NEW N, NEW dom, NEW first, NEW M, NEW objects, NEW a, NEW p,
         Ord(c, n, N, dom, first), Reg(c, n, N, objects), p \notin objects,
         \A b \in dom : M[b].key = N[b].key, M[a].key = p
  PROVE  Reg(Grown(c, n, a), n + 1, M, objects \cup {p})
<1> DEFINE d == [i \in 1..n + 1 |-> IF i = n + 1 THEN a ELSE c[i]]
<1>1. n \in Nat /\ \A i \in 1..n : c[i] \in dom
  BY DEF Ord
<1>2. \A i \in 1..n + 1 : i \in 1..n \/ i = n + 1
  BY <1>1
<1>3. /\ \A i \in 1..n : i \in 1..n + 1 /\ d[i] = c[i]
      /\ n + 1 \in 1..n + 1 /\ d[n + 1] = a
  BY <1>1
<1> HIDE DEF d
<1>4. (\A i \in 1..n : M[d[i]].key = N[c[i]].key) /\ M[d[n + 1]].key = p
  BY <1>1, <1>3
<1>5. \A i, j \in 1..n + 1 : M[d[i]].key = M[d[j]].key => i = j
  BY <1>2, <1>4 DEF Reg
<1>6. \A i \in 1..n + 1 : M[d[i]].key \in objects \cup {p}
  BY <1>2, <1>4 DEF Reg
<1>7. \A q \in objects \cup {p} : \E i \in 1..n + 1 : M[d[i]].key = q
  <2>1. ASSUME NEW q \in objects PROVE \E i \in 1..n + 1 : M[d[i]].key = q
    <3>1. PICK i \in 1..n : N[c[i]].key = q
      BY DEF Reg
    <3> QED
      BY <1>3, <1>4, <3>1
  <2> QED
    BY <1>3, <1>4, <2>1
<1>8. Reg(d, n + 1, M, objects \cup {p})
  BY <1>5, <1>6, <1>7 DEF Reg
<1> QED
  BY <1>8 DEF d, Grown

\* A map without a node.
LEMMA WithoutIs ==
  ASSUME NEW f, NEW a
  PROVE  /\ DOMAIN Without(f, a) = DOMAIN f \ {a}
         /\ \A x \in DOMAIN f : x # a => Without(f, a)[x] = f[x]
  BY DEF Without, Restrict

-----------------------------------------------------------------------------
(* One lemma for each operation.                                           *)

LEMMA InitIInv == Init => IInv
<1> SUFFICES ASSUME Init PROVE IInv
  OBVIOUS
<1>1. DOMAIN header = {} /\ DOMAIN nodes = {} /\ head = NULL /\ pc = "client" /\ new = NULL
  BY DEF Init
<1> DEFINE c == [i \in 1..0 |-> NULL]
<1>2. c \in [1..0 -> {}]
  OBVIOUS
<1>3. Ord(c, 0, nodes, {}, head) /\ Reg(c, 0, nodes, {})
  BY <1>1, <1>2 DEF Ord, Reg
<1>4. Walking(c, 0)
  BY <1>1 DEF Walking
<1>5. Members = {} /\ Objects = {}
  BY <1>1 DEF Members, Objects
<1>6. \E n, e :
        Ord(e, n, nodes, Members, head) /\ Reg(e, n, nodes, Objects) /\ Walking(e, n)
  <2> HIDE DEF c
  <2> QED
    BY <1>3, <1>4, <1>5
<1> QED
  BY <1>1, <1>6 DEF IInv, Blocks

LEMMA AllocIInv ==
  ASSUME IInv, NEW p \in Addr, NEW size, _alloc(p, size)
  PROVE  IInv'
<1>1. PICK a \in Free \ {p} :
        /\ nodes' = With(nodes, a, NewNode(p))
        /\ IF head = NULL
             THEN head' = a /\ UNCHANGED <<pc, walk>>
             ELSE /\ pc' = "put" /\ key' = p /\ new' = a /\ at' = head
                  /\ UNCHANGED <<head, prev>>
  BY DEF _alloc
<1>2. /\ pc = "client" /\ p \in Free /\ header' = With(header, p, size)
      /\ a \in Addr /\ a \notin DOMAIN header /\ a \notin DOMAIN nodes /\ a # p
      /\ p \notin DOMAIN header /\ p \notin DOMAIN nodes
      /\ DOMAIN header \subseteq Addr /\ DOMAIN nodes \subseteq Addr
      /\ DOMAIN header \cap DOMAIN nodes = {} /\ new = NULL
      /\ NULL \notin DOMAIN nodes
  BY <1>1, RuntimeAssumption DEF _alloc, Free, IInv, Blocks
<1>3. PICK n, c :
        Ord(c, n, nodes, DOMAIN nodes, head) /\ Reg(c, n, nodes, DOMAIN header)
  BY <1>2 DEF IInv, Members, Objects
<1>4. /\ DOMAIN header' = DOMAIN header \cup {p}
      /\ DOMAIN nodes' = DOMAIN nodes \cup {a}
      /\ nodes'[a].key = p /\ nodes'[a].next = NULL
      /\ \A b \in DOMAIN nodes : nodes'[b] = nodes[b]
  BY <1>1, <1>2 DEF With, NewNode
<1>5. Blocks'
  BY <1>1, <1>2, <1>4 DEF Blocks, walk, IInv
<1>6. CASE head = NULL
  <2>0. n = 0 /\ DOMAIN nodes = {}
    BY <1>2, <1>3, <1>6 DEF Ord
  <2>1. n = 0 /\ DOMAIN nodes = {} /\ DOMAIN header = {}
    <3>1. \A q \in DOMAIN header : \E i \in 1..0 : nodes[c[i]].key = q
      BY <1>3, <2>0 DEF Reg
    <3> QED
      BY <2>0, <3>1
  <2>2. pc' = "client" /\ head' = a
    BY <1>1, <1>2, <1>6
  <2> DEFINE d == [i \in 1..1 |-> a]
  <2>3. Ord(d, 1, nodes', {a}, a)
    BY <1>4 DEF Ord
  <2>4. Reg(d, 1, nodes', {p})
    BY <1>4 DEF Reg
  <2>5. Members' = {a} /\ Objects' = {p}
    BY <1>4, <2>1, <2>2 DEF Members, Objects
  <2>7. Walking(d, 1)'
    BY <2>2 DEF Walking
  <2> HIDE DEF d
  <2> QED
    BY <1>5, <2>2, <2>3, <2>4, <2>5, <2>7 DEF IInv
<1>7. CASE head # NULL
  <2>1. n # 0 /\ head = c[1] /\ 1 \in 1..n
    BY <1>2, <1>3, <1>7, OrdHead
  <2>2. pc' = "put" /\ key' = p /\ new' = a /\ at' = head /\ head' = head
    BY <1>1, <1>7
  <2>3. Members' = DOMAIN nodes /\ Objects' = DOMAIN header
    BY <1>2, <1>4, <2>2 DEF Members, Objects
  <2>4. Ord(c, n, nodes', Members', head') /\ Reg(c, n, nodes', Objects')
    BY <1>3, <1>4, <2>2, <2>3, OrdSame, RegSame
  <2>5. Walking(c, n)'
    BY <1>4, <2>1, <2>2 DEF Walking, PutAt
  <2> QED
    BY <1>5, <2>2, <2>4, <2>5 DEF IInv
<1> QED
  BY <1>6, <1>7

LEMMA PutIInv == IInv /\ map_put => IInv'
<1> SUFFICES ASSUME IInv, map_put PROVE IInv'
  OBVIOUS
<1>1. /\ pc = "put" /\ header' = header /\ head' = head
      /\ Members = DOMAIN nodes \ {new} /\ Objects = DOMAIN header \ {key}
  BY DEF map_put, Members, Objects
<1>2. PICK n, c :
        Ord(c, n, nodes, Members, head) /\ Reg(c, n, nodes, Objects) /\ PutAt(c, n)
  BY <1>1 DEF IInv, Walking
<1>3. PICK k \in 1..n : at = c[k]
  BY <1>2 DEF PutAt
<1>4. /\ n \in Nat /\ n # 0 /\ \A i \in 1..n : c[i] \in Members
      /\ nodes[at].next = IF k < n THEN c[k + 1] ELSE NULL
      /\ NULL \notin Members
  BY <1>1, <1>2, <1>3, RuntimeAssumption DEF Ord, IInv, Blocks
<1>5. CASE nodes[at].next = NULL
  <2>1. k = n
    <3>1. k < n => k + 1 \in 1..n
      BY <1>3, <1>4
    <3> QED
      BY <1>3, <1>4, <1>5, <3>1
  <2>2. nodes' = [nodes EXCEPT ![at].next = new] /\ pc' = "client" /\ new' = NULL
    BY <1>5 DEF map_put, NoWalk
  <2>3. /\ DOMAIN nodes' = DOMAIN nodes
        /\ \A b \in Members : nodes'[b].key = nodes[b].key
        /\ \A b \in Members : b # c[n] => nodes'[b].next = nodes[b].next
        /\ nodes'[c[n]].next = new
        /\ nodes'[new].key = key /\ nodes'[new].next = NULL
    BY <1>1, <1>2, <1>3, <1>4, <2>1, <2>2 DEF PutAt
  <2>4. /\ Members' = Members \cup {new} /\ Objects' = Objects \cup {key}
        /\ new \notin Members /\ key \notin Objects
    BY <1>1, <1>2, <2>2, <2>3 DEF Members, Objects, PutAt
  <2>7. PICK d : d = Grown(c, n, new)
    OBVIOUS
  <2>5. Ord(d, n + 1, nodes', Members', head')
    <3>1. Ord(d, n + 1, nodes', Members \cup {new}, head)
      BY <1>2, <1>4, <2>3, <2>4, <2>7, OrdAppend
    <3> QED
      BY <1>1, <2>4, <3>1
  <2>6. Reg(d, n + 1, nodes', Objects')
    BY <1>2, <2>3, <2>4, <2>7, RegAppend
  <2>8. Walking(d, n + 1)'
    BY <2>2 DEF Walking
  <2>9. Blocks'
    BY <1>1, <2>2, <2>3 DEF IInv, Blocks
  <2>10. \E m, e : Ord(e, m, nodes', Members', head') /\ Reg(e, m, nodes', Objects')
                   /\ Walking(e, m)'
    BY <2>5, <2>6, <2>8
  <2> QED
    BY <2>2, <2>9, <2>10 DEF IInv
<1>6. CASE nodes[at].next # NULL
  <2>1. at' = c[k + 1] /\ k + 1 \in 1..n
    BY <1>3, <1>4, <1>6 DEF map_put
  <2>2. UNCHANGED <<nodes, pc, key, new>>
    BY <1>6 DEF map_put
  <2>3. Members' = Members /\ Objects' = Objects /\ Blocks'
    BY <1>1, <2>2 DEF Members, Objects, IInv, Blocks
  <2>4. Walking(c, n)'
    BY <1>1, <1>2, <2>1, <2>2 DEF Walking, PutAt
  <2> QED
    BY <1>1, <1>2, <2>2, <2>3, <2>4 DEF IInv
<1> QED
  BY <1>5, <1>6

\* A deallocation, of an object or of anything else: it finds the object in
\* the head or starts the search for it.
LEMMA SearchIInv ==
  ASSUME IInv, pc = "client", NEW p \in Addr, Search(p)
  PROVE  IInv'
<1>1. /\ Members = DOMAIN nodes /\ Objects = DOMAIN header
      /\ DOMAIN header \subseteq Addr /\ DOMAIN nodes \subseteq Addr
      /\ DOMAIN header \cap DOMAIN nodes = {} /\ new = NULL
      /\ NULL \notin DOMAIN nodes
  BY RuntimeAssumption DEF Members, Objects, IInv, Blocks
<1>2. PICK n, c :
        /\ Ord(c, n, nodes, DOMAIN nodes, head) /\ Reg(c, n, nodes, DOMAIN header)
  BY <1>1 DEF IInv
<1>3. n \in Nat /\ (head = NULL <=> n = 0) /\ (n # 0 => head = c[1] /\ 1 \in 1..n)
  BY <1>1, <1>2 DEF Ord
<1>4. CASE head # NULL /\ nodes[head].key = p
  <2>1. /\ head' = nodes[head].next /\ nodes' = Without(nodes, head)
        /\ header' = Without(header, p) /\ pc' \in {"client", "closed", "leak"}
        /\ new' = NULL
    BY <1>1, <1>4 DEF Search, Returned, walk
  <2>2. 1 \in 1..n /\ head = c[1] /\ \A i \in 1..n : c[i] \in DOMAIN nodes
    BY <1>2, <1>3, <1>4 DEF Ord
  <2>3. /\ DOMAIN nodes' = DOMAIN nodes \ {c[1]} /\ DOMAIN header' = DOMAIN header \ {p}
        /\ \A b \in DOMAIN nodes : b # c[1] => nodes'[b] = nodes[b]
    BY <2>1, <2>2, WithoutIs
  <2>4. \A i \in 1..n : i # 1 => c[i] \in DOMAIN nodes /\ c[i] # c[1]
    BY <1>2, <2>2 DEF Ord
  <2>5. PICK d : d = Cut(c, n, 1)
    OBVIOUS
  <2>6. Ord(d, n - 1, nodes', DOMAIN nodes \ {c[1]}, head')
    <3>1. Skips(c, n, nodes, head, nodes', 1, head')
      BY <2>1, <2>2, <2>3, <2>4 DEF Skips
    <3> QED
      BY ONLY <1>2, <2>5, <3>1, OrdCut
  <2>7. Reg(d, n - 1, nodes', DOMAIN header \ {p})
    BY <1>2, <1>4, <2>2, <2>3, <2>4, <2>5, RegCut
  <2>8. Members' = DOMAIN nodes \ {c[1]} /\ Objects' = DOMAIN header \ {p}
    BY <2>1, <2>3 DEF Members, Objects
  <2>9. Walking(d, n - 1)'
    BY <2>1 DEF Walking
  <2>10. head' \in Addr \cup {NULL}
    <3>1. nodes[c[1]].next = IF 1 < n THEN c[2] ELSE NULL
      BY <1>2, <2>2 DEF Ord
    <3>2. 1 < n => 2 \in 1..n
      BY <1>3
    <3> QED
      BY <1>1, <2>1, <2>2, <3>1, <3>2
  <2>11. Blocks'
    BY <1>1, <2>1, <2>3, <2>10 DEF Blocks
  <2>12. \E m, e : Ord(e, m, nodes', Members', head') /\ Reg(e, m, nodes', Objects')
                   /\ Walking(e, m)'
    BY <2>6, <2>7, <2>8, <2>9
  <2> QED
    BY <2>1, <2>11, <2>12 DEF IInv
<1>5. CASE ~(head # NULL /\ nodes[head].key = p)
  <2>1. /\ pc' = "remove" /\ key' = p /\ at' = head
        /\ DOMAIN header' = DOMAIN header
        /\ UNCHANGED <<head, nodes, new>>
    BY <1>5 DEF Search
  <2>2. Members' = DOMAIN nodes /\ Objects' = DOMAIN header
    BY <2>1 DEF Members, Objects
  <2>3. Blocks'
    BY <1>1, <2>1 DEF Blocks, IInv
  <2>4. RemoveAt(c, n, 1)'
    BY <1>3, <1>5, <2>1 DEF RemoveAt
  <2>5. 1 \in 1..n + 1
    BY <1>3
  <2>6. Walking(c, n)'
    BY <2>1, <2>4, <2>5 DEF Walking
  <2>7. \E m, e : Ord(e, m, nodes', Members', head') /\ Reg(e, m, nodes', Objects')
                  /\ Walking(e, m)'
    BY <1>2, <2>1, <2>2, <2>6
  <2> QED
    BY <2>1, <2>3, <2>7 DEF IInv
<1> QED
  BY <1>4, <1>5

\* A turn of the search.  At its end no node has the key: it is no object.
LEMMA RemoveIInv == IInv /\ map_remove => IInv'
<1> SUFFICES ASSUME IInv, map_remove PROVE IInv'
  OBVIOUS
<1>1. /\ pc = "remove" /\ head' = head
      /\ Members = DOMAIN nodes /\ Objects = DOMAIN header
      /\ DOMAIN header \subseteq Addr /\ DOMAIN nodes \subseteq Addr
      /\ DOMAIN header \cap DOMAIN nodes = {} /\ new = NULL
      /\ NULL \notin DOMAIN nodes /\ head \in Addr \cup {NULL}
  BY RuntimeAssumption DEF map_remove, Members, Objects, IInv, Blocks
<1>2. PICK n, c :
        /\ Ord(c, n, nodes, DOMAIN nodes, head) /\ Reg(c, n, nodes, DOMAIN header)
        /\ key \in Addr /\ \E k \in 1..n + 1 : RemoveAt(c, n, k)
  BY <1>1 DEF IInv, Walking
<1>3. PICK k \in 1..n + 1 : RemoveAt(c, n, k)
  BY <1>2
<1>4. /\ n \in Nat /\ \A i \in 1..n : c[i] \in DOMAIN nodes
      /\ k \in Nat /\ k > 0
  BY <1>2, <1>3 DEF Ord
<1>5. at = NULL <=> k = n + 1
  BY <1>1, <1>3, <1>4 DEF RemoveAt
<1>6. CASE at = NULL
  <2>1. pc' = "twice" /\ UNCHANGED <<header, nodes, walk>>
    BY <1>6 DEF map_remove, RemoveFailed
  <2>2. \A i \in 1..n : nodes[c[i]].key # key
    BY <1>3, <1>4, <1>5, <1>6 DEF RemoveAt
  <2>3. key \notin DOMAIN header
    BY <1>2, <2>2 DEF Reg
  <2>4. Blocks'
    BY <1>1, <2>1 DEF Blocks, walk
  <2> QED
    BY <2>1, <2>3, <2>4 DEF IInv, walk
<1>7. CASE at # NULL /\ nodes[at].key = key
  <2>1. /\ nodes' = Without(Unlink, at) /\ header' = Without(header, key)
        /\ pc' \in {"client", "closed", "leak"} /\ new' = NULL
    BY <1>7 DEF map_remove, RemoveFound, Returned, NoWalk
  <2>2. k \in 1..n /\ at = c[k]
    BY <1>3, <1>4, <1>5, <1>7 DEF RemoveAt
  <2>3. k > 1
    <3>1. k # 1
      BY <1>3, <1>7, <2>2 DEF RemoveAt
    <3> QED
      BY <1>4, <3>1
  <2>4. k - 1 \in 1..n /\ prev = c[k - 1] /\ k - 1 # k
    BY <1>3, <1>4, <2>2, <2>3 DEF RemoveAt
  <2>5. \A i, j \in 1..n : c[i] = c[j] => i = j
    BY <1>2 DEF Ord
  <2>6. /\ DOMAIN Unlink = DOMAIN nodes
        /\ Unlink[prev].next = nodes[at].next /\ Unlink[prev].key = nodes[prev].key
        /\ \A b \in DOMAIN nodes : b # prev => Unlink[b] = nodes[b]
    BY <1>4, <2>4 DEF Unlink
  <2>7. /\ DOMAIN nodes' = DOMAIN nodes \ {c[k]} /\ DOMAIN header' = DOMAIN header \ {key}
        /\ \A b \in DOMAIN nodes : b # c[k] => nodes'[b] = Unlink[b]
    <3>1. /\ DOMAIN nodes' = DOMAIN Unlink \ {at}
          /\ \A b \in DOMAIN Unlink : b # at => nodes'[b] = Unlink[b]
      BY ONLY <2>1, WithoutIs
    <3>2. DOMAIN header' = DOMAIN header \ {key}
      BY ONLY <2>1, WithoutIs
    <3> QED
      BY <2>2, <2>6, <3>1, <3>2
  <2>8. \A i \in 1..n : i # k => nodes'[c[i]].key = nodes[c[i]].key
    BY <1>4, <2>2, <2>4, <2>5, <2>6, <2>7
  <2>9. \A i \in 1..n : i # k /\ i # k - 1 => nodes'[c[i]].next = nodes[c[i]].next
    BY <1>4, <2>2, <2>4, <2>5, <2>6, <2>7
  <2>10. nodes'[c[k - 1]].next = nodes[c[k]].next
    BY <1>4, <2>2, <2>4, <2>5, <2>6, <2>7
  <2>11. PICK d : d = Cut(c, n, k)
    OBVIOUS
  <2>12. k # 1
    BY <2>3
  <2>13. Ord(d, n - 1, nodes', DOMAIN nodes \ {c[k]}, head)
    <3>1. Skips(c, n, nodes, head, nodes', k, head)
      BY <2>2, <2>9, <2>10, <2>12 DEF Skips
    <3> QED
      BY ONLY <1>2, <2>11, <3>1, OrdCut
  <2>14. Reg(d, n - 1, nodes', DOMAIN header \ {key})
    BY <1>2, <1>7, <2>2, <2>8, <2>11, RegCut
  <2>15. Members' = DOMAIN nodes \ {c[k]} /\ Objects' = DOMAIN header \ {key}
    BY <2>1, <2>7 DEF Members, Objects
  <2>16. Walking(d, n - 1)'
    BY <2>1 DEF Walking
  <2>17. Blocks'
    BY <1>1, <2>1, <2>7 DEF Blocks
  <2>18. \E m, e : Ord(e, m, nodes', Members', head') /\ Reg(e, m, nodes', Objects')
                   /\ Walking(e, m)'
    BY <1>1, <2>13, <2>14, <2>15, <2>16
  <2> QED
    BY <2>1, <2>17, <2>18 DEF IInv
<1>8. CASE at # NULL /\ nodes[at].key # key
  <2>1. /\ prev' = at /\ at' = nodes[at].next
        /\ UNCHANGED <<header, nodes, pc, key, new>>
    BY <1>8 DEF map_remove, RemoveNext
  <2>2. k \in 1..n /\ at = c[k]
    BY <1>3, <1>4, <1>5, <1>8 DEF RemoveAt
  <2>3. nodes[c[k]].next = IF k < n THEN c[k + 1] ELSE NULL
    BY <1>2, <2>2 DEF Ord
  <2>4. k + 1 \in 1..n + 1 /\ k + 1 > 1 /\ (k + 1) - 1 = k /\ (k < n <=> k + 1 \in 1..n)
    BY <1>4, <2>2
  <2>5. \A i \in 1..k : nodes[c[i]].key # key
    <3>1. \A i \in 1..k : i \in 1..k - 1 \/ i = k
      BY <1>4
    <3> QED
      BY <1>3, <1>8, <2>2, <3>1 DEF RemoveAt
  <2>6. RemoveAt(c, n, k + 1)'
    BY <2>1, <2>2, <2>3, <2>4, <2>5 DEF RemoveAt
  <2>7. Walking(c, n)'
    BY <1>1, <1>2, <2>1, <2>4, <2>6 DEF Walking
  <2>8. Members' = DOMAIN nodes /\ Objects' = DOMAIN header /\ Blocks'
    BY <1>1, <2>1 DEF Members, Objects, Blocks
  <2>9. \E m, e : Ord(e, m, nodes', Members', head') /\ Reg(e, m, nodes', Objects')
                  /\ Walking(e, m)'
    BY <1>1, <1>2, <2>1, <2>7, <2>8
  <2> QED
    BY <1>1, <2>1, <2>8, <2>9 DEF IInv
<1> QED
  BY <1>6, <1>7, <1>8

\* JRuntime_destroy takes the first node off until there is none.
LEMMA DestroyIInv == IInv /\ JRuntime_destroy => IInv'
<1> SUFFICES ASSUME IInv, JRuntime_destroy PROVE IInv'
  OBVIOUS
<1>1. /\ pc \in {"client", "closed"} /\ pc' = "clear" /\ at' = head
      /\ UNCHANGED <<header, nodes, head, new>>
  BY DEF JRuntime_destroy, heap
<1>2. Members = DOMAIN nodes /\ Blocks'
  BY <1>1 DEF Members, IInv, Blocks
<1>3. PICK n, c : Ord(c, n, nodes, DOMAIN nodes, head)
  BY <1>1, <1>2 DEF IInv
<1>4. \E m, e : Ord(e, m, nodes', DOMAIN nodes', at')
  BY <1>1, <1>3
<1> QED
  BY <1>1, <1>2, <1>4 DEF IInv

LEMMA ClearIInv == IInv /\ map_clear => IInv'
<1> SUFFICES ASSUME IInv, map_clear PROVE IInv'
  OBVIOUS
<1>1. pc = "clear" /\ header' = header /\ new' = new /\ ClearNode
  BY DEF map_clear
<1>2. PICK n, c : Ord(c, n, nodes, DOMAIN nodes, at)
  BY <1>1 DEF IInv
<1>3. DOMAIN nodes \subseteq Addr /\ NULL \notin DOMAIN nodes
  BY RuntimeAssumption DEF IInv, Blocks
<1>4. CASE at = NULL
  <2>1. pc' = "destroyed" /\ head' = NULL /\ nodes' = nodes
    BY <1>1, <1>4 DEF ClearNode
  <2>2. n = 0
    BY <1>2, <1>3, <1>4 DEF Ord
  <2>3. \A b \in DOMAIN nodes : \E i \in 1..0 : c[i] = b
    BY <1>2, <2>2 DEF Ord
  <2>4. DOMAIN nodes = {}
    BY <2>3
  <2> QED
    BY <1>1, <2>1, <2>4 DEF IInv, Blocks
<1>5. CASE at # NULL
  <2>1. nodes' = Without(nodes, at) /\ at' = nodes[at].next /\ pc' = pc /\ head' = head
    BY <1>1, <1>5 DEF ClearNode
  <2>2. n # 0 /\ at = c[1] /\ 1 \in 1..n
    BY <1>2, <1>3, <1>5 DEF Ord
  <2>3. /\ DOMAIN nodes' = DOMAIN nodes \ {c[1]}
        /\ \A b \in DOMAIN nodes : b # c[1] => nodes'[b] = nodes[b]
    BY <2>1, <2>2, WithoutIs
  <2>4. \A i \in 1..n : i # 1 => c[i] \in DOMAIN nodes /\ c[i] # c[1]
    BY <1>2, <2>2 DEF Ord
  <2>8. PICK d : d = Cut(c, n, 1)
    OBVIOUS
  <2>5. Ord(d, n - 1, nodes', DOMAIN nodes \ {c[1]}, at')
    <3>1. Skips(c, n, nodes, at, nodes', 1, at')
      BY <2>1, <2>2, <2>3, <2>4 DEF Skips
    <3> QED
      BY ONLY <1>2, <2>8, <3>1, OrdCut
  <2>6. \E m, e : Ord(e, m, nodes', DOMAIN nodes', at')
    BY <2>3, <2>5
  <2>7. Blocks'
    BY <1>1, <2>1, <2>3 DEF Blocks, IInv
  <2> QED
    BY <1>1, <2>1, <2>6, <2>7 DEF IInv
<1> QED
  BY <1>4, <1>5

LEMMA NextIInv == IInv /\ [Next]_vars => IInv'
<1> SUFFICES ASSUME IInv, [Next]_vars PROVE IInv'
  OBVIOUS
<1>1. CASE UNCHANGED vars
  <2>1. /\ UNCHANGED <<header, nodes, head, pc, key, new, at, prev>>
        /\ Members' = Members /\ Objects' = Objects
    BY <1>1 DEF vars, heap, walk, Members, Objects
  <2>2. \A n, c : Walking(c, n)' <=> Walking(c, n)
    BY <2>1 DEF Walking, PutAt, RemoveAt
  <2>3. Blocks'
    BY <2>1 DEF IInv, Blocks
  <2> QED
    BY <2>1, <2>2, <2>3 DEF IInv
<1>2. CASE JContext_new \/ JContext_alloc
  BY <1>2, AllocIInv DEF JContext_new, JContext_alloc
<1>3. CASE JContext_free \/ JContext_destroy
  <2>1. PICK p \in DOMAIN header : _dealloc(p)
    BY <1>3 DEF JContext_free, JContext_destroy, _dealloc
  <2>2. p \in Addr /\ pc = "client" /\ Search(p)
    BY <2>1 DEF _dealloc, IInv, Blocks
  <2> QED
    BY <2>2, SearchIInv
<1>4. CASE \E p \in Addr : _dealloc_again(p)
  <2>1. PICK p \in Addr : _dealloc_again(p)
    BY <1>4
  <2>2. CASE Search(p)
    BY <2>1, <2>2, SearchIInv DEF _dealloc_again
  <2>3. CASE pc' = "torn" /\ UNCHANGED <<heap, walk>>
    BY <2>1, <2>3 DEF _dealloc_again, heap, walk, IInv, Blocks
  <2> QED
    BY <2>1, <2>2, <2>3 DEF _dealloc_again
<1>5. CASE JRuntime_destroy
  BY <1>5, DestroyIInv
<1>6. CASE Walk
  BY <1>6, PutIInv, RemoveIInv, ClearIInv DEF Walk
<1> QED
  BY <1>1, <1>2, <1>3, <1>4, <1>5, <1>6 DEF Next

-----------------------------------------------------------------------------
(* The properties.                                                         *)

\* A chain has as many nodes as there are.
LEMMA OrdCardinality ==
  ASSUME NEW c, NEW n, NEW N, NEW dom, NEW first, Ord(c, n, N, dom, first)
  PROVE  Cardinality(dom) = n
<1>1. n \in Nat /\ c \in Bijection(1..n, dom)
  BY DEF Ord, Bijection, Injection, Surjection, IsInjective
<1>2. ExistsBijection(1..n, dom)
  BY <1>1 DEF ExistsBijection
<1> QED
  BY <1>1, <1>2, FS_CountingElements

LEMMA IInvRegistry == IInv => RegistryExact
<1> SUFFICES ASSUME IInv, pc \in {"client", "put", "remove", "closed"}
             PROVE  \E c \in [1..Cardinality(DOMAIN nodes \ {new}) -> DOMAIN nodes \ {new}] :
                      Chain(c, head) /\ Registers(c)
  BY DEF RegistryExact
<1>1. Members = DOMAIN nodes \ {new}
  BY RuntimeAssumption DEF IInv, Blocks, Members
<1>2. PICK n, c : Ord(c, n, nodes, Members, head) /\ Reg(c, n, nodes, Objects)
  BY DEF IInv
<1>3. Cardinality(Members) = n
  BY <1>2, OrdCardinality
<1>4. n \in Nat /\ c \in [1..n -> Members] /\ DOMAIN c = 1..n
  BY <1>2 DEF Ord
<1>5. /\ \A i \in 1..n : i + 1 \in 1..n <=> i < n
      /\ 1 \in 1..n <=> n # 0
  BY <1>4
<1>6. Chain(c, head)
  BY <1>2, <1>4, <1>5 DEF Ord, Chain
<1>7. Objects = DOMAIN header \ (IF pc = "put" THEN {key} ELSE {})
  BY DEF Objects
<1>8. {nodes[c[i]].key : i \in 1..n} = Objects
  BY <1>2 DEF Reg
<1>9. Registers(c)
  BY <1>2, <1>4, <1>7, <1>8 DEF Reg, Registers
<1> QED
  BY <1>1, <1>3, <1>4, <1>6, <1>9

LEMMA SpecIInv == Spec => []IInv
  BY InitIInv, NextIInv, PTL DEF Spec

\* At all times the registry is one chain with one node for each object
\* (map.c:42-106, jruntime.c:18-47).
THEOREM RegistryIsExact == Spec => []RegistryExact
  BY SpecIInv, IInvRegistry, PTL

\* The assertion on a deallocation never fails for an object that is allocated
\* (jruntime.c:44).
THEOREM TwiceIsDeserved == Spec => []TwiceDeserved
<1>1. IInv => TwiceDeserved
  BY DEF IInv, TwiceDeserved
<1> QED
  BY SpecIInv, <1>1, PTL

\* JRuntime_destroy leaves no node behind (map.c:108-126).
THEOREM NodesAreReturned == Spec => []NodesReturned
<1>1. IInv => NodesReturned
  BY DEF IInv, NodesReturned
<1> QED
  BY SpecIInv, <1>1, PTL

-----------------------------------------------------------------------------
(* Sums.                                                                   *)

\* The sum that MemoryAccounted takes, of any sizes over any objects.
Total(h, D) == MapThenSumSet(LAMBDA p : h[p], D)

\* g gives the sum over every subset of D, whichever element is taken first.
Sums(g, h, D) ==
  /\ g \in [SUBSET D -> Nat] /\ g[{}] = 0
  /\ \A S \in SUBSET D : \A x \in S : g[S] = h[x] + g[S \ {x}]

\* What the fold computes, one element after the other.
Folds(g, h, D) ==
  g = [S \in SUBSET D |-> IF S = {} THEN 0
                          ELSE LET x == CHOOSE x \in S : TRUE IN h[x] + g[S \ {x}]]

\* A set of numbers that is not empty has a least element.
LEMMA LeastOf ==
  ASSUME NEW S \in SUBSET Nat, S # {}
  PROVE  \E x \in S : \A y \in S : x <= y
<1> DEFINE R == OpToRel(<, Nat)
<1>1. IsWellFoundedOn(R, Nat)
  BY NatLessThanWellFounded
<1>2. \E x \in S : \A y \in S : ~(<<y, x>> \in R)
  BY <1>1, WFMin, Zenon
<1>3. PICK x \in S : \A y \in S : ~(<<y, x>> \in R)
  BY <1>2
<1>4. \A y \in S : ~(y < x)
  BY <1>3 DEF OpToRel
<1> QED
  BY <1>4, SMT

\* The subsets of a finite set, one element less.
LEMMA OneLess ==
  ASSUME NEW S, IsFiniteSet(S), NEW x \in S
  PROVE  /\ IsFiniteSet(S \ {x}) /\ Cardinality(S) \in Nat
         /\ Cardinality(S \ {x}) \in Nat /\ Cardinality(S \ {x}) < Cardinality(S)
<1>1. IsFiniteSet(S \ {x}) /\ Cardinality(S \ {x}) = Cardinality(S) - 1
  BY FS_RemoveElement
<1> QED
  BY <1>1, FS_CardinalityType

\* The sums exist: a set without them has a smaller one without them.
LEMMA SumsExist ==
  ASSUME NEW D, IsFiniteSet(D), NEW h, \A x \in D : h[x] \in Nat
  PROVE  \E g : Sums(g, h, D)
<1> DEFINE Has(S) == \E g : Sums(g, h, S)
           Bad == {n \in Nat : \E S \in SUBSET D : Cardinality(S) = n /\ ~Has(S)}
<1> SUFFICES ASSUME ~Has(D) PROVE FALSE
  OBVIOUS
<1>1. \A S \in SUBSET D : IsFiniteSet(S) /\ Cardinality(S) \in Nat
  BY FS_Subset, FS_CardinalityType
<1>2. Bad \in SUBSET Nat /\ Bad # {}
  <2>1. Cardinality(D) \in Bad
    BY <1>1
  <2> QED
    BY <2>1
<1>3. PICK n \in Bad : \A y \in Bad : n <= y
  BY <1>2, LeastOf
<1>4. PICK S \in SUBSET D : Cardinality(S) = n /\ ~Has(S)
  BY <1>3
<1>5. CASE S = {}
  <2> DEFINE g == [T \in SUBSET {} |-> 0]
  <2>1. Sums(g, h, {})
    BY DEF Sums
  <2> QED
    BY <1>4, <1>5, <2>1
<1>6. CASE S # {}
  <2>1. PICK a \in S : TRUE
    BY <1>6
  <2> DEFINE R == S \ {a}
  <2>2. Has(R)
    <3>1. Cardinality(R) \in Nat /\ Cardinality(R) < n
      BY <1>1, <1>4, OneLess
    <3>2. Cardinality(R) \notin Bad
      BY <1>3, <3>1
    <3> QED
      BY <3>1, <3>2
  <2>3. PICK f : Sums(f, h, R)
    BY <2>2
  <2> DEFINE g == [T \in SUBSET S |-> IF a \in T THEN h[a] + f[T \ {a}] ELSE f[T]]
  <2>4. \A T \in SUBSET S : T \ {a} \in SUBSET R /\ (a \notin T => T \in SUBSET R)
    OBVIOUS
  <2>5. f \in [SUBSET R -> Nat] /\ h[a] \in Nat
    BY <2>3 DEF Sums
  <2>6. g \in [SUBSET S -> Nat] /\ g[{}] = 0
    BY <2>3, <2>4, <2>5 DEF Sums
  <2>7. ASSUME NEW T \in SUBSET S, NEW x \in T PROVE g[T] = h[x] + g[T \ {x}]
    <3>1. T \ {x} \in SUBSET S /\ h[x] \in Nat
      OBVIOUS
    <3>2. CASE x = a
      BY <2>4, <3>1, <3>2
    <3>3. CASE x # a /\ a \in T
      <4>1. /\ (T \ {a}) \ {x} = (T \ {x}) \ {a} /\ x \in T \ {a} /\ a \in T \ {x}
            /\ (T \ {x}) \ {a} \in SUBSET R
        BY <3>3
      <4>2. f[T \ {a}] = h[x] + f[(T \ {x}) \ {a}]
        <5>1. f[T \ {a}] = h[x] + f[(T \ {a}) \ {x}]
          BY <2>3, <2>4, <4>1, Zenon DEF Sums
        <5> QED
          BY <4>1, <5>1
      <4>3. g[T] = h[a] + f[T \ {a}] /\ g[T \ {x}] = h[a] + f[(T \ {x}) \ {a}]
        BY <3>1, <3>3, <4>1
      <4>4. f[(T \ {x}) \ {a}] \in Nat
        BY <2>5, <4>1
      <4> QED
        BY <2>5, <3>1, <4>2, <4>3, <4>4
    <3>4. CASE a \notin T
      BY <2>3, <2>4, <3>1, <3>4 DEF Sums
    <3> QED
      BY <3>2, <3>3, <3>4
  <2> HIDE DEF g
  <2>8. Sums(g, h, S)
    BY <2>6, <2>7 DEF Sums
  <2> QED
    BY <1>4, <2>8
<1> QED
  BY <1>5, <1>6

\* The fold is one of the sums.
LEMMA TotalIs ==
  ASSUME NEW D, IsFiniteSet(D), NEW h, NEW g, Sums(g, h, D)
  PROVE  Total(h, D) = g[D]
<1> DEFINE it == CHOOSE it : it = [S \in SUBSET D |->
                   IF S = {} THEN 0
                   ELSE LET x == CHOOSE x \in S : TRUE IN h[x] + it[S \ {x}]]
<1>1. Folds(g, h, D)
  <2>1. \A S \in SUBSET D :
          g[S] = IF S = {} THEN 0
                 ELSE LET x == CHOOSE x \in S : TRUE IN h[x] + g[S \ {x}]
    BY DEF Sums
  <2>2. g = [S \in SUBSET D |-> g[S]]
    BY DEF Sums
  <2> QED
    BY <2>1, <2>2 DEF Folds
<1>2. Folds(it, h, D)
  BY <1>1, Zenon DEF Folds
<1>3. Total(h, D) = it[D]
  BY Zenon DEF Total, MapThenSumSet, MapThenFoldSet
<1> HIDE DEF it
<1> DEFINE Bad == {n \in Nat : \E S \in SUBSET D : Cardinality(S) = n /\ it[S] # g[S]}
<1> SUFFICES ASSUME it[D] # g[D] PROVE FALSE
  BY <1>3
<1>4. \A S \in SUBSET D : IsFiniteSet(S) /\ Cardinality(S) \in Nat
  BY FS_Subset, FS_CardinalityType
<1>5. Bad \in SUBSET Nat /\ Bad # {}
  <2>1. Cardinality(D) \in Bad
    BY <1>4
  <2> QED
    BY <2>1
<1>6. PICK n \in Bad : \A y \in Bad : n <= y
  BY <1>5, LeastOf
<1>7. PICK S \in SUBSET D : Cardinality(S) = n /\ it[S] # g[S]
  BY <1>6
<1>8. S # {}
  BY <1>2, <1>7 DEF Folds, Sums
<1> DEFINE x == CHOOSE x \in S : TRUE
<1>9. x \in S /\ it[S] = h[x] + it[S \ {x}]
  BY <1>2, <1>8 DEF Folds
<1> HIDE DEF x
<1>10. it[S \ {x}] = g[S \ {x}]
  <2>1. S \ {x} \in SUBSET D /\ Cardinality(S \ {x}) \in Nat /\ Cardinality(S \ {x}) < n
    BY <1>4, <1>7, <1>9, OneLess
  <2>2. n \in Nat /\ \A y \in Bad : n <= y
    BY <1>6
  <2> HIDE DEF Bad
  <2>3. Cardinality(S \ {x}) \notin Bad
    BY <2>1, <2>2
  <2> USE DEF Bad
  <2> QED
    BY <2>1, <2>3
<1> QED
  BY <1>7, <1>9, <1>10 DEF Sums

\* The sum over nothing, with one object more, and whether it is zero.
LEMMA TotalFacts ==
  ASSUME NEW D, IsFiniteSet(D), NEW h, \A x \in D : h[x] \in Nat
  PROVE  /\ Total(h, D) \in Nat
         /\ D = {} => Total(h, D) = 0
         /\ \A a \in D : Total(h, D) = h[a] + Total(h, D \ {a}) /\ Total(h, D \ {a}) \in Nat
         /\ \A k : (\A x \in D : k[x] = h[x]) => Total(k, D) = Total(h, D)
<1>1. PICK g : Sums(g, h, D)
  BY SumsExist
<1>2. Total(h, D) = g[D] /\ g \in [SUBSET D -> Nat] /\ g[D] \in Nat
  <2>1. Total(h, D) = g[D]
    BY <1>1, TotalIs
  <2> QED
    BY <1>1, <2>1 DEF Sums
<1>3. ASSUME NEW a \in D PROVE Total(h, D) = h[a] + Total(h, D \ {a}) /\ Total(h, D \ {a}) \in Nat
  <2> DEFINE f == [S \in SUBSET (D \ {a}) |-> g[S]]
  <2>1. \A S \in SUBSET (D \ {a}) : f[S] = g[S] /\ S \in SUBSET D
    OBVIOUS
  <2>2. f \in [SUBSET (D \ {a}) -> Nat]
    BY <1>2
  <2>3. \A S \in SUBSET (D \ {a}) : \A x \in S : S \ {x} \in SUBSET (D \ {a})
    OBVIOUS
  <2> HIDE DEF f
  <2>4. Sums(f, h, D \ {a})
    BY <1>1, <2>1, <2>2, <2>3 DEF Sums
  <2>5. Total(h, D \ {a}) = f[D \ {a}]
    BY <2>4, TotalIs, OneLess
  <2>6. g[D] = h[a] + g[D \ {a}]
    BY <1>1 DEF Sums
  <2> QED
    BY <1>2, <2>1, <2>2, <2>5, <2>6
<1>4. ASSUME NEW k, \A x \in D : k[x] = h[x] PROVE Total(k, D) = Total(h, D)
  <2>1. Sums(g, k, D)
    BY <1>1, <1>4 DEF Sums
  <2> QED
    BY <1>2, <2>1, TotalIs
<1> QED
  BY <1>1, <1>2, <1>3, <1>4 DEF Sums

LEMMA TotalZero ==
  ASSUME NEW D, IsFiniteSet(D), NEW h, \A x \in D : h[x] \in Nat
  PROVE  Total(h, D) = 0 <=> \A x \in D : h[x] = 0
<1>1. ASSUME Total(h, D) = 0, NEW x \in D PROVE h[x] = 0
  <2>1. Total(h, D) = h[x] + Total(h, D \ {x}) /\ Total(h, D \ {x}) \in Nat
    BY TotalFacts
  <2> QED
    BY <1>1, <2>1
<1>2. ASSUME \A x \in D : h[x] = 0 PROVE Total(h, D) = 0
  <2> DEFINE g == [S \in SUBSET D |-> 0]
  <2>1. Sums(g, h, D)
    BY <1>2 DEF Sums
  <2> QED
    BY <2>1, TotalIs
<1> QED
  BY <1>1, <1>2
-----------------------------------------------------------------------------
(* Types.                                                                  *)

\* The nodes with one more, one less, or another successor.
LEMMA NodesTyped ==
  ASSUME NEW N, N \in [DOMAIN N -> [key : Addr, next : Addr \cup {NULL}]],
         DOMAIN N \subseteq Addr, NEW a
  PROVE  /\ \A p \in Addr : a \in Addr =>
              /\ With(N, a, NewNode(p)) \in
                   [DOMAIN With(N, a, NewNode(p)) -> [key : Addr, next : Addr \cup {NULL}]]
              /\ DOMAIN With(N, a, NewNode(p)) \subseteq Addr
         /\ /\ Without(N, a) \in [DOMAIN Without(N, a) -> [key : Addr, next : Addr \cup {NULL}]]
            /\ DOMAIN Without(N, a) \subseteq Addr
         /\ \A b \in Addr \cup {NULL} :
              LET M == [N EXCEPT ![a].next = b]
              IN  /\ M \in [DOMAIN M -> [key : Addr, next : Addr \cup {NULL}]]
                  /\ DOMAIN M \subseteq Addr
<1>1. ASSUME NEW p \in Addr, a \in Addr
      PROVE  /\ With(N, a, NewNode(p)) \in
                  [DOMAIN With(N, a, NewNode(p)) -> [key : Addr, next : Addr \cup {NULL}]]
             /\ DOMAIN With(N, a, NewNode(p)) \subseteq Addr
  BY <1>1 DEF With, NewNode
<1>2. /\ Without(N, a) \in [DOMAIN Without(N, a) -> [key : Addr, next : Addr \cup {NULL}]]
      /\ DOMAIN Without(N, a) \subseteq Addr
  BY DEF Without, Restrict
<1>3. ASSUME NEW b \in Addr \cup {NULL}
      PROVE  LET M == [N EXCEPT ![a].next = b]
             IN  /\ M \in [DOMAIN M -> [key : Addr, next : Addr \cup {NULL}]]
                 /\ DOMAIN M \subseteq Addr
  OBVIOUS
<1> QED
  BY <1>1, <1>2, <1>3

\* Where the walks are, there are nodes.
LEMMA WalkPlaces ==
  ASSUME IInv
  PROVE  /\ pc = "put" => at \in DOMAIN nodes /\ new \in DOMAIN nodes /\ key \in DOMAIN header
         /\ pc = "remove" /\ at # NULL =>
              /\ at \in DOMAIN nodes /\ nodes[at].key \in DOMAIN header
              /\ nodes[at].key = key => prev \in DOMAIN nodes /\ prev # at
         /\ pc = "clear" /\ at # NULL => at \in DOMAIN nodes
         /\ pc = "client" /\ head # NULL => head \in DOMAIN nodes /\ nodes[head].key \in DOMAIN header
<1>1. CASE pc = "put"
  <2>1. PICK n, c : Ord(c, n, nodes, Members, head) /\ Walking(c, n)
    BY <1>1 DEF IInv
  <2>2. PutAt(c, n)
    BY <1>1, <2>1 DEF Walking
  <2>3. at \in Members
    BY <2>1, <2>2 DEF PutAt, Ord
  <2> QED
    BY <1>1, <2>2, <2>3 DEF PutAt, Members
<1>2. CASE pc = "remove"
  <2>1. PICK n, c : /\ Ord(c, n, nodes, Members, head) /\ Reg(c, n, nodes, Objects)
                    /\ Walking(c, n)
    BY <1>2 DEF IInv
  <2>2. PICK k \in 1..n + 1 : RemoveAt(c, n, k)
    BY <1>2, <2>1 DEF Walking
  <2>3. Members = DOMAIN nodes /\ Objects = DOMAIN header
    BY <1>2 DEF Members, Objects
  <2>4. n \in Nat /\ c \in [1..n -> DOMAIN nodes] /\ \A i, j \in 1..n : c[i] = c[j] => i = j
    BY <2>1, <2>3 DEF Ord
  <2>5. ASSUME at # NULL PROVE k \in 1..n /\ at = c[k]
    BY <2>2, <2>5 DEF RemoveAt
  <2>6. ASSUME at # NULL PROVE at \in DOMAIN nodes /\ nodes[at].key \in DOMAIN header
    BY <2>1, <2>3, <2>4, <2>5, <2>6 DEF Reg
  <2>7. ASSUME at # NULL, nodes[at].key = key PROVE prev \in DOMAIN nodes /\ prev # at
    <3>1. k # 1
      BY <2>2, <2>4, <2>5, <2>7 DEF RemoveAt
    <3>2. k - 1 \in 1..n /\ k > 1 /\ k - 1 # k
      BY <2>4, <2>5, <2>7, <3>1
    <3> QED
      BY <2>2, <2>4, <2>5, <2>7, <3>2 DEF RemoveAt
  <2> QED
    BY <1>2, <2>6, <2>7
<1>3. CASE pc = "clear"
  <2>1. PICK n, c : Ord(c, n, nodes, DOMAIN nodes, at)
    BY <1>3 DEF IInv
  <2> QED
    BY <1>3, <2>1 DEF Ord
<1>4. CASE pc = "client"
  <2>1. PICK n, c : Ord(c, n, nodes, Members, head) /\ Reg(c, n, nodes, Objects)
    BY <1>4 DEF IInv
  <2>2. Members = DOMAIN nodes /\ Objects = DOMAIN header
    BY <1>4 DEF Members, Objects
  <2>3. /\ n \in Nat /\ c \in [1..n -> DOMAIN nodes] /\ head = IF n = 0 THEN NULL ELSE c[1]
        /\ \A i \in 1..n : nodes[c[i]].key \in DOMAIN header
    BY <2>1, <2>2 DEF Ord, Reg
  <2>4. ASSUME head # NULL PROVE head \in DOMAIN nodes /\ nodes[head].key \in DOMAIN header
    <3>1. 1 \in 1..n /\ head = c[1]
      BY <2>3, <2>4
    <3> QED
      BY <2>3, <3>1
  <2> QED
    BY <1>4, <2>4
<1> QED
  BY <1>1, <1>2, <1>3, <1>4

LEMMA SearchTypes ==
  ASSUME IInv, TypeOK, NEW p \in Addr, pc = "client", Search(p), memory_allocated' \in Int,
         UNCHANGED ctx
  PROVE  TypeOK'
<1>1. CASE /\ head # NULL /\ head' = nodes[head].next /\ nodes' = Without(nodes, head)
           /\ header' = Without(header, p) /\ Returned(p) /\ UNCHANGED walk
  <2>1. head \in DOMAIN nodes
    BY <1>1, WalkPlaces
  <2>2. head' \in Addr \cup {NULL}
    BY <1>1, <2>1 DEF TypeOK
  <2>3. nodes' \in [DOMAIN nodes' -> [key : Addr, next : Addr \cup {NULL}]] /\ DOMAIN nodes' \subseteq Addr
    BY <1>1, NodesTyped DEF TypeOK
  <2>4. header' \in [DOMAIN header' -> Nat] /\ DOMAIN header' \subseteq Addr
    BY <1>1 DEF TypeOK, Without, Restrict
  <2>5. pc' \in {"client", "closed", "leak"}
    BY <1>1 DEF Returned
  <2> QED
    BY <1>1, <2>2, <2>3, <2>4, <2>5 DEF TypeOK, walk
<1>2. CASE /\ pc' = "remove" /\ key' = p /\ at' = head /\ prev' = NULL
           /\ header' = IF p \in DOMAIN header THEN [header EXCEPT ![p] = 0] ELSE header
           /\ UNCHANGED <<head, nodes, new>>
  BY <1>2 DEF TypeOK
<1> QED
  BY <1>1, <1>2 DEF Search

LEMMA AllocTypes ==
  ASSUME TypeOK, NEW p \in Addr, NEW size \in Nat, _alloc(p, size), ctx' \in Addr \cup {NULL}
  PROVE  TypeOK'
<1>1. PICK n \in Free \ {p} :
        /\ nodes' = With(nodes, n, NewNode(p))
        /\ \/ head' = n /\ UNCHANGED <<pc, walk>>
           \/ /\ head # NULL /\ pc' = "put" /\ key' = p /\ new' = n /\ at' = head
              /\ UNCHANGED <<head, prev>>
  BY DEF _alloc
<1>2. n \in Addr
  BY DEF Free
<1>3. nodes' \in [DOMAIN nodes' -> [key : Addr, next : Addr \cup {NULL}]] /\ DOMAIN nodes' \subseteq Addr
  BY <1>1, <1>2, NodesTyped DEF TypeOK
<1>4. /\ header' \in [DOMAIN header' -> Nat] /\ DOMAIN header' \subseteq Addr
      /\ memory_allocated' \in Int
  BY DEF _alloc, With, TypeOK
<1> QED
  BY <1>1, <1>2, <1>3, <1>4 DEF TypeOK, walk

LEMMA NextTypes == IInv /\ TypeOK /\ [Next]_vars => TypeOK'
<1> SUFFICES ASSUME IInv, TypeOK, [Next]_vars PROVE TypeOK'
  OBVIOUS
<1>1. CASE UNCHANGED vars
  BY <1>1 DEF vars, heap, walk, TypeOK
<1>2. CASE JContext_new \/ JContext_alloc
  <2>1. PICK p \in Addr, size \in Nat : _alloc(p, size) /\ ctx' \in Addr \cup {NULL}
    BY <1>2, RuntimeAssumption DEF JContext_new, JContext_alloc, TypeOK
  <2> QED
    BY <2>1, AllocTypes
<1>3. CASE JContext_free \/ JContext_destroy
  <2>1. PICK p \in DOMAIN header : _dealloc(p) /\ UNCHANGED ctx
    BY <1>3 DEF JContext_free, JContext_destroy, _dealloc
  <2>2. p \in Addr /\ pc = "client" /\ Search(p) /\ memory_allocated' \in Int
    BY <2>1 DEF _dealloc, TypeOK
  <2> QED
    BY <2>1, <2>2, SearchTypes
<1>4. CASE \E p \in Addr : _dealloc_again(p)
  <2>1. PICK p \in Addr : _dealloc_again(p)
    BY <1>4
  <2>2. CASE Search(p) /\ memory_allocated' \in Int
    BY <2>1, <2>2, SearchTypes DEF _dealloc_again
  <2>3. CASE pc' = "torn" /\ UNCHANGED <<heap, walk>>
    BY <2>1, <2>3 DEF _dealloc_again, heap, walk, TypeOK
  <2>4. \A size \in Sizes : memory_allocated - size \in Int
    BY RuntimeAssumption DEF TypeOK
  <2> QED
    BY <2>1, <2>2, <2>3, <2>4 DEF _dealloc_again
<1>5. CASE JRuntime_destroy
  BY <1>5 DEF JRuntime_destroy, heap, TypeOK
<1>6. CASE map_put
  <2>1. at \in DOMAIN nodes /\ new \in DOMAIN nodes
    BY <1>6, WalkPlaces DEF map_put
  <2>2. CASE nodes' = [nodes EXCEPT ![at].next = new] /\ pc' = "client" /\ NoWalk
    BY <1>6, <2>1, <2>2, NodesTyped DEF map_put, NoWalk, TypeOK
  <2>3. CASE at' = nodes[at].next /\ UNCHANGED <<nodes, pc, key, new, prev>>
    BY <1>6, <2>1, <2>3 DEF map_put, TypeOK
  <2> QED
    BY <1>6, <2>2, <2>3 DEF map_put
<1>7. CASE map_remove
  <2>1. CASE RemoveFailed
    BY <1>7, <2>1 DEF map_remove, RemoveFailed, walk, TypeOK
  <2>2. CASE at # NULL /\ nodes[at].key = key /\ RemoveFound
    <3>1. at \in DOMAIN nodes /\ nodes[at].next \in Addr \cup {NULL}
      BY <1>7, <2>2, WalkPlaces DEF map_remove, TypeOK
    <3> DEFINE M == Unlink
    <3>2. M \in [DOMAIN M -> [key : Addr, next : Addr \cup {NULL}]] /\ DOMAIN M \subseteq Addr
      BY <3>1, NodesTyped DEF TypeOK, Unlink
    <3>3. nodes' = Without(M, at) /\ header' = Without(header, key)
      BY <2>2 DEF RemoveFound
    <3> HIDE DEF M
    <3>4. nodes' \in [DOMAIN nodes' -> [key : Addr, next : Addr \cup {NULL}]] /\ DOMAIN nodes' \subseteq Addr
      BY <3>2, <3>3, NodesTyped
    <3>5. header' \in [DOMAIN header' -> Nat] /\ DOMAIN header' \subseteq Addr
      BY <3>3 DEF TypeOK, Without, Restrict
    <3>6. pc' \in {"client", "closed", "leak"} /\ NoWalk
      BY <2>2 DEF RemoveFound, Returned
    <3> QED
      BY <1>7, <3>4, <3>5, <3>6 DEF map_remove, NoWalk, TypeOK
  <2>3. CASE at # NULL /\ RemoveNext
    <3>1. at \in DOMAIN nodes
      BY <1>7, <2>3, WalkPlaces DEF map_remove
    <3> QED
      BY <1>7, <2>3, <3>1 DEF map_remove, RemoveNext, TypeOK
  <2> QED
    BY <1>7, <2>1, <2>2, <2>3 DEF map_remove
<1>8. CASE map_clear
  <2>1. CASE /\ pc' = "destroyed" /\ head' = NULL /\ UNCHANGED <<nodes, at>>
    BY <1>8, <2>1 DEF map_clear, TypeOK
  <2>2. CASE /\ at # NULL /\ nodes' = Without(nodes, at) /\ at' = nodes[at].next
             /\ UNCHANGED <<pc, head>>
    <3>1. at \in DOMAIN nodes
      BY <1>8, <2>2, WalkPlaces DEF map_clear
    <3>2. nodes' \in [DOMAIN nodes' -> [key : Addr, next : Addr \cup {NULL}]] /\ DOMAIN nodes' \subseteq Addr
      BY <2>2, NodesTyped DEF TypeOK
    <3> QED
      BY <1>8, <2>2, <3>1, <3>2 DEF map_clear, TypeOK
  <2> QED
    BY <1>8, <2>1, <2>2 DEF map_clear, ClearNode
<1> QED
  BY <1>1, <1>2, <1>3, <1>4, <1>5, <1>6, <1>7, <1>8 DEF Next, Walk

LEMMA SpecTypes == Spec => [](IInv /\ TypeOK)
<1>1. Init => TypeOK
  <2>1. ASSUME Init PROVE /\ DOMAIN header = {} /\ DOMAIN nodes = {}
                          /\ header = [a \in {} |-> 0]
                          /\ nodes = [a \in {} |-> [key |-> NULL, next |-> NULL]]
    BY <2>1 DEF Init
  <2>2. ASSUME Init PROVE header \in [{} -> Nat] /\ nodes \in [{} -> [key : Addr, next : Addr \cup {NULL}]]
    BY <2>1, <2>2
  <2> QED
    BY <2>1, <2>2 DEF Init, TypeOK
<1>2. IInv /\ TypeOK /\ [Next]_vars => (IInv /\ TypeOK)'
  BY NextIInv, NextTypes
<1> QED
  BY InitIInv, <1>1, <1>2, PTL DEF Spec

-----------------------------------------------------------------------------
(* The amount of memory.                                                   *)

Sized == memory_allocated = Total(header, DOMAIN header)

\* What is looked up has been wiped; while it is not an object the amount is
\* wrong.
MemoryInv ==
  /\ (pc \in {"remove", "twice"} /\ key \notin DOMAIN header) \/ Sized
  /\ pc = "remove" /\ key \in DOMAIN header => header[key] = 0
  /\ LeakExact

\* One object more, one less, one with no size.
LEMMA TotalChanges ==
  ASSUME NEW h, h \in [DOMAIN h -> Nat], IsFiniteSet(DOMAIN h), NEW p
  PROVE  /\ p \notin DOMAIN h => \A v \in Nat :
              Total(With(h, p, v), DOMAIN With(h, p, v)) = Total(h, DOMAIN h) + v
         /\ p \in DOMAIN h =>
              LET g == Without(h, p)
              IN  Total(g, DOMAIN g) = Total(h, DOMAIN h) - h[p]
         /\ p \in DOMAIN h =>
              LET g == [h EXCEPT ![p] = 0]
              IN  Total(g, DOMAIN g) = Total(h, DOMAIN h) - h[p]
<1> DEFINE D == DOMAIN h
<1>0. IsFiniteSet(D) /\ \A x \in D : h[x] \in Nat
  OBVIOUS
<1>1. Total(h, D) \in Nat
  BY <1>0, TotalFacts
<1>2. ASSUME p \notin D, NEW v \in Nat
      PROVE  Total(With(h, p, v), DOMAIN With(h, p, v)) = Total(h, D) + v
  <2> DEFINE g == With(h, p, v)
             E == D \cup {p}
  <2>1. /\ DOMAIN g = E /\ g[p] = v /\ \A x \in D : g[x] = h[x]
        /\ \A x \in E : g[x] \in Nat
    BY <1>2 DEF With
  <2>2. IsFiniteSet(E) /\ p \in E /\ E \ {p} = D
    BY <1>0, <1>2, FS_AddElement
  <2> HIDE DEF g, E, D
  <2>3. Total(g, E) = g[p] + Total(g, E \ {p})
    BY <2>1, <2>2, TotalFacts
  <2>4. Total(g, D) = Total(h, D)
    BY <1>0, <2>1, TotalFacts
  <2>5. Total(g, E) = v + Total(h, D)
    BY <2>1, <2>2, <2>3, <2>4
  <2>6. Total(g, DOMAIN g) = Total(h, D) + v
    BY <1>1, <2>1, <2>5
  <2> QED
    BY <2>6 DEF g
<1>3. ASSUME p \in D PROVE /\ Total(h, D) = h[p] + Total(h, D \ {p})
                           /\ Total(h, D \ {p}) \in Nat /\ h[p] \in Nat
                           /\ IsFiniteSet(D \ {p}) /\ \A x \in D \ {p} : h[x] \in Nat
  <2>1. IsFiniteSet(D \ {p})
    BY <1>0, <1>3, OneLess
  <2> QED
    BY <1>0, <1>3, <2>1, TotalFacts
<1>4. ASSUME p \in D PROVE Total(Without(h, p), DOMAIN Without(h, p)) = Total(h, D) - h[p]
  <2> DEFINE g == Without(h, p)
             E == D \ {p}
  <2>1. DOMAIN g = E /\ \A x \in E : g[x] = h[x]
    BY DEF Without, Restrict
  <2> HIDE DEF g, E
  <2>2. Total(g, E) = Total(h, E)
    BY <1>3, <1>4, <2>1, TotalFacts DEF E
  <2> QED
    BY <1>3, <1>4, <2>1, <2>2 DEF g, E
<1>5. ASSUME p \in D PROVE Total([h EXCEPT ![p] = 0], D) = Total(h, D) - h[p]
  <2> DEFINE g == [h EXCEPT ![p] = 0]
             E == D \ {p}
  <2>1. DOMAIN g = D /\ g[p] = 0 /\ (\A x \in E : g[x] = h[x]) /\ \A x \in D : g[x] \in Nat
    BY <1>5
  <2> HIDE DEF g, E
  <2>2. Total(g, E) = Total(h, E)
    BY <1>3, <1>5, <2>1, TotalFacts DEF E
  <2>3. Total(g, D) = g[p] + Total(g, D \ {p})
    BY <1>0, <1>5, <2>1, TotalFacts
  <2> QED
    BY <1>3, <1>5, <2>1, <2>2, <2>3 DEF g, E
<1>6. DOMAIN [h EXCEPT ![p] = 0] = D
  OBVIOUS
<1> QED
  BY <1>2, <1>4, <1>5, <1>6

LEMMA ObjectsFinite ==
  /\ TypeOK => IsFiniteSet(DOMAIN header) /\ header \in [DOMAIN header -> Nat]
  /\ TypeOK' => IsFiniteSet(DOMAIN header') /\ header' \in [DOMAIN header' -> Nat]
BY RuntimeAssumption, FS_Subset DEF TypeOK

\* When a deallocation is over the assertion in JContext_destroy tells whether
\* something with a size is left.
LEMMA ReturnedMemory ==
  ASSUME TypeOK', Sized', NEW p, Returned(p)
  PROVE  MemoryInv'
<1>1. pc' \in {"client", "closed", "leak"}
  BY DEF Returned
<1>2. IsFiniteSet(DOMAIN header') /\ header' \in [DOMAIN header' -> Nat]
  BY ObjectsFinite
<1>3. memory_allocated' = 0 <=> \A x \in DOMAIN header' : header'[x] = 0
  BY <1>2, TotalZero DEF Sized
<1>4. pc' = "closed" => memory_allocated' = 0
  BY DEF Returned
<1>5. pc' = "leak" => memory_allocated' # 0
  BY DEF Returned
<1>6. \A x \in DOMAIN header' : header'[x] # 0 => header'[x] > 0
  BY <1>2
<1>7. LeakExact'
  BY <1>3, <1>4, <1>5, <1>6 DEF LeakExact
<1> QED
  BY <1>1, <1>7 DEF MemoryInv

LEMMA SearchMemory ==
  ASSUME IInv, TypeOK, TypeOK', Sized, NEW p, pc = "client", Search(p),
         p \in DOMAIN header => memory_allocated' = memory_allocated - header[p]
  PROVE  MemoryInv'
<1>1. IsFiniteSet(DOMAIN header) /\ header \in [DOMAIN header -> Nat]
  BY ObjectsFinite
<1>2. CASE /\ head # NULL /\ nodes[head].key = p
           /\ header' = Without(header, p) /\ Returned(p)
  <2>1. p \in DOMAIN header
    BY <1>2, WalkPlaces
  <2>2. Sized'
    BY <1>1, <1>2, <2>1, TotalChanges DEF Sized
  <2> QED
    BY <1>2, <2>2, ReturnedMemory
<1>3. CASE /\ pc' = "remove" /\ key' = p
           /\ header' = IF p \in DOMAIN header THEN [header EXCEPT ![p] = 0] ELSE header
  <2>1. CASE p \in DOMAIN header
    <3>1. Sized'
      BY <1>1, <1>3, <2>1, TotalChanges DEF Sized
    <3> QED
      BY <1>1, <1>3, <2>1, <3>1 DEF MemoryInv, LeakExact
  <2>2. CASE p \notin DOMAIN header
    BY <1>3, <2>2 DEF MemoryInv, LeakExact
  <2> QED
    BY <2>1, <2>2
<1> QED
  BY <1>2, <1>3 DEF Search

LEMMA NextMemory == IInv /\ TypeOK /\ TypeOK' /\ MemoryInv /\ [Next]_vars => MemoryInv'
<1> SUFFICES ASSUME IInv, TypeOK, TypeOK', MemoryInv, [Next]_vars PROVE MemoryInv'
  OBVIOUS
<1>0. IsFiniteSet(DOMAIN header) /\ header \in [DOMAIN header -> Nat]
  BY ObjectsFinite
<1>1. CASE UNCHANGED vars
  BY <1>1 DEF vars, heap, walk, MemoryInv, Sized, LeakExact
<1>2. CASE JContext_new \/ JContext_alloc
  <2>1. PICK p \in Addr, size \in Nat : _alloc(p, size)
    BY <1>2, RuntimeAssumption DEF JContext_new, JContext_alloc
  <2>2. p \notin DOMAIN header /\ pc = "client" /\ pc' \in {"client", "put"}
    BY <2>1 DEF _alloc, Free
  <2>3. Sized'
    BY <1>0, <2>1, <2>2, TotalChanges DEF MemoryInv, Sized, _alloc
  <2> QED
    BY <2>2, <2>3 DEF MemoryInv, LeakExact
<1>3. CASE JContext_free \/ JContext_destroy
  <2>1. PICK p \in DOMAIN header : _dealloc(p)
    BY <1>3 DEF JContext_free, JContext_destroy, _dealloc
  <2> QED
    BY <2>1, SearchMemory DEF _dealloc, MemoryInv
<1>4. CASE \E p \in Addr : _dealloc_again(p)
  <2>1. PICK p \in Addr : _dealloc_again(p)
    BY <1>4
  <2>2. p \notin DOMAIN header /\ pc = "client" /\ Sized
    BY <2>1 DEF _dealloc_again, MemoryInv
  <2>3. CASE Search(p)
    BY <2>2, <2>3, SearchMemory
  <2>4. CASE pc' = "torn" /\ UNCHANGED <<heap, walk>>
    BY <2>2, <2>4 DEF heap, MemoryInv, Sized, LeakExact
  <2> QED
    BY <2>1, <2>3, <2>4 DEF _dealloc_again
<1>5. CASE JRuntime_destroy
  BY <1>5 DEF JRuntime_destroy, heap, MemoryInv, Sized, LeakExact
<1>6. CASE map_put
  BY <1>6 DEF map_put, MemoryInv, Sized, LeakExact, NoWalk
<1>7. CASE map_remove
  <2>1. CASE RemoveFailed
    BY <1>7, <2>1 DEF map_remove, RemoveFailed, walk, MemoryInv, Sized, LeakExact
  <2>2. CASE at # NULL /\ nodes[at].key = key /\ RemoveFound
    <3>1. key \in DOMAIN header
      BY <1>7, <2>2, WalkPlaces DEF map_remove
    <3>2. header[key] = 0 /\ Sized
      BY <1>7, <3>1 DEF map_remove, MemoryInv
    <3>3. Total(header', DOMAIN header') = Total(header, DOMAIN header) - 0
      BY <1>0, <2>2, <3>1, <3>2, TotalChanges DEF RemoveFound
    <3>4. Total(header, DOMAIN header) \in Nat
      BY <1>0, TotalFacts
    <3>5. Sized'
      BY <1>7, <3>2, <3>3, <3>4 DEF map_remove, Sized
    <3> QED
      BY <2>2, <3>5, ReturnedMemory DEF RemoveFound
  <2>3. CASE RemoveNext
    BY <1>7, <2>3 DEF map_remove, RemoveNext, MemoryInv, Sized, LeakExact
  <2> QED
    BY <1>7, <2>1, <2>2, <2>3 DEF map_remove
<1>8. CASE map_clear
  BY <1>8 DEF map_clear, ClearNode, MemoryInv, Sized, LeakExact
<1> QED
  BY <1>1, <1>2, <1>3, <1>4, <1>5, <1>6, <1>7, <1>8 DEF Next, Walk

LEMMA SpecMemory == Spec => []MemoryInv
<1>1. Init => MemoryInv
  <2> SUFFICES ASSUME Init PROVE MemoryInv
    OBVIOUS
  <2>1. DOMAIN header = {} /\ memory_allocated = 0 /\ pc = "client"
    BY DEF Init
  <2>2. Total(header, DOMAIN header) = 0
    BY <2>1, TotalFacts, FS_EmptySet
  <2> QED
    BY <2>1, <2>2 DEF MemoryInv, Sized, LeakExact
<1>2. TypeOK /\ IInv /\ (IInv /\ TypeOK)' /\ MemoryInv /\ [Next]_vars => MemoryInv'
  BY NextMemory
<1> QED
  BY SpecTypes, <1>1, <1>2, PTL DEF Spec

\* The variables have their types; in particular no walk leaves the nodes that
\* are allocated (map.c:42-126).
THEOREM TypeCorrect == Spec => []TypeOK
  BY SpecTypes, PTL

\* The number that is printed and asserted on is the sum of the sizes of the
\* objects, whatever is allocated and freed (jruntime.c:25, 41).
THEOREM MemoryIsAccounted == Spec => []MemoryAccounted
<1>1. MemoryInv => MemoryAccounted
  BY Zenon DEF MemoryInv, Sized, Total, MemoryAccounted
<1> QED
  BY SpecMemory, <1>1, PTL

\* The assertion of JContext_destroy fails exactly if an object with a size is
\* left (jcontext.c:22).
THEOREM LeakIsExact == Spec => []LeakExact
<1>1. MemoryInv => LeakExact
  BY DEF MemoryInv
<1> QED
  BY SpecMemory, <1>1, PTL

=============================================================================
