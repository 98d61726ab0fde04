------------------------------ MODULE Runtime ------------------------------
(***************************************************************************)
(* The memory monitor of jacv (src/jruntime.c, src/jcontext.c and the map  *)
(* of src/map.c, built with MONITOR_MEMORY).  Every object has a block     *)
(* with its size in front, and a node in a linked list, the registry;      *)
(* both are blocks of malloc, which hands out freed addresses again.  The  *)
(* client holds one context, allocates and frees objects through it, may   *)
(* free one that is not allocated, and closes the context.                 *)
(***************************************************************************)
EXTENDS Integers, FiniteSets, Functions, FiniteSetsExt

CONSTANTS
  Addr,      \* the blocks of malloc
  NULL,
  Sizes,     \* the sizes of objects
  JContext   \* sizeof(JContext)

ASSUME RuntimeAssumption ==
  /\ NULL \notin Addr /\ IsFiniteSet(Addr)
  /\ Sizes \subseteq Nat /\ JContext \in Nat \ {0}

VARIABLES
  header,  \* the objects: the size stored in front of each
  nodes,   \* the MapNodes: [key, next]
  head,    \* jr->allocations->node
  memory_allocated,
  ctx,     \* the context of the client
  pc,      \* client, closed or destroyed; put, remove, clear: a walk goes on;
           \* twice, leak: an assertion failed; torn: memory was overwritten
  key,     \* the object that put or remove is about
  new,     \* newNode of map_put
  at,      \* where the walk is: node of map_put and map_clear, temp of map_remove
  prev     \* of map_remove, uninitialized before the first turn

heap == <<header, nodes, head, memory_allocated>>
walk == <<key, new, at, prev>>
vars == <<heap, ctx, pc, walk>>

Free == Addr \ (DOMAIN header \cup DOMAIN nodes)

\* The client has the pointers of all objects but the one an operation is about.
Held == DOMAIN header \ (IF pc \in {"put", "remove"} THEN {key} ELSE {})

With(f, a, v) == [x \in DOMAIN f \cup {a} |-> IF x = a THEN v ELSE f[x]]
Without(f, a) == Restrict(f, DOMAIN f \ {a})

\* JRuntime_new: an empty registry.
Init ==
  /\ header = [a \in {} |-> 0] /\ nodes = [a \in {} |-> [key |-> NULL, next |-> NULL]]
  /\ head = NULL /\ memory_allocated = 0
  /\ ctx = NULL /\ pc = "client"
  /\ key = NULL /\ new = NULL /\ at = NULL /\ prev = NULL

\* The walk is over: its locals are gone, NULL stands for that.
NoWalk == key' = NULL /\ new' = NULL /\ at' = NULL /\ prev' = NULL

-----------------------------------------------------------------------------
(* Allocation: the object, and map_put at the end of the registry.         *)

\* Mutant: the next pointer of a new node, a block of malloc, is not initialized.
NodeUncleared(p) == [key |-> p, next |-> "garbage"]

NewNode(p) == [key |-> p, next |-> NULL]

\* With an empty registry the new node is its head; otherwise the walk to the
\* last node starts.
_alloc(p, size) ==
  /\ pc = "client"
  /\ p \in Free
  /\ header' = With(header, p, size)
  /\ memory_allocated' = memory_allocated + size
  /\ \E n \in Free \ {p} :
       /\ nodes' = With(nodes, n, NewNode(p))
       /\ IF head = NULL
            THEN head' = n /\ UNCHANGED <<pc, walk>>
            ELSE /\ pc' = "put" /\ key' = p /\ new' = n /\ at' = head
                 /\ UNCHANGED <<head, prev>>

map_put ==
  /\ pc = "put"
  /\ IF nodes[at].next = NULL
       THEN nodes' = [nodes EXCEPT ![at].next = new] /\ pc' = "client" /\ NoWalk
       ELSE at' = nodes[at].next /\ UNCHANGED <<nodes, pc, key, new, prev>>
  /\ UNCHANGED <<header, head, memory_allocated, ctx>>

JContext_new == ctx = NULL /\ \E p \in Addr : _alloc(p, JContext) /\ ctx' = p

JContext_alloc ==
  /\ ctx # NULL
  /\ \E p \in Addr, size \in Sizes : _alloc(p, size)
  /\ UNCHANGED ctx

-----------------------------------------------------------------------------
(* Deallocation: the block is wiped, with the size read from it, and only  *)
(* then looked up in the registry and given back.                          *)

\* Mutant: the assertion is left out.
ReturnedUnchecked(p) == pc' = IF p # ctx THEN "client" ELSE "closed"

\* JContext_destroy asserts that its own object was the last with a size.
Returned(p) == pc' = IF p # ctx THEN "client"
                     ELSE IF memory_allocated' = 0 THEN "closed" ELSE "leak"

\* map_remove finds the object in the head, or starts the search.
Search(p) ==
  IF head # NULL /\ nodes[head].key = p
    THEN /\ head' = nodes[head].next /\ nodes' = Without(nodes, head)
         /\ header' = Without(header, p)
         /\ Returned(p) /\ UNCHANGED walk
    ELSE /\ pc' = "remove" /\ key' = p /\ at' = head /\ prev' = NULL
         /\ header' = IF p \in DOMAIN header THEN [header EXCEPT ![p] = 0] ELSE header
         /\ UNCHANGED <<head, nodes, new>>

\* Mutant: the size is read after the block has been wiped.
_dealloc_wiped(p) ==
  /\ pc = "client" /\ p \in DOMAIN header
  /\ UNCHANGED memory_allocated
  /\ Search(p)

_dealloc(p) ==
  /\ pc = "client" /\ p \in DOMAIN header
  /\ memory_allocated' = memory_allocated - header[p]
  /\ Search(p)

JContext_free == ctx # NULL /\ UNCHANGED ctx /\ \E p \in DOMAIN header \ {ctx} : _dealloc(p)

JContext_destroy == ctx # NULL /\ UNCHANGED ctx /\ _dealloc(ctx)

\* A pointer that is not allocated: the size in front of it is whatever the
\* block holds, and wiping it may hit the neighbours or malloc itself.  A block
\* that is now a node is torn in any case.
_dealloc_again(p) ==
  /\ pc = "client" /\ ctx # NULL /\ p \in Addr \ DOMAIN header
  /\ UNCHANGED ctx
  /\ \/ /\ p \notin DOMAIN nodes
        /\ \E size \in Sizes : memory_allocated' = memory_allocated - size
        /\ Search(p)
     \/ /\ pc' = "torn" /\ UNCHANGED <<heap, walk>>

Unlink == [nodes EXCEPT ![prev].next = nodes[at].next]

\* Mutant: the node is freed without being unlinked.
FreeLinked ==
  /\ nodes' = Without(nodes, at)
  /\ header' = Without(header, key)
  /\ Returned(key)
  /\ NoWalk

RemoveFound ==
  /\ nodes' = Without(Unlink, at)
  /\ header' = Without(header, key)
  /\ Returned(key)
  /\ NoWalk

\* Mutants: the walk stays where it is, or skips a node.
RemoveStay == prev' = at /\ UNCHANGED <<at, header, nodes, pc, key, new>>

RemoveSkip ==
  /\ prev' = at
  /\ at' = IF nodes[at].next = NULL THEN NULL ELSE nodes[nodes[at].next].next
  /\ UNCHANGED <<header, nodes, pc, key, new>>

RemoveNext ==
  /\ prev' = at /\ at' = nodes[at].next
  /\ UNCHANGED <<header, nodes, pc, key, new>>

\* ASSERT(ok, "_dealloc called twice?")
RemoveFailed == pc' = "twice" /\ UNCHANGED <<header, nodes, walk>>

map_remove ==
  /\ pc = "remove"
  /\ IF at = NULL THEN RemoveFailed
     ELSE IF nodes[at].key = key THEN RemoveFound ELSE RemoveNext
  /\ UNCHANGED <<head, memory_allocated, ctx>>

-----------------------------------------------------------------------------
(* JRuntime_destroy: map_clear, whose head pointer goes stale on the way.  *)

JRuntime_destroy ==
  /\ pc \in {"client", "closed"}
  /\ pc' = "clear" /\ at' = head
  /\ UNCHANGED <<heap, ctx, key, new, prev>>

\* Mutant: the loop ends at the last node.
ClearButLast ==
  IF at = NULL \/ nodes[at].next = NULL
    THEN pc' = "destroyed" /\ head' = NULL /\ UNCHANGED <<nodes, at>>
    ELSE nodes' = Without(nodes, at) /\ at' = nodes[at].next /\ UNCHANGED <<pc, head>>

ClearNode ==
  IF at = NULL
    THEN pc' = "destroyed" /\ head' = NULL /\ UNCHANGED <<nodes, at>>
    ELSE nodes' = Without(nodes, at) /\ at' = nodes[at].next /\ UNCHANGED <<pc, head>>

map_clear ==
  /\ pc = "clear"
  /\ ClearNode
  /\ UNCHANGED <<header, memory_allocated, ctx, key, new, prev>>

-----------------------------------------------------------------------------

Walk == map_put \/ map_remove \/ map_clear

Next ==
  \/ JContext_new \/ JContext_alloc \/ JContext_free \/ JContext_destroy
  \/ \E p \in Addr : _dealloc_again(p)
  \/ JRuntime_destroy
  \/ Walk

\* A walk is a loop of one thread: it goes on until it ends.
Spec == Init /\ [][Next]_vars /\ WF_vars(Walk)

-----------------------------------------------------------------------------
(* Properties.                                                             *)

TypeOK ==
  /\ header \in [DOMAIN header -> Nat] /\ DOMAIN header \subseteq Addr
  /\ nodes \in [DOMAIN nodes -> [key : Addr, next : Addr \cup {NULL}]]
  /\ DOMAIN nodes \subseteq Addr
  /\ memory_allocated \in Int
  /\ {head, ctx, key, new, at, prev} \subseteq Addr \cup {NULL}
  /\ pc \in {"client", "closed", "destroyed", "put", "remove", "clear",
             "twice", "leak", "torn"}

\* The nodes of c, in this order, are what a walk from the first node meets.
Chain(c, first) ==
  /\ \A i, j \in DOMAIN c : c[i] = c[j] => i = j
  /\ first = IF 1 \in DOMAIN c THEN c[1] ELSE NULL
  /\ \A i \in DOMAIN c :
       nodes[c[i]].next = IF i + 1 \in DOMAIN c THEN c[i + 1] ELSE NULL

\* Each object, but the one being added, has one node in c.
Registers(c) ==
  /\ \A i, j \in DOMAIN c : nodes[c[i]].key = nodes[c[j]].key => i = j
  /\ {nodes[c[i]].key : i \in DOMAIN c}
       = DOMAIN header \ (IF pc = "put" THEN {key} ELSE {})

\* The registry is one chain through all nodes, whose keys are the allocated
\* objects, each once: nothing is forgotten, nothing is listed twice, and no
\* freed node can be reached, although its address may already be an object
\* (map.c:42-106).
RegistryExact ==
  pc \in {"client", "put", "remove", "closed"} =>
    \E c \in [1..Cardinality(DOMAIN nodes \ {new}) -> DOMAIN nodes \ {new}] :
       Chain(c, head) /\ Registers(c)

\* The number that is reported and asserted on is the sum of the sizes, except
\* while a pointer that is not allocated is looked up (jruntime.c:25, 41: the
\* size comes from the block that is about to be wiped).
MemoryAccounted ==
  \/ pc \in {"remove", "twice"} /\ key \notin DOMAIN header
  \/ memory_allocated = MapThenSumSet(LAMBDA p : header[p], DOMAIN header)

\* "_dealloc called twice?" is said of no object that is allocated: the search
\* reaches every one of them (jruntime.c:44).
TwiceDeserved == pc = "twice" => key \notin DOMAIN header

\* The assertion of JContext_destroy tells whether anything with a size is
\* left: it passes with objects of size zero, such as the buffer of an empty
\* file, and with no other (jcontext.c:22).
LeakExact ==
  /\ pc = "closed" => \A p \in DOMAIN header : header[p] = 0
  /\ pc = "leak" => \E p \in DOMAIN header : header[p] > 0

\* JRuntime_destroy frees every node, also those of objects that were not freed.
NodesReturned == pc = "destroyed" => DOMAIN nodes = {}

\* Every walk ends: the list never has a cycle (map.c:57, 90, 122).
WalksEnd == pc \in {"put", "remove", "clear"} ~> pc \notin {"put", "remove", "clear"}

=============================================================================
