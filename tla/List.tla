-------------------------------- MODULE List --------------------------------
(***************************************************************************)
(* The growable list of jacv (src/list.c, src/include/list.h): an array of *)
(* pointers in the heap, replaced by one of twice the capacity when it is  *)
(* full.  Removed items leave stale pointers behind the last item.  A list *)
(* has one user, so that an operation is one step; the heap is what the    *)
(* list itself allocates.                                                  *)
(***************************************************************************)
EXTENDS Integers, Sequences

CONSTANTS
  Item,             \* the pointers that are stored
  NULL,
  Pointers,         \* where the allocator may put an array
  InitialCapacity,  \* 10 in LIST_CREATE_EMPTY
  MaxSize           \* bound: no push at this size

ASSUME ListAssumption ==
  /\ NULL \notin Item \cup Pointers
  /\ InitialCapacity \in Nat \ {0}
  /\ MaxSize \in Nat

VARIABLES
  size, capacity, items,  \* the fields of ListT
  arrays,                 \* the allocated arrays of pointers
  ret                     \* what the last operation returned

vars == <<size, capacity, items, arrays, ret>>

Slots(n) == 0..n - 1

\* LIST_NEW_WITH_SIZE; the allocator clears what it hands out.
Init ==
  /\ size = 0 /\ capacity = InitialCapacity
  /\ items \in Pointers
  /\ arrays = [a \in {items} |-> [j \in Slots(InitialCapacity) |-> NULL]]
  /\ ret = 0

Open == items # NULL
At(j) == arrays[items][j]

\* The items and the new one in an array of twice the capacity.
Copied(x) == [j \in Slots(2 * capacity) |->
                IF j < size THEN At(j) ELSE IF j = size THEN x ELSE NULL]

\* Mutant: the old array is kept.
GrowAndKeep(x) ==
  \E new \in Pointers \ DOMAIN arrays :
    /\ items' = new
    /\ arrays' = [a \in DOMAIN arrays \cup {new} |->
                    IF a = new THEN Copied(x) ELSE arrays[a]]

Grow(x) ==
  \E new \in Pointers \ DOMAIN arrays :
    /\ items' = new
    /\ arrays' = [a \in (DOMAIN arrays \ {items}) \cup {new} |->
                    IF a = new THEN Copied(x) ELSE arrays[a]]

list_push(x) ==
  /\ size < MaxSize
  /\ \/ /\ size = capacity
        /\ Grow(x)
        /\ capacity' = 2 * capacity
     \/ /\ size # capacity
        /\ arrays' = [arrays EXCEPT ![items][size] = x]
        /\ UNCHANGED <<items, capacity>>
  /\ size' = size + 1
  /\ ret' = size + 1

\* The items after index move up by one; the last slot keeps its pointer,
\* unless it is the one removed.
Shift(index) ==
  /\ arrays' = [arrays EXCEPT ![items] =
       [j \in DOMAIN @ |-> IF j \in index..size - 2 THEN @[j + 1]
                           ELSE IF j = index THEN NULL ELSE @[j]]]
  /\ size' = size - 1
  /\ ret' = 1

Refuse == ret' = 0 /\ UNCHANGED <<size, arrays>>

\* Mutant: the item at index size, the first stale one, is removed too.
RemoveBeyond(index) ==
  /\ UNCHANGED <<capacity, items>>
  /\ IF index < 0 \/ index > size THEN Refuse ELSE Shift(index)

list_remove(index) ==
  /\ UNCHANGED <<capacity, items>>
  /\ IF index < 0 \/ index >= size THEN Refuse ELSE Shift(index)

\* The least index of x, -1 if there is none.
IndexOf(x) ==
  IF \E j \in Slots(size) : At(j) = x
    THEN CHOOSE j \in Slots(size) : At(j) = x /\ \A k \in Slots(j) : At(k) # x
    ELSE -1

list_index_of(x) == ret' = IndexOf(x) /\ UNCHANGED <<size, capacity, items, arrays>>

list_removeItem(x) ==
  /\ UNCHANGED <<capacity, items>>
  /\ IF IndexOf(x) = -1 THEN Refuse ELSE Shift(IndexOf(x))

list_free ==
  /\ arrays' = [a \in DOMAIN arrays \ {items} |-> arrays[a]]
  /\ items' = NULL /\ size' = 0 /\ capacity' = 0
  /\ UNCHANGED ret

Next ==
  /\ Open
  /\ \/ \E x \in Item : list_push(x) \/ list_index_of(x) \/ list_removeItem(x)
     \/ \E index \in -1..MaxSize : list_remove(index)
     \/ list_free

Spec == Init /\ [][Next]_vars

-----------------------------------------------------------------------------
(* Properties.                                                             *)

\* The list owns exactly one array, of exactly the capacity it believes in,
\* and the items fit: no push, no removal and no growth writes or reads
\* beyond an array or forgets one (list.c:8, the array is replaced while its
\* items are copied).
ArrayFits ==
  IF ~Open THEN DOMAIN arrays = {}
  ELSE /\ DOMAIN arrays = {items}
       /\ arrays[items] \in [Slots(capacity) -> Item \cup {NULL}]
       /\ size \in 0..capacity /\ capacity \in Nat \ {0}
       /\ \A j \in Slots(size) : At(j) \in Item

Listed == [j \in 1..size |-> At(j - 1)]

Promise == INSTANCE Sequence WITH seq <- Listed, open <- Open

\* To its users the list is a sequence: growth keeps the items and their
\* order, removal takes exactly one out, and what is left behind the last
\* item is never found again (list.c:20-28).
IsSequence == Promise!Spec

=============================================================================
