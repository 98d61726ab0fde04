----------------------------- MODULE List_proofs -----------------------------
(***************************************************************************)
(* Proofs about the list of module List, for every set of items, every     *)
(* place of the arrays and every initial capacity: the array is always the *)
(* right one, and the list implements a sequence.                          *)
(***************************************************************************)
EXTENDS List, TLAPS, WellFoundedInduction, SequenceTheorems

\* ArrayFits with the type of the returned value and of the fields of a list
\* that was freed.
IInv == ArrayFits /\ ret \in Int /\ size \in Nat /\ capacity \in Nat

\* Not empty sets of naturals below n have a least element.
LEMMA LeastBelow ==
  ASSUME NEW n \in Nat, NEW S \in SUBSET Slots(n), S # {}
  PROVE  \E x \in S : \A y \in Slots(x) : y \notin S
<1> DEFINE R == OpToRel(<, Nat)
<1>1. S \in SUBSET Nat
  BY SMT DEF Slots
<1>2. IsWellFoundedOn(R, Nat)
  BY NatLessThanWellFounded
<1>3. \E x \in S : \A y \in S : ~(<<y, x>> \in R)
  BY <1>1, <1>2, WFMin, Zenon
<1>4. PICK x \in S : \A y \in S : ~(<<y, x>> \in R)
  BY <1>3
<1>5. \A y \in S : ~(y < x)
  BY <1>1, <1>4 DEF OpToRel
<1> QED
  BY <1>1, <1>5, SMT DEF Slots

\* list_index_of finds the first of the places of an item.
LEMMA IndexOfFound ==
  ASSUME size \in Nat, NEW x, \E j \in Slots(size) : At(j) = x
  PROVE  /\ IndexOf(x) \in Slots(size) /\ At(IndexOf(x)) = x
         /\ \A k \in Slots(IndexOf(x)) : At(k) # x
<1> DEFINE S == {j \in Slots(size) : At(j) = x}
<1>1. PICK j \in S : \A k \in Slots(j) : k \notin S
  BY LeastBelow
<1>2. \A k \in Slots(j) : k \in Slots(size)
  BY <1>1 DEF Slots
<1>3. \E i \in Slots(size) : At(i) = x /\ \A k \in Slots(i) : At(k) # x
  BY <1>1, <1>2
<1> QED
  BY <1>3 DEF IndexOf

\* Removal leaves one item less, and the others in their order.
LEMMA ShiftFits ==
  ASSUME IInv, Open, NEW index \in Slots(size), Shift(index),
         UNCHANGED <<capacity, items>>
  PROVE  /\ IInv' /\ Open'
         /\ \A j \in Slots(size - 1) :
              At(j)' = IF j < index THEN At(j) ELSE At(j + 1)
<1>1. /\ DOMAIN arrays = {items} /\ arrays[items] \in [Slots(capacity) -> Item \cup {NULL}]
      /\ size \in 0..capacity /\ capacity \in Nat \ {0}
      /\ \A j \in Slots(size) : At(j) \in Item
  BY DEF IInv, ArrayFits
<1>2. /\ DOMAIN arrays' = {items} /\ items' = items /\ capacity' = capacity
      /\ size' = size - 1 /\ ret' = 1
      /\ arrays'[items] = [j \in Slots(capacity) |->
                            IF j \in index..size - 2 THEN At(j + 1)
                            ELSE IF j = index THEN NULL ELSE At(j)]
  BY <1>1 DEF Shift, At
<1>3. \A j \in Slots(capacity) : j \in index..size - 2 => j + 1 \in Slots(capacity)
  BY <1>1 DEF Slots
<1>4. arrays'[items] \in [Slots(capacity) -> Item \cup {NULL}]
  BY <1>1, <1>2, <1>3 DEF At
<1>5. \A j \in Slots(size - 1) :
        /\ j \in Slots(capacity) /\ j \in Slots(size) /\ j + 1 \in Slots(size)
        /\ j \in index..size - 2 <=> ~(j < index)
        /\ j = index => j \in index..size - 2
  BY <1>1 DEF Slots
<1>6. \A j \in Slots(size - 1) : At(j)' = IF j < index THEN At(j) ELSE At(j + 1)
  BY <1>2, <1>5 DEF At
<1>7. \A j \in Slots(size') : At(j)' \in Item
  BY <1>1, <1>2, <1>5, <1>6
<1>8. size - 1 \in 0..capacity
  BY <1>1 DEF Slots
<1> QED
  BY <1>1, <1>2, <1>4, <1>6, <1>7, <1>8 DEF IInv, ArrayFits, Open

\* A push keeps the items and adds one, with and without growth.
LEMMA PushFits ==
  ASSUME IInv, Open, NEW x \in Item, list_push(x)
  PROVE  /\ IInv' /\ Open'
         /\ \A j \in Slots(size) : At(j)' = At(j)
         /\ arrays'[items'][size] = x
<1>1. /\ DOMAIN arrays = {items} /\ arrays[items] \in [Slots(capacity) -> Item \cup {NULL}]
      /\ size \in 0..capacity /\ capacity \in Nat \ {0}
      /\ \A j \in Slots(size) : At(j) \in Item
      /\ size' = size + 1 /\ ret' = size + 1
  BY DEF IInv, ArrayFits, list_push
<1>2. CASE size = capacity
  <2>1. PICK new \in Pointers \ DOMAIN arrays :
          /\ items' = new /\ capacity' = 2 * capacity
          /\ arrays' = [a \in (DOMAIN arrays \ {items}) \cup {new} |->
                          IF a = new THEN Copied(x) ELSE arrays[a]]
    BY <1>2 DEF list_push, Grow
  <2>2. DOMAIN arrays' = {new} /\ arrays'[new] = Copied(x) /\ arrays'[items'] = Copied(x)
    BY <1>1, <2>1
  <2>3. /\ \A j \in Slots(2 * capacity) :
             j < size => j \in Slots(size)
        /\ \A j \in Slots(size) : j \in Slots(2 * capacity) /\ j < size
        /\ size \in Slots(2 * capacity) /\ ~(size < size)
        /\ \A j \in Slots(size + 1) : j \in Slots(size) \/ j = size
        /\ size + 1 \in 0..2 * capacity
    BY <1>1, <1>2 DEF Slots
  <2>4. Copied(x) \in [Slots(2 * capacity) -> Item \cup {NULL}]
    BY <1>1, <2>3 DEF Copied
  <2>5. /\ \A j \in Slots(size) : Copied(x)[j] = At(j)
        /\ Copied(x)[size] = x
    BY <2>3 DEF Copied
  <2>6. (\A j \in Slots(size) : arrays'[items'][j] = At(j)) /\ arrays'[items'][size] = x
    BY <2>2, <2>5
  <2>7. \A j \in Slots(size') : At(j)' \in Item
    BY <1>1, <2>3, <2>6 DEF At
  <2>8. new # NULL /\ 2 * capacity \in Nat \ {0}
    BY <1>1, ListAssumption
  <2> QED
    BY <1>1, <2>1, <2>2, <2>3, <2>4, <2>6, <2>7, <2>8 DEF IInv, ArrayFits, Open, At
<1>3. CASE size # capacity
  <2>1. /\ items' = items /\ capacity' = capacity /\ DOMAIN arrays' = {items}
        /\ arrays'[items] = [arrays[items] EXCEPT ![size] = x]
    BY <1>1, <1>3 DEF list_push
  <2>2. /\ size \in Slots(capacity) /\ \A j \in Slots(size) : j \in Slots(capacity) /\ j # size
        /\ \A j \in Slots(size + 1) : j \in Slots(size) \/ j = size
        /\ size + 1 \in 0..capacity
    BY <1>1, <1>3 DEF Slots
  <2>3. arrays'[items] \in [Slots(capacity) -> Item \cup {NULL}]
    BY <1>1, <2>1
  <2>4. (\A j \in Slots(size) : At(j)' = At(j)) /\ arrays'[items'][size] = x
    BY <1>1, <2>1, <2>2 DEF At
  <2>5. \A j \in Slots(size') : At(j)' \in Item
    BY <1>1, <2>2, <2>4 DEF At
  <2> QED
    BY <1>1, <2>1, <2>2, <2>3, <2>4, <2>5 DEF IInv, ArrayFits, Open
<1> QED
  BY <1>2, <1>3

\* A list that was freed owns nothing.
LEMMA FreeFits ==
  ASSUME IInv, Open, list_free
  PROVE  IInv' /\ ~Open'
<1>1. DOMAIN arrays = {items}
  BY DEF IInv, ArrayFits
<1>2. /\ DOMAIN arrays' = {} /\ items' = NULL /\ size' = 0 /\ capacity' = 0
      /\ ret' = ret
  BY <1>1 DEF list_free
<1> QED
  BY <1>2 DEF IInv, ArrayFits, Open

\* What an operation on an open list does, said once for the proofs below: it
\* adds an item, takes one out, frees the list, or changes nothing but ret.
LEMMA StepCases ==
  ASSUME IInv, Next
  PROVE  /\ Open
         /\ \/ \E x \in Item : list_push(x)
            \/ \E x \in Item : list_index_of(x)
            \/ \E x \in Item : list_removeItem(x)
            \/ \E index \in Int : list_remove(index)
            \/ list_free
<1>1. -1..MaxSize \subseteq Int
  BY ListAssumption
<1> QED
  BY <1>1 DEF Next

LEMMA InitIInv == Init => IInv
<1> SUFFICES ASSUME Init PROVE IInv
  OBVIOUS
<1>1. DOMAIN arrays = {items} /\ arrays[items] = [j \in Slots(InitialCapacity) |-> NULL]
  BY DEF Init
<1>2. items # NULL /\ size = 0 /\ ret = 0 /\ capacity = InitialCapacity
  BY ListAssumption DEF Init
<1>3. Slots(size) = {}
  BY <1>2 DEF Slots
<1> QED
  BY <1>1, <1>2, <1>3, ListAssumption DEF IInv, ArrayFits, Open

LEMMA NextIInv == IInv /\ [Next]_vars => IInv'
<1> SUFFICES ASSUME IInv, [Next]_vars PROVE IInv'
  OBVIOUS
<1>1. CASE UNCHANGED vars
  BY <1>1 DEF vars, IInv, ArrayFits, Open, At
<1>2. CASE Next
  <2>1. Open
    BY <1>2, StepCases
  <2>2. ASSUME NEW x \in Item, list_push(x) PROVE IInv'
    BY <2>1, <2>2, PushFits
  <2>3. ASSUME Refuse, UNCHANGED <<capacity, items>> PROVE IInv'
    BY <2>3 DEF Refuse, IInv, ArrayFits, Open, At
  <2>4. ASSUME NEW x \in Item, list_index_of(x) PROVE IInv'
    <3>1. IndexOf(x) \in Int
      <4>1. CASE \E j \in Slots(size) : At(j) = x
        BY <4>1, IndexOfFound DEF IInv, Slots
      <4>2. CASE ~\E j \in Slots(size) : At(j) = x
        BY <4>2 DEF IndexOf
      <4> QED
        BY <4>1, <4>2
    <3> QED
      BY <2>4, <3>1 DEF list_index_of, IInv, ArrayFits, Open, At
  <2>5. ASSUME NEW x \in Item, list_removeItem(x) PROVE IInv'
    <3>1. CASE \E j \in Slots(size) : At(j) = x
      <4>1. IndexOf(x) \in Slots(size)
        BY <3>1, IndexOfFound DEF IInv
      <4>2. Shift(IndexOf(x))
        BY <2>5, <4>1 DEF list_removeItem, Slots
      <4> QED
        BY <2>1, <2>5, <4>1, <4>2, ShiftFits DEF list_removeItem
    <3>2. CASE ~\E j \in Slots(size) : At(j) = x
      BY <2>3, <2>5, <3>2 DEF list_removeItem, IndexOf
    <3> QED
      BY <3>1, <3>2
  <2>6. ASSUME NEW index \in Int, list_remove(index) PROVE IInv'
    <3>1. CASE index \in Slots(size)
      <4>1. Shift(index)
        BY <2>6, <3>1 DEF list_remove, Slots, IInv
      <4> QED
        BY <2>1, <2>6, <3>1, <4>1, ShiftFits DEF list_remove
    <3>2. CASE index \notin Slots(size)
      <4>1. index < 0 \/ index >= size
        BY <3>2 DEF Slots, IInv
      <4> QED
        BY <2>3, <2>6, <4>1 DEF list_remove
    <3> QED
      BY <3>1, <3>2
  <2>7. ASSUME list_free PROVE IInv'
    BY <2>1, <2>7, FreeFits
  <2> QED
    BY <1>2, StepCases, <2>2, <2>4, <2>5, <2>6, <2>7
<1> QED
  BY <1>1, <1>2

\* Whatever its users do, a list owns exactly one array, as large as it
\* believes, and its items lie in it (list.c:4-51).
THEOREM ListFits == Spec => []ArrayFits
<1>1. IInv => ArrayFits
  BY DEF IInv
<1> QED
  BY InitIInv, NextIInv, <1>1, PTL DEF Spec

-----------------------------------------------------------------------------
(* The list implements a sequence.                                         *)

LEMMA ListedIsSeq ==
  ASSUME IInv, Open
  PROVE  /\ Listed \in Seq(Item) /\ Len(Listed) = size
         /\ \A j \in 1..size : Listed[j] = At(j - 1) /\ j - 1 \in Slots(size)
         /\ \A j \in Slots(size) : Listed[j + 1] = At(j) /\ j + 1 \in 1..size
<1>1. size \in Nat /\ \A j \in Slots(size) : At(j) \in Item
  BY DEF IInv, ArrayFits
<1>2. \A j \in 1..size : j - 1 \in Slots(size)
  BY <1>1 DEF Slots
<1>3. \A j \in Slots(size) : j + 1 \in 1..size /\ (j + 1) - 1 = j
  BY <1>1 DEF Slots
<1>4. Listed \in Seq(Item) /\ Len(Listed) = size
  BY <1>1, <1>2 DEF Listed
<1> QED
  BY <1>2, <1>3, <1>4 DEF Listed

\* The index of list_index_of and the place of the abstract sequence agree.
LEMMA SameIndex ==
  ASSUME IInv, Open, NEW x \in Item
  PROVE  /\ Promise!Has(x) <=> \E j \in Slots(size) : At(j) = x
         /\ Promise!Has(x) => Promise!First(x) = IndexOf(x) + 1
<1>1. /\ Len(Listed) = size
      /\ \A j \in 1..size : Listed[j] = At(j - 1) /\ j - 1 \in Slots(size)
      /\ \A j \in Slots(size) : Listed[j + 1] = At(j) /\ j + 1 \in 1..size
  BY ListedIsSeq
<1>2. Promise!Has(x) <=> \E j \in Slots(size) : At(j) = x
  BY <1>1 DEF Promise!Has
<1>3. ASSUME Promise!Has(x) PROVE Promise!First(x) = IndexOf(x) + 1
  <2> DEFINE i == IndexOf(x)
             IsFirst(j) == Listed[j] = x /\ \A k \in 1..j - 1 : Listed[k] # x
  <2>1. size \in Nat
    BY DEF IInv
  <2>2. i \in Slots(size) /\ At(i) = x /\ \A k \in Slots(i) : At(k) # x
    BY <1>2, <1>3, <2>1, IndexOfFound
  <2>3. i + 1 \in 1..size /\ Listed[i + 1] = x
    BY <1>1, <2>2
  <2>4. \A k \in 1..(i + 1) - 1 : k \in 1..size /\ k - 1 \in Slots(i)
    BY <2>1, <2>2 DEF Slots
  <2>5. IsFirst(i + 1)
    BY <1>1, <2>2, <2>3, <2>4
  <2>6. \A j \in 1..size : IsFirst(j) => j = i + 1
    <3>1. ASSUME NEW j \in 1..size, IsFirst(j), j # i + 1 PROVE FALSE
      <4>1. CASE j < i + 1
        <5>1. j \in 1..(i + 1) - 1
          BY <2>1, <2>2, <4>1 DEF Slots
        <5> QED
          BY <2>5, <3>1, <5>1
      <4>2. CASE i + 1 < j
        <5>1. i + 1 \in 1..j - 1
          BY <2>1, <2>2, <4>2 DEF Slots
        <5> QED
          BY <2>3, <3>1, <5>1
      <4> QED
        BY <2>1, <2>2, <3>1, <4>1, <4>2 DEF Slots
    <3> QED
      BY <3>1
  <2>7. Promise!First(x) = CHOOSE j \in 1..size : IsFirst(j)
    BY <1>1 DEF Promise!First
  <2>8. (CHOOSE j \in 1..size : IsFirst(j)) \in 1..size /\ IsFirst(CHOOSE j \in 1..size : IsFirst(j))
    BY <2>3, <2>5
  <2> QED
    BY <2>6, <2>7, <2>8
<1> QED
  BY <1>2, <1>3

\* Taking the item at an index out of the array takes it out of the sequence.
LEMMA ShiftIsWithout ==
  ASSUME IInv, Open, NEW index \in Slots(size), Shift(index),
         UNCHANGED <<capacity, items>>
  PROVE  Open' /\ Listed' = Promise!Without(Listed, index + 1) /\ ret' = 1
<1>1. /\ Open' /\ size \in Nat /\ size' = size - 1 /\ ret' = 1
      /\ \A j \in Slots(size - 1) : At(j)' = IF j < index THEN At(j) ELSE At(j + 1)
  BY ShiftFits DEF IInv, Shift
<1>2. /\ Len(Listed) = size
      /\ \A j \in 1..size : Listed[j] = At(j - 1)
  BY ListedIsSeq
<1>3. \A j \in 1..size - 1 :
        /\ j - 1 \in Slots(size - 1) /\ j \in 1..size /\ j + 1 \in 1..size
        /\ (j + 1) - 1 = (j - 1) + 1
        /\ j - 1 < index <=> j < index + 1
  BY <1>1 DEF Slots
<1>4. \A j \in 1..size - 1 :
        At(j - 1)' = IF j < index + 1 THEN Listed[j] ELSE Listed[j + 1]
  BY <1>1, <1>2, <1>3 DEF At
<1>5. Listed' = [j \in 1..size - 1 |-> At(j - 1)']
  BY <1>1 DEF Listed
<1> QED
  BY <1>1, <1>2, <1>4, <1>5 DEF Promise!Without

LEMMA PushIsAppend ==
  ASSUME IInv, Open, NEW x \in Item, list_push(x)
  PROVE  Open' /\ Promise!Push(x)
<1>1. /\ Open' /\ size' = size + 1 /\ ret' = size + 1 /\ size \in Nat
      /\ \A j \in Slots(size) : At(j)' = At(j)
      /\ arrays'[items'][size] = x
  BY PushFits DEF list_push, IInv
<1>2. /\ Listed \in Seq(Item) /\ Len(Listed) = size
      /\ \A j \in 1..size : Listed[j] = At(j - 1) /\ j - 1 \in Slots(size)
  BY ListedIsSeq
<1>3. IInv' /\ Open'
  BY PushFits
<1>4. /\ Listed' \in Seq(Item) /\ Len(Listed') = size + 1
      /\ \A j \in 1..size + 1 : Listed'[j] = arrays'[items'][j - 1]
  <2>1. \A j \in Slots(size') : arrays'[items'][j] \in Item
    BY <1>3 DEF IInv, ArrayFits, At, Open
  <2>2. \A j \in 1..size' : arrays'[items'][j - 1] \in Item
    <3>1. \A j \in 1..size' : j - 1 \in Slots(size')
      BY <1>1 DEF Slots
    <3> QED
      BY <2>1, <3>1
  <2>3. Listed' = [j \in 1..size' |-> arrays'[items'][j - 1]]
    BY DEF Listed, At
  <2>4. Listed' \in [1..size' -> Item]
    BY <2>2, <2>3
  <2>5. Listed' \in Seq(Item) /\ Len(Listed') = size'
    BY <1>1, <2>4
  <2> QED
    BY <1>1, <2>3, <2>5
<1>5. /\ Append(Listed, x) \in Seq(Item) /\ Len(Append(Listed, x)) = size + 1
      /\ \A j \in 1..size : Append(Listed, x)[j] = Listed[j]
      /\ Append(Listed, x)[size + 1] = x
  BY <1>2, AppendProperties
<1>6. \A j \in 1..size : Listed'[j] = Append(Listed, x)[j]
  BY <1>1, <1>2, <1>4, <1>5 DEF At
<1>7. Listed'[size + 1] = x
  BY <1>1, <1>4
<1>8. \A j \in 1..size + 1 : j \in 1..size \/ j = size + 1
  BY <1>1
<1>9. Listed' = Append(Listed, x)
  BY <1>4, <1>5, <1>6, <1>7, <1>8, SeqEqual
<1> QED
  BY <1>1, <1>2, <1>9 DEF Promise!Push

LEMMA InitIsSequence == Init => Promise!Init
<1> SUFFICES ASSUME Init PROVE Promise!Init
  OBVIOUS
<1>1. Listed = <<>>
  BY DEF Init, Listed
<1>2. Open /\ ret = 0
  BY ListAssumption DEF Init, Open
<1> QED
  BY <1>1, <1>2 DEF Promise!Init

LEMMA NextIsSequence == IInv /\ [Next]_vars => [Promise!Next]_(Promise!vars)
<1> SUFFICES ASSUME IInv, [Next]_vars PROVE [Promise!Next]_(Promise!vars)
  OBVIOUS
<1>1. CASE UNCHANGED vars
  BY <1>1 DEF vars, Promise!vars, Listed, Open, At
<1>2. CASE Next
  <2>1. Open /\ Len(Listed) = size /\ size \in Nat
    BY <1>2, StepCases, ListedIsSeq DEF IInv
  <2>2. ASSUME NEW x \in Item, list_push(x) PROVE Promise!Next
    BY <2>1, <2>2, PushIsAppend DEF Promise!Next
  <2>3. ASSUME UNCHANGED <<size, arrays, items>> PROVE Listed' = Listed /\ Open' = Open
    BY <2>3 DEF Listed, Open, At
  <2>4. ASSUME NEW x \in Item, list_index_of(x) PROVE Promise!Next
    <3>1. ret' = IF Promise!Has(x) THEN Promise!First(x) - 1 ELSE -1
      <4>1. CASE \E j \in Slots(size) : At(j) = x
        <5>1. Promise!Has(x) /\ Promise!First(x) = IndexOf(x) + 1
          BY <2>1, <4>1, SameIndex
        <5>2. IndexOf(x) \in Int
          BY <4>1, IndexOfFound DEF IInv, Slots
        <5> QED
          BY <2>4, <5>1, <5>2 DEF list_index_of
      <4>2. CASE ~\E j \in Slots(size) : At(j) = x
        BY <2>1, <2>4, <4>2, SameIndex DEF list_index_of, IndexOf
      <4> QED
        BY <4>1, <4>2
    <3>2. Promise!IndexOf(x)
      BY <2>3, <2>4, <3>1 DEF list_index_of, Promise!IndexOf
    <3> QED
      BY <2>1, <2>3, <2>4, <3>2 DEF list_index_of, Promise!Next
  <2>5. ASSUME NEW x \in Item, list_removeItem(x) PROVE Promise!Next
    <3>1. CASE \E j \in Slots(size) : At(j) = x
      <4>1. IndexOf(x) \in Slots(size)
        BY <3>1, IndexOfFound DEF IInv
      <4>2. Shift(IndexOf(x)) /\ UNCHANGED <<capacity, items>>
        BY <2>5, <4>1 DEF list_removeItem, Slots
      <4>3. Open' /\ Listed' = Promise!Without(Listed, IndexOf(x) + 1) /\ ret' = 1
        BY <2>1, <4>1, <4>2, ShiftIsWithout
      <4>4. Promise!RemoveItem(x)
        BY <2>1, <3>1, <4>3, SameIndex DEF Promise!RemoveItem
      <4> QED
        BY <2>1, <4>3, <4>4 DEF Promise!Next
    <3>2. CASE ~\E j \in Slots(size) : At(j) = x
      <4>1. ret' = 0 /\ Listed' = Listed /\ Open' = Open
        BY <2>3, <2>5, <3>2 DEF list_removeItem, IndexOf, Refuse
      <4>2. Promise!RemoveItem(x)
        BY <2>1, <3>2, <4>1, SameIndex DEF Promise!RemoveItem
      <4> QED
        BY <2>1, <4>1, <4>2 DEF Promise!Next
    <3> QED
      BY <3>1, <3>2
  <2>6. ASSUME NEW index \in Int, list_remove(index) PROVE Promise!Next
    <3>1. CASE index \in Slots(size)
      <4>1. Shift(index) /\ UNCHANGED <<capacity, items>>
        BY <2>1, <2>6, <3>1 DEF list_remove, Slots
      <4>2. Open' /\ Listed' = Promise!Without(Listed, index + 1) /\ ret' = 1
        BY <2>1, <3>1, <4>1, ShiftIsWithout
      <4>3. index + 1 \in 1..Len(Listed) /\ index \in -1..Len(Listed)
        BY <2>1, <3>1 DEF Slots
      <4>4. Promise!Remove(index)
        BY <4>2, <4>3 DEF Promise!Remove
      <4> QED
        BY <2>1, <4>2, <4>3, <4>4 DEF Promise!Next
    <3>2. CASE index \notin Slots(size)
      <4>1. index < 0 \/ index >= size
        BY <2>1, <3>2 DEF Slots
      <4>2. ret' = 0 /\ Listed' = Listed /\ Open' = Open
        BY <2>3, <2>6, <4>1 DEF list_remove, Refuse
      <4>3. -1 \in -1..Len(Listed) /\ ~(-1 + 1 \in 1..Len(Listed))
        BY <2>1
      <4>4. Promise!Remove(-1)
        BY <4>2, <4>3 DEF Promise!Remove
      <4> QED
        BY <2>1, <4>2, <4>3, <4>4 DEF Promise!Next
    <3> QED
      BY <3>1, <3>2
  <2>7. ASSUME list_free PROVE Promise!Next
    <3>1. size' = 0 /\ ~Open' /\ ret' = ret
      BY <2>7 DEF list_free, Open
    <3>2. Listed' = <<>>
      BY <3>1 DEF Listed
    <3> QED
      BY <2>1, <3>1, <3>2 DEF Promise!Next, Promise!Free, Open
  <2> QED
    BY <1>2, StepCases, <2>2, <2>4, <2>5, <2>6, <2>7
<1> QED
  BY <1>1, <1>2

\* To its users every list is a sequence (list.c:4-51).
THEOREM ListIsSequence == Spec => IsSequence
<1>1. Spec => []IInv
  BY InitIInv, NextIInv, PTL DEF Spec
<1> QED
  BY <1>1, InitIsSequence, NextIsSequence, PTL DEF Spec, IsSequence, Promise!Spec

=============================================================================
