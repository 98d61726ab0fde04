------------------------------ MODULE Sequence ------------------------------
(***************************************************************************)
(* What a list of src/list.c is to its users: a sequence of items.  The    *)
(* returned values are those of C: an index counts from 0, -1 is "not      *)
(* found", and a bool is 0 or 1.                                           *)
(***************************************************************************)
EXTENDS Integers, Sequences

CONSTANT Item

VARIABLES
  seq,   \* the items
  ret,   \* what the last operation returned
  open   \* the list has not been freed

vars == <<seq, ret, open>>

Init == seq = <<>> /\ ret = 0 /\ open = TRUE

Without(s, i) == [j \in 1..Len(s) - 1 |-> IF j < i THEN s[j] ELSE s[j + 1]]

Has(x) == \E j \in 1..Len(seq) : seq[j] = x

\* The first place of x, which is in the sequence.
First(x) ==
  CHOOSE j \in 1..Len(seq) : seq[j] = x /\ \A k \in 1..j - 1 : seq[k] # x

Push(x) == seq' = Append(seq, x) /\ ret' = Len(seq) + 1

\* The item at index i, counted from 0, if there is one: -1 and Len(seq) stand
\* for all indices where there is none.
Remove(i) ==
  IF i + 1 \in 1..Len(seq)
    THEN seq' = Without(seq, i + 1) /\ ret' = 1
    ELSE seq' = seq /\ ret' = 0

IndexOf(x) == seq' = seq /\ ret' = IF Has(x) THEN First(x) - 1 ELSE -1

\* The first of the items equal to x, and no other.
RemoveItem(x) ==
  IF Has(x) THEN seq' = Without(seq, First(x)) /\ ret' = 1
            ELSE seq' = seq /\ ret' = 0

Free == seq' = <<>> /\ open' = FALSE /\ UNCHANGED ret

Next ==
  /\ open
  /\ \/ /\ UNCHANGED open
        /\ \/ \E x \in Item : Push(x) \/ IndexOf(x) \/ RemoveItem(x)
           \/ \E i \in -1..Len(seq) : Remove(i)
     \/ Free

Spec == Init /\ [][Next]_vars

=============================================================================
