------------------------------ MODULE JString ------------------------------
(***************************************************************************)
(* The String of jacv (src/string.c, include/jutils/string.h): a length    *)
(* of 16 bits and a union that holds up to seven characters itself or      *)
(* points to a block of the allocator.  Which member of the union is valid *)
(* is told by the length alone.  A String has one user, so that an         *)
(* operation is one step; what printf writes is a free choice.             *)
(***************************************************************************)
EXTENDS Integers, Sequences, Functions

CONSTANTS
  Char,         \* the characters
  Pointers,     \* where the allocator may put a block
  Inline,       \* 8: lengths from here on are kept in a block
  LengthLimit,  \* 2^16: the length is a uint16_t
  MaxText,      \* bound: the longest text given to an operation
  MaxWord       \* bound: the longest word searched for or replaced by

ASSUME StringAssumption ==
  /\ Inline \in Nat \ {0} /\ LengthLimit \in Nat /\ LengthLimit > Inline
  /\ MaxText \in Nat /\ MaxWord \in Nat

VARIABLES
  length,
  content,  \* the union: characters, or a pointer
  blocks,   \* the blocks of the allocator: [room, chars], chars up to the 0
  ret,
  open      \* String_destroy has not been called

vars == <<length, content, blocks, ret, open>>

Words(n) == UNION {[1..k -> Char] : k \in 0..n}

\* A zeroed structure, of STRING_NEW or of the allocator in String_new.
Init == length = 0 /\ content = <<>> /\ blocks = <<>> /\ ret = 0 /\ open = TRUE

Long == length >= Inline

\* The length says that the union holds characters, but it holds the pointer to
\* a block, whose bytes would be read.  What follows is not modelled.
Crossed == ~Long /\ content \in DOMAIN blocks

String_getContents == IF Long THEN blocks[content].chars ELSE content

Freed(f, p) == Restrict(f, DOMAIN f \ {p})

-----------------------------------------------------------------------------

\* The blocks after String_clear; the union keeps the pointer.
Cleared == IF Long THEN Freed(blocks, content) ELSE blocks

String_clear ==
  /\ length' = 0
  /\ blocks' = Cleared
  /\ content' = IF length > 0 /\ ~Long THEN <<>> ELSE content
  /\ UNCHANGED <<ret, open>>

String_destroy ==
  /\ length' = 0 /\ blocks' = Cleared /\ open' = FALSE
  /\ content' = <<>> /\ UNCHANGED ret

\* Mutant: the old block is not given back.
SetAndKeep(str, busy) ==
  LET n == Len(str) % LengthLimit
      kept == SubSeq(str, 1, n)
  IN  /\ length' = n
      /\ IF n < Inline
           THEN content' = kept /\ blocks' = blocks
           ELSE \E p \in Pointers \ (DOMAIN blocks \cup busy) :
                  /\ content' = p
                  /\ blocks' = [q \in DOMAIN blocks \cup {p} |->
                       IF q = p THEN [room |-> n + 1, chars |-> kept] ELSE blocks[q]]

\* String_init, while the blocks in busy are allocated too.
Set(str, busy) ==
  LET n == Len(str) % LengthLimit
      kept == SubSeq(str, 1, n)
  IN  /\ length' = n
      /\ IF n < Inline
           THEN content' = kept /\ blocks' = Cleared
           ELSE \E p \in Pointers \ (DOMAIN Cleared \cup busy) :
                  /\ content' = p
                  /\ blocks' = [q \in DOMAIN Cleared \cup {p} |->
                       IF q = p THEN [room |-> n + 1, chars |-> kept] ELSE Cleared[q]]

String_init(str) == Set(str, {}) /\ UNCHANGED <<ret, open>>

\* The temporary block is freed at the end.
Through(str) == \E temp \in Pointers \ DOMAIN blocks : Set(str, {temp})

\* The format is the text itself, so that the new text is made before; after
\* String_clear of a long text it is the bytes of the old pointer.
String_format(str) == Through(str) /\ UNCHANGED <<ret, open>>

\* p after each turn of the loop of String_indexOf: a mismatch starts over,
\* with the next character.
Matched(s, w) ==
  LET p[i \in 0..Len(s)] ==
        IF i = 0 THEN 0
        ELSE IF p[i - 1] < Len(w) /\ s[i] = w[p[i - 1] + 1] THEN p[i - 1] + 1 ELSE 0
  IN  p

\* Mutant: the index of the last character.
LastIndexOf(w) ==
  LET s == String_getContents
      hits == {i \in 1..length : Matched(s, w)[i] = Len(w)}
  IN  IF Len(w) > length \/ hits = {} THEN -1
      ELSE (CHOOSE i \in hits : \A j \in hits : i <= j) - 1

IndexOf(w) ==
  LET s == String_getContents
      hits == {i \in 1..length : Matched(s, w)[i] = Len(w)}
  IN  IF Len(w) > length \/ hits = {} THEN -1
      ELSE (CHOOSE i \in hits : \A j \in hits : i <= j) - Len(w)

String_indexOf(w) == ret' = IndexOf(w) /\ UNCHANGED <<length, content, blocks, open>>

\* The memcpy that moves the rest down copies between overlapping parts of one
\* array; it is taken to move them, as memmove does.
Edited(index, w, r) ==
  LET s == String_getContents
  IN  SubSeq(s, 1, index) \o r \o SubSeq(s, index + Len(w) + 1, length)

ReplaceInPlace(edited) ==
  /\ length' = Len(edited)
  /\ IF Long THEN /\ blocks' = [blocks EXCEPT ![content].chars = edited]
                  /\ UNCHANGED content
             ELSE content' = edited /\ UNCHANGED blocks

\* Mutant: the comparison of the lengths is left out.
ReplaceAlwaysInPlace(w, r) ==
  LET index == IndexOf(w)
  IN  /\ UNCHANGED open
      /\ IF index = -1 THEN ret' = 0 /\ UNCHANGED <<length, content, blocks>>
         ELSE ret' = 1 /\ ReplaceInPlace(Edited(index, w, r))

String_replace(w, r) ==
  LET index == IndexOf(w)
  IN  /\ UNCHANGED open
      /\ IF index = -1 THEN ret' = 0 /\ UNCHANGED <<length, content, blocks>>
         ELSE /\ ret' = 1
              /\ IF Len(w) >= Len(r) THEN ReplaceInPlace(Edited(index, w, r))
                                     ELSE Through(Edited(index, w, r))

Next ==
  /\ open /\ ~Crossed
  /\ \/ \E str \in Words(MaxText) : String_init(str) \/ String_format(str)
     \/ String_clear \/ String_destroy
     \/ \E w \in Words(MaxWord) :
          String_indexOf(w) \/ \E r \in Words(MaxWord) : String_replace(w, r)

Spec == Init /\ [][Next]_vars

-----------------------------------------------------------------------------
(* Properties.                                                             *)

\* The String has its block, if it needs one, and no other: whatever the
\* operations and lengths, none is freed twice, leaked or too small for the
\* text and its terminating 0 (string.c:18-57, 99-129).
BlockFits ==
  Crossed \/
    /\ DOMAIN blocks = IF Long THEN {content} ELSE {}
    /\ \A p \in DOMAIN blocks : /\ Len(blocks[p].chars) = length
                                /\ length < blocks[p].room
    /\ ~Long /\ length > 0 => Len(content) = length

Held == IF content \in DOMAIN blocks THEN blocks[content].chars
        ELSE IF length = 0 THEN <<>> ELSE content

Promise == INSTANCE Text
  WITH text <- Held,
       state <- IF ~open THEN "destroyed" ELSE IF Crossed THEN "lost" ELSE "open"

\* To its users a String is a text: switching between the members of the union
\* keeps it, and what a search finds is there (string.c:65-156).
IsText == Promise!Spec

\* The member of the union that is read is the one that was written, as the
\* comment on replacing in place has it (string.c:101-102).
RightMember == Long <=> content \in DOMAIN blocks

=============================================================================
