--------------------------- MODULE JString_proofs ---------------------------
(***************************************************************************)
(* Proofs about the String of module JString, for every set of characters, *)
(* every place of its blocks, every inline size, every limit of the length *)
(* and texts and words of any length: it owns the block that it needs, and *)
(* implements a text.                                                      *)
(***************************************************************************)
EXTENDS JString, TLAPS, WellFoundedInduction, SequenceTheorems

-----------------------------------------------------------------------------
(* The search.                                                             *)

\* A set of naturals that is not empty has a least element.
LEMMA LeastNat ==
  ASSUME NEW S \in SUBSET Nat, S # {}
  PROVE  \E x \in S : \A y \in S : x <= y
<1> DEFINE R == OpToRel(<, Nat)
<1>1. IsWellFoundedOn(R, Nat)
  BY NatLessThanWellFounded
<1>2. \E x \in S : \A y \in S : ~(<<y, x>> \in R)
  BY <1>1, WFMin, Zenon
<1>3. PICK x \in S : \A y \in S : ~(<<y, x>> \in R)
  BY <1>2
<1>4. \A y \in S : ~(y < x)
  BY <1>3 DEF OpToRel
<1> QED
  BY <1>4, SMT

\* p after the first n turns of the loop of String_indexOf.
Counts(p, s, w, n) ==
  p = [i \in 0..n |->
        IF i = 0 THEN 0
        ELSE IF p[i - 1] < Len(w) /\ s[i] = w[p[i - 1] + 1] THEN p[i - 1] + 1 ELSE 0]

LEMMA CountsExist ==
  ASSUME NEW s, NEW w, NEW n \in Nat
  PROVE  \E p : Counts(p, s, w, n)
<1> DEFINE B == {k \in Nat : ~\E p : Counts(p, s, w, k)}
<1> SUFFICES ASSUME B # {} PROVE FALSE
  OBVIOUS
<1>1. PICK k \in B : \A j \in B : k <= j
  <2>1. B \in SUBSET Nat
    OBVIOUS
  <2> QED
    BY <2>1, LeastNat
<1>2. k # 0
  <2> SUFFICES ASSUME k = 0 PROVE FALSE
    OBVIOUS
  <2>1. Counts([i \in 0..0 |-> 0], s, w, 0)
    BY DEF Counts
  <2> QED
    BY <1>1, <2>1
<1>3. k - 1 \in Nat /\ k - 1 \notin B
  BY <1>1, <1>2
<1>4. PICK p : Counts(p, s, w, k - 1)
  BY <1>3
<1> DEFINE next == IF p[k - 1] < Len(w) /\ s[k] = w[p[k - 1] + 1] THEN p[k - 1] + 1 ELSE 0
           q == [i \in 0..k |-> IF i = k THEN next ELSE p[i]]
<1>5. \A i \in 0..k - 1 : p[i] = IF i = 0 THEN 0
         ELSE IF p[i - 1] < Len(w) /\ s[i] = w[p[i - 1] + 1] THEN p[i - 1] + 1 ELSE 0
  BY <1>4 DEF Counts
<1>6. /\ \A i \in 0..k : i # k => i \in 0..k - 1 /\ q[i] = p[i]
      /\ \A i \in 0..k : i # 0 => i - 1 \in 0..k - 1 /\ q[i - 1] = p[i - 1]
      /\ q[k] = next
  BY <1>1, <1>3
<1>7. ASSUME NEW i \in 0..k
      PROVE  q[i] = IF i = 0 THEN 0
                    ELSE IF q[i - 1] < Len(w) /\ s[i] = w[q[i - 1] + 1] THEN q[i - 1] + 1 ELSE 0
  <2> HIDE DEF q
  <2>1. CASE i = k
    BY <1>2, <1>6, <2>1
  <2>2. CASE i # k
    <3> HIDE DEF next
    <3>1. i = 0 => q[i] = 0
      BY <1>5, <1>6, <2>2
    <3>2. i # 0 => q[i - 1] = p[i - 1] /\ q[i] = p[i] /\ i \in 0..k - 1
      BY <1>6, <2>2
    <3> QED
      BY <1>5, <3>1, <3>2
  <2> QED
    BY <2>1, <2>2
<1>8. Counts(q, s, w, k)
  <2>1. q = [i \in 0..k |-> q[i]]
    OBVIOUS
  <2> HIDE DEF q
  <2> QED
    BY <1>7, <2>1 DEF Counts
<1> QED
  BY <1>1, <1>8

LEMMA MatchedCounts ==
  ASSUME NEW s, NEW w, Len(s) \in Nat
  PROVE  Counts(Matched(s, w), s, w, Len(s))
<1>1. Matched(s, w) = CHOOSE p : Counts(p, s, w, Len(s))
  BY DEF Matched, Counts
<1> QED
  BY <1>1, CountsExist

\* What has been matched is the beginning of the word, and it is right behind
\* the cursor.
LEMMA MatchedIs ==
  ASSUME NEW s, NEW w, Len(s) \in Nat, Len(w) \in Nat, NEW i \in 0..Len(s)
  PROVE  LET m == Matched(s, w)[i]
         IN  /\ m \in Nat /\ m <= Len(w) /\ m <= i
             /\ \A j \in 1..m : s[i - m + j] = w[j]
<1> DEFINE M == Matched(s, w)
           Right(k) == /\ M[k] \in Nat /\ M[k] <= Len(w) /\ M[k] <= k
                       /\ \A j \in 1..M[k] : s[k - M[k] + j] = w[j]
           B == {k \in 0..Len(s) : ~Right(k)}
<1>1. \A k \in 0..Len(s) : M[k] =
        IF k = 0 THEN 0
        ELSE IF M[k - 1] < Len(w) /\ s[k] = w[M[k - 1] + 1] THEN M[k - 1] + 1 ELSE 0
  BY MatchedCounts DEF Counts
<1> HIDE DEF M
<1>2. B = {}
  <2> SUFFICES ASSUME B # {} PROVE FALSE
    OBVIOUS
  <2>1. PICK k \in B : \A j \in B : k <= j
    <3>1. B \in SUBSET Nat
      OBVIOUS
    <3> QED
      BY <3>1, LeastNat
  <2>2. k # 0
    <3> SUFFICES ASSUME k = 0 PROVE FALSE
      OBVIOUS
    <3>1. M[0] = 0
      BY <1>1
    <3>2. Right(0)
      BY <3>1
    <3> QED
      BY <2>1, <3>2
  <2>3. k \in 1..Len(s) /\ k - 1 \in 0..Len(s) /\ k - 1 \notin B
    BY <2>1, <2>2
  <2>4. Right(k - 1)
    BY <2>3
  <2>5. CASE M[k - 1] < Len(w) /\ s[k] = w[M[k - 1] + 1]
    <3>1. PICK m \in Nat : m = M[k - 1]
      BY <2>4
    <3>2. M[k] = m + 1
      BY <1>1, <2>3, <2>5, <3>1
    <3>3. /\ m + 1 \in Nat /\ m + 1 <= Len(w) /\ m + 1 <= k
      BY <2>3, <2>4, <2>5, <3>1
    <3>4. ASSUME NEW j \in 1..m + 1 PROVE s[k - (m + 1) + j] = w[j]
      <4>1. CASE j = m + 1
        <5>1. k - (m + 1) + j = k
          BY <2>3, <4>1
        <5> QED
          BY <2>5, <3>1, <4>1, <5>1
      <4>2. CASE j # m + 1
        <5>1. j \in 1..m /\ k - (m + 1) + j = (k - 1) - m + j
          BY <2>3, <4>2
        <5>2. s[(k - 1) - m + j] = w[j]
          BY <2>4, <3>1, <5>1
        <5> QED
          BY <5>1, <5>2
      <4> QED
        BY <4>1, <4>2
    <3>5. Right(k)
      BY <3>2, <3>3, <3>4
    <3> QED
      BY <2>1, <3>5
  <2>6. CASE ~(M[k - 1] < Len(w) /\ s[k] = w[M[k - 1] + 1])
    <3>1. M[k] = 0
      BY <1>1, <2>3, <2>6
    <3>2. Right(k)
      BY <2>3, <3>1
    <3> QED
      BY <2>1, <3>2
  <2> QED
    BY <2>5, <2>6
<1>3. Right(i)
  BY <1>2
<1> QED
  BY <1>3 DEF M

\* A word that is there behind i, without its first character before it, has been
\* matched where it ends.
LEMMA MatchedThere ==
  ASSUME NEW s, NEW w, Len(s) \in Nat, Len(w) \in Nat, NEW i \in Nat, i + Len(w) <= Len(s),
         \A j \in 1..Len(w) : s[i + j] = w[j], \A k \in 1..i : s[k] # w[1]
  PROVE  Matched(s, w)[i + Len(w)] = Len(w)
<1> DEFINE M == Matched(s, w)
<1>1. \A k \in 0..Len(s) : M[k] =
        IF k = 0 THEN 0
        ELSE IF M[k - 1] < Len(w) /\ s[k] = w[M[k - 1] + 1] THEN M[k - 1] + 1 ELSE 0
  BY MatchedCounts DEF Counts
<1> HIDE DEF M
<1>2. M[i] = 0
  <2> DEFINE B == {k \in 0..i : M[k] # 0}
  <2>1. B = {}
    <3> SUFFICES ASSUME B # {} PROVE FALSE
      OBVIOUS
    <3>1. PICK k \in B : \A j \in B : k <= j
      <4>1. B \in SUBSET Nat
        OBVIOUS
      <4> QED
        BY <4>1, LeastNat
    <3>2. k # 0
      BY <1>1, <3>1
    <3>3. k - 1 \in 0..i /\ k - 1 \notin B /\ k \in 1..i /\ k \in 0..Len(s)
      BY <3>1, <3>2
    <3>4. M[k - 1] = 0
      BY <3>3
    <3>5. s[k] # w[M[k - 1] + 1]
      BY <3>3, <3>4
    <3>6. M[k] = 0
      BY <1>1, <3>2, <3>3, <3>5
    <3> QED
      BY <3>1, <3>6
  <2> QED
    BY <2>1
<1>3. M[i + Len(w)] = Len(w)
  <2> DEFINE B == {d \in 0..Len(w) : M[i + d] # d}
  <2>1. B = {}
    <3> SUFFICES ASSUME B # {} PROVE FALSE
      OBVIOUS
    <3>1. PICK d \in B : \A j \in B : d <= j
      <4>1. B \in SUBSET Nat
        OBVIOUS
      <4> QED
        BY <4>1, LeastNat
    <3>2. d # 0
      BY <1>2, <3>1
    <3>3. d - 1 \in 0..Len(w) /\ d - 1 \notin B /\ d \in 1..Len(w)
      BY <3>1, <3>2
    <3>4. M[i + (d - 1)] = d - 1
      BY <3>3
    <3>5. i + d \in 0..Len(s) /\ i + d # 0 /\ (i + d) - 1 = i + (d - 1)
      BY <3>3
    <3>6. s[i + d] = w[d] /\ d - 1 < Len(w) /\ (d - 1) + 1 = d
      BY <3>3
    <3>7. M[i + d] = d
      <4>1. PICK k \in 0..Len(s) : k = i + d /\ k # 0
        BY <3>5
      <4>2. M[k - 1] = d - 1 /\ s[k] = w[d]
        BY <3>4, <3>5, <3>6, <4>1
      <4>3. M[k - 1] < Len(w) /\ s[k] = w[M[k - 1] + 1] /\ M[k - 1] + 1 = d
        BY <3>6, <4>2
      <4>4. M[k] = M[k - 1] + 1
        BY <1>1, <4>1, <4>3
      <4> QED
        BY <4>1, <4>3, <4>4
    <3> QED
      BY <3>1, <3>7
  <2> QED
    BY <2>1
<1> QED
  BY <1>3 DEF M

\* What a search of w in the first n characters of s returns.
Hits(s, w, n) == {i \in 1..n : Matched(s, w)[i] = Len(w)}

FoundIn(s, w, n) ==
  IF Len(w) > n \/ Hits(s, w, n) = {} THEN -1
  ELSE (CHOOSE i \in Hits(s, w, n) : \A j \in Hits(s, w, n) : i <= j) - Len(w)

LEMMA SearchIs == \A w : IndexOf(w) = FoundIn(String_getContents, w, length)
  BY DEF IndexOf, FoundIn, Hits

\* i may be the answer of a search of w in a text of n characters: a word that is
\* found is there; one that is not found is nowhere, or its first character is
\* before it.
Found(s, w, n, i) ==
  \/ w # <<>> /\ i \in 0..n - 1 /\ i + Len(w) <= n /\ \A j \in 1..Len(w) : s[i + j] = w[j]
  \/ w = <<>> /\ n # 0 /\ i = 1
  \/ /\ i = -1
     /\ w = <<>> => n = 0
     /\ \A j \in 0..n - 1 :
          j + Len(w) <= n /\ (\A k \in 1..Len(w) : s[j + k] = w[k])
            => \E k \in 1..j : s[k] = w[1]

LEMMA SearchAnswers ==
  ASSUME NEW s, NEW w \in Seq(Char), NEW n \in Nat, n = Len(s)
  PROVE  Found(s, w, n, FoundIn(s, w, n))
<1> DEFINE H == Hits(s, w, n)
           i == FoundIn(s, w, n)
<1>1. Len(w) \in Nat /\ (Len(w) = 0 <=> w = <<>>)
  BY EmptySeq
<1>2. H \in SUBSET Nat /\ H \subseteq 1..n
  BY DEF Hits
<1>3. CASE Len(w) > n
  <2>1. i = -1
    BY <1>3 DEF FoundIn
  <2>2. \A j \in 0..n - 1 : ~(j + Len(w) <= n)
    BY <1>1, <1>3
  <2>3. w # <<>>
    BY <1>1, <1>3
  <2> QED
    BY <2>1, <2>2, <2>3 DEF Found
<1>4. CASE ~(Len(w) > n) /\ H = {}
  <2>1. i = -1
    BY <1>4 DEF FoundIn
  <2>2. ASSUME NEW j \in 0..n - 1, j + Len(w) <= n, \A k \in 1..Len(w) : s[j + k] = w[k],
               \A k \in 1..j : s[k] # w[1]
        PROVE  FALSE
    <3>1. Matched(s, w)[j + Len(w)] = Len(w)
      BY <1>1, <2>2, MatchedThere
    <3>2. CASE w # <<>>
      <4>1. j + Len(w) \in 1..n
        BY <1>1, <2>2, <3>2
      <4> QED
        BY <1>4, <3>1, <4>1 DEF Hits
    <3>3. CASE w = <<>>
      <4>1. 1 \in 1..n /\ 1 \in 0..Len(s)
        BY <2>2
      <4>2. Matched(s, w)[1] = 0
        BY <1>1, <3>3, <4>1, MatchedIs
      <4> QED
        BY <1>1, <1>4, <3>3, <4>1, <4>2 DEF Hits
    <3> QED
      BY <3>2, <3>3
  <2>3. w = <<>> => n = 0
    <3> SUFFICES ASSUME w = <<>>, n # 0 PROVE FALSE
      OBVIOUS
    <3>1. 1 \in 1..n /\ 1 \in 0..Len(s)
      OBVIOUS
    <3>2. Matched(s, w)[1] = 0
      BY <1>1, <3>1, MatchedIs
    <3> QED
      BY <1>1, <1>4, <3>1, <3>2 DEF Hits
  <2> QED
    BY <2>1, <2>2, <2>3 DEF Found
<1>5. CASE ~(Len(w) > n) /\ H # {}
  <2>1. PICK h : h = CHOOSE g \in H : \A j \in H : g <= j
    OBVIOUS
  <2>2. h \in H /\ \A j \in H : h <= j
    <3>1. \E g \in H : \A j \in H : g <= j
      BY <1>2, <1>5, LeastNat
    <3> HIDE DEF H
    <3> QED
      BY <2>1, <3>1
  <2>3. i = h - Len(w)
    BY <1>5, <2>1 DEF FoundIn
  <2>4. h \in 1..n /\ h \in 0..Len(s) /\ Matched(s, w)[h] = Len(w)
    BY <2>2 DEF Hits
  <2>5. Len(w) <= h /\ \A j \in 1..Len(w) : s[h - Len(w) + j] = w[j]
    <3>1. LET m == Matched(s, w)[h]
          IN  /\ m \in Nat /\ m <= Len(w) /\ m <= h
              /\ \A j \in 1..m : s[h - m + j] = w[j]
      <4>1. h \in 0..Len(s) /\ Len(s) \in Nat /\ Len(w) \in Nat
        BY <1>1, <2>4
      <4> HIDE DEF H
      <4> QED
        BY ONLY <4>1, MatchedIs
    <3> QED
      BY <2>4, <3>1, Zenon
  <2>6. CASE w # <<>>
    <3>1. i \in 0..n - 1 /\ i + Len(w) <= n
      BY <1>1, <2>3, <2>4, <2>5, <2>6
    <3>2. \A j \in 1..Len(w) : s[i + j] = w[j]
      BY <2>3, <2>5, Zenon
    <3> QED
      BY <2>6, <3>1, <3>2 DEF Found
  <2>7. CASE w = <<>>
    <3>1. n # 0 /\ 1 \in 1..n /\ 1 \in 0..Len(s)
      BY <2>4
    <3>2. Matched(s, w)[1] = 0
      BY <1>1, <2>7, <3>1, MatchedIs
    <3>3. 1 \in H
      BY <1>1, <2>7, <3>1, <3>2 DEF Hits
    <3>4. h = 1
      BY <2>2, <2>4, <3>3
    <3>5. i = 1
      BY <1>1, <2>3, <2>7, <3>4
    <3> QED
      BY <2>7, <3>1, <3>5 DEF Found
  <2> QED
    BY <2>6, <2>7
<1> QED
  BY <1>3, <1>4, <1>5

-----------------------------------------------------------------------------
(* The inductive invariant.                                                *)

\* b is the block of a text of n characters.
Holds(b, n) == b.chars \in Seq(Char) /\ Len(b.chars) = n /\ b.room \in Int /\ n < b.room

\* BlockFits, with the types of what is read and the limit of the counter; the
\* union of a String of no characters may hold a pointer that was freed, and a
\* destroyed String has nothing.
IInv ==
  /\ length \in Nat /\ length < LengthLimit /\ open \in BOOLEAN
  /\ Crossed \/
       /\ DOMAIN blocks = IF Long THEN {content} ELSE {}
       /\ Long => Holds(blocks[content], length)
       /\ ~Long /\ length > 0 => content \in Seq(Char) /\ Len(content) = length
  /\ ~open => length = 0 /\ DOMAIN blocks = {}

\* The parts of IInv in a String that an operation may be called for.
LEMMA Usable ==
  ASSUME IInv, ~Crossed
  PROVE  /\ length \in Nat /\ length < LengthLimit
         /\ Held \in Seq(Char) /\ Len(Held) = length
         /\ DOMAIN Cleared = {}
         /\ length # 0 => String_getContents = Held
         /\ Long => DOMAIN blocks = {content} /\ Holds(blocks[content], length)
         /\ ~Long => DOMAIN blocks = {}
         /\ Held = IF Long THEN blocks[content].chars ELSE IF length = 0 THEN <<>> ELSE content
<1>1. /\ length \in Nat /\ length < LengthLimit
      /\ DOMAIN blocks = IF Long THEN {content} ELSE {}
      /\ Long => Holds(blocks[content], length)
      /\ ~Long /\ length > 0 => content \in Seq(Char) /\ Len(content) = length
  BY DEF IInv
<1>2. CASE Long
  <2>1. Held = blocks[content].chars /\ String_getContents = Held
    BY <1>1, <1>2 DEF Held, String_getContents
  <2>2. DOMAIN Cleared = {}
    BY <1>1, <1>2 DEF Cleared, Freed, Restrict
  <2>3. length # 0
    BY <1>1, <1>2, StringAssumption DEF Long
  <2> QED
    BY <1>1, <1>2, <2>1, <2>2, <2>3 DEF Holds
<1>3. CASE ~Long
  <2>1. Held = (IF length = 0 THEN <<>> ELSE content) /\ String_getContents = content
    BY <1>1, <1>3 DEF Held, String_getContents
  <2>2. DOMAIN Cleared = {}
    BY <1>1, <1>3 DEF Cleared
  <2>3. length = 0 => Held \in Seq(Char) /\ Len(Held) = 0
    BY <2>1
  <2>4. length # 0 => length > 0
    BY <1>1
  <2> QED
    BY <1>1, <1>3, <2>1, <2>2, <2>3, <2>4
<1> QED
  BY <1>2, <1>3

\* As much of a text is kept as the counter can count; a text below the limit is
\* kept whole.
LEMMA KeptIs ==
  ASSUME NEW t \in Seq(Char)
  PROVE  /\ Promise!Kept(t) \in Seq(Char)
         /\ Len(Promise!Kept(t)) = Len(t) % LengthLimit
         /\ Len(t) % LengthLimit \in Nat /\ Len(t) % LengthLimit < LengthLimit
         /\ Len(t) < LengthLimit => Promise!Kept(t) = t
<1>1. PICK n \in Nat : n = Len(t)
  OBVIOUS
<1>2. LengthLimit \in Nat \ {0}
  BY StringAssumption
<1>3. /\ n % LengthLimit \in Nat /\ n % LengthLimit < LengthLimit /\ n % LengthLimit <= n
      /\ n < LengthLimit => n % LengthLimit = n
  BY <1>2
<1>4. PICK m \in Nat : m = n % LengthLimit
  BY <1>3
<1>5. \A i \in 1..m : t[i] \in Char
  BY <1>1, <1>3, <1>4
<1>6. SubSeq(t, 1, m) \in Seq(Char) /\ Len(SubSeq(t, 1, m)) = m
  BY <1>5, SubSeqProperties
<1>7. m = n => SubSeq(t, 1, m) = t
  BY <1>1, SubSeqFull
<1> QED
  BY <1>1, <1>3, <1>4, <1>6, <1>7 DEF Promise!Kept

\* Setting a text gives back the old block and takes one that fits, if the text
\* needs one.
LEMMA SetFits ==
  ASSUME IInv, ~Crossed, NEW str \in Seq(Char), NEW busy, Set(str, busy), open, open' = open
  PROVE  IInv' /\ ~Crossed' /\ Held' = Promise!Kept(str)
<1>1. PICK n \in Nat : n = Len(str) % LengthLimit /\ n < LengthLimit
  BY KeptIs
<1>2. PICK kept \in Seq(Char) :
        kept = SubSeq(str, 1, n) /\ Len(kept) = n /\ kept = Promise!Kept(str)
  BY <1>1, KeptIs DEF Promise!Kept
<1>3. DOMAIN Cleared = {}
  BY Usable
<1>4. Inline \in Nat \ {0}
  BY StringAssumption
<1>5. CASE n < Inline
  <2>1. length' = n /\ content' = kept /\ DOMAIN blocks' = {}
    BY <1>1, <1>2, <1>3, <1>5 DEF Set
  <2>2. ~Long' /\ ~Crossed'
    BY <1>4, <1>5, <2>1 DEF Long, Crossed
  <2>3. n = 0 => kept = <<>>
    BY <1>2, EmptySeq
  <2>4. Held' = kept
    BY <2>1, <2>3 DEF Held
  <2> QED
    BY <1>1, <1>2, <2>1, <2>2, <2>4 DEF IInv
<1>6. CASE ~(n < Inline)
  <2>1. PICK p : /\ length' = n /\ content' = p
                 /\ blocks' = [q \in DOMAIN Cleared \cup {p} |->
                       IF q = p THEN [room |-> n + 1, chars |-> kept] ELSE Cleared[q]]
    BY <1>1, <1>2, <1>6 DEF Set
  <2>2. DOMAIN blocks' = {p} /\ blocks'[p] = [room |-> n + 1, chars |-> kept]
    BY <1>3, <2>1
  <2>3. Long' /\ ~Crossed'
    BY <1>1, <1>4, <1>6, <2>1 DEF Long, Crossed
  <2>4. Holds(blocks'[p], n)
    BY <1>2, <2>2 DEF Holds
  <2>5. Held' = kept
    BY <2>1, <2>2 DEF Held
  <2> QED
    BY <1>1, <1>2, <2>1, <2>2, <2>3, <2>4, <2>5 DEF IInv
<1> QED
  BY <1>5, <1>6

\* A text that is emptied gives back its block.
LEMMA ClearFits ==
  ASSUME IInv, ~Crossed, length' = 0, blocks' = Cleared, open' \in BOOLEAN
  PROVE  IInv' /\ ~Crossed' /\ Held' = <<>>
<1>1. DOMAIN blocks' = {}
  BY Usable
<1>2. ~Long'
  BY StringAssumption DEF Long
<1> QED
  BY <1>1, <1>2, StringAssumption DEF IInv, Crossed, Held

-----------------------------------------------------------------------------
(* The operations on a text.                                               *)

LEMMA WordsAreTexts ==
  ASSUME NEW n \in Nat
  PROVE  Words(n) \subseteq Seq(Char) /\ Promise!Words(n) = Words(n)
<1>1. \A k \in 0..n : [1..k -> Char] \subseteq Seq(Char)
  OBVIOUS
<1> QED
  BY <1>1 DEF Words, Promise!Words

LEMMA OccursIs ==
  ASSUME NEW s \in Seq(Char), NEW w \in Seq(Char), NEW i \in Nat, i + Len(w) <= Len(s)
  PROVE  SubSeq(s, i + 1, i + Len(w)) = w <=> \A j \in 1..Len(w) : s[i + j] = w[j]
<1>1. PICK n \in Nat : n = Len(w)
  OBVIOUS
<1>2. PICK first \in Int, last \in Int : first = i + 1 /\ last = i + n
  OBVIOUS
<1>3. PICK p : p = SubSeq(s, first, last)
  OBVIOUS
<1>4. /\ p \in Seq(Char)
      /\ Len(p) = IF first <= last THEN last - first + 1 ELSE 0
      /\ \A j \in 1..last - first + 1 : p[j] = s[first + j - 1]
  <2>1. \A j \in first..last : s[j] \in Char
    BY <1>1, <1>2
  <2> QED
    BY <1>3, <2>1, SubSeqProperties
<1>5. Len(p) = n /\ \A j \in 1..n : p[j] = s[i + j]
  <2>1. Len(p) = n /\ last - first + 1 = n
    BY <1>2, <1>4
  <2>2. \A j \in 1..n : first + j - 1 = i + j
    BY <1>2
  <2> QED
    BY <1>4, <2>1, <2>2
<1>6. p = w <=> \A j \in 1..n : p[j] = w[j]
  BY <1>1, <1>4, <1>5, SeqEqual
<1> QED
  BY <1>1, <1>2, <1>3, <1>5, <1>6

\* The index of String_indexOf is one that the text may answer.
LEMMA SearchIsAnswer ==
  ASSUME IInv, ~Crossed, NEW w \in Seq(Char)
  PROVE  /\ IndexOf(w) \in -1..Len(Held) /\ Promise!Answer(w, IndexOf(w))
         /\ IndexOf(w) # -1 =>
              IndexOf(w) \in Nat /\ IndexOf(w) + Len(w) <= length /\ length # 0
<1>1. PICK n \in Nat : n = length /\ Len(Held) = n
  BY Usable
<1>2. PICK s \in Seq(Char) : s = Held /\ Len(s) = n
  BY <1>1, Usable
<1>3. PICK i : i = IndexOf(w)
  OBVIOUS
<1>4. CASE n = 0
  <2>1. i = -1
    <3>1. Hits(String_getContents, w, n) = {}
      BY <1>4 DEF Hits
    <3>2. i = FoundIn(String_getContents, w, n)
      BY <1>1, <1>3, SearchIs
    <3> QED
      BY <3>1, <3>2 DEF FoundIn
  <2>2. s = <<>> /\ 0..Len(s) - 1 = {}
    BY <1>2, <1>4, EmptySeq
  <2>3. Promise!Answer(w, i)
    BY <1>2, <2>1, <2>2 DEF Promise!Answer
  <2> QED
    BY <1>1, <1>3, <2>1, <2>3
<1>5. CASE n # 0
  <2>1. i = FoundIn(s, w, n)
    <3>1. String_getContents = s
      BY <1>1, <1>2, <1>5, Usable
    <3> QED
      BY <1>1, <1>3, <3>1, SearchIs
  <2>2. Found(s, w, n, i)
    BY <1>2, <2>1, SearchAnswers
  <2>3. Len(w) \in Nat /\ (w = <<>> => Len(w) = 0) /\ s # <<>>
    BY <1>2, <1>5, EmptySeq
  <2>4. CASE /\ w # <<>> /\ i \in 0..n - 1 /\ i + Len(w) <= n
             /\ \A j \in 1..Len(w) : s[i + j] = w[j]
    <3>1. i \in Nat
      BY <2>4
    <3>2. SubSeq(s, i + 1, i + Len(w)) = w
      BY <1>2, <2>4, <3>1, OccursIs
    <3>3. Promise!Occurs(w, i)
      BY <1>2, <2>4, <3>2 DEF Promise!Occurs
    <3>4. Promise!Answer(w, i)
      BY <1>2, <2>4, <3>3 DEF Promise!Answer
    <3> QED
      BY <1>1, <1>3, <1>5, <2>4, <3>1, <3>4
  <2>5. CASE w = <<>> /\ n # 0 /\ i = 1
    <3>1. Promise!Answer(w, i)
      BY <1>2, <2>3, <2>5 DEF Promise!Answer
    <3>2. i \in -1..n /\ i \in Nat /\ i + Len(w) <= n
      BY <2>3, <2>5
    <3> QED
      BY <1>1, <1>3, <1>5, <3>1, <3>2
  <2>6. CASE /\ i = -1
             /\ w = <<>> => n = 0
             /\ \A j \in 0..n - 1 :
                  j + Len(w) <= n /\ (\A k \in 1..Len(w) : s[j + k] = w[k])
                    => \E k \in 1..j : s[k] = w[1]
    <3>1. ASSUME NEW j \in 0..n - 1, Promise!Occurs(w, j)
          PROVE  \E k \in 1..j : s[k] = w[1]
      <4>1. j \in Nat /\ j + Len(w) <= n /\ SubSeq(s, j + 1, j + Len(w)) = w
        BY <1>2, <3>1 DEF Promise!Occurs
      <4>2. \A k \in 1..Len(w) : s[j + k] = w[k]
        BY <1>2, <4>1, OccursIs
      <4> QED
        BY <2>6, <4>1, <4>2
    <3>2. Promise!Answer(w, i)
      BY <1>2, <1>5, <2>6, <3>1 DEF Promise!Answer
    <3> QED
      BY <1>1, <1>3, <2>6, <3>2
  <2> QED
    BY <2>2, <2>4, <2>5, <2>6 DEF Found
<1> QED
  BY <1>4, <1>5

\* What replacing makes of the text.
LEMMA EditedIs ==
  ASSUME IInv, ~Crossed, NEW w \in Seq(Char), NEW r \in Seq(Char), NEW i \in Nat,
         i + Len(w) <= length, length # 0
  PROVE  /\ Edited(i, w, r) = Promise!Edited(i, w, r)
         /\ Edited(i, w, r) \in Seq(Char)
         /\ Len(Edited(i, w, r)) = length + Len(r) - Len(w)
<1>1. PICK n \in Nat : n = length /\ Len(Held) = n
  BY Usable
<1>2. PICK s \in Seq(Char) : s = Held /\ Len(s) = n /\ String_getContents = s
  BY <1>1, Usable
<1>3. PICK m \in Nat : m = Len(w)
  OBVIOUS
<1>4. PICK a : a = SubSeq(s, 1, i)
  OBVIOUS
<1>5. PICK b : b = SubSeq(s, i + m + 1, n)
  OBVIOUS
<1>6. a \in Seq(Char) /\ Len(a) = i
  <2>1. \A j \in 1..i : s[j] \in Char
    BY <1>1, <1>2, <1>3
  <2> QED
    BY <1>4, <2>1, SubSeqProperties
<1>7. b \in Seq(Char) /\ Len(b) = n - i - m
  <2>1. PICK k \in Int : k = i + m + 1
    OBVIOUS
  <2>2. \A j \in k..n : s[j] \in Char
    BY <1>2, <2>1
  <2>3. b \in Seq(Char) /\ Len(b) = IF k <= n THEN n - k + 1 ELSE 0
    BY <1>5, <2>1, <2>2, SubSeqProperties
  <2> QED
    BY <1>1, <1>3, <2>1, <2>3
<1>8. PICK c : c = a \o r /\ c \in Seq(Char) /\ Len(c) = i + Len(r)
  BY <1>6, ConcatProperties
<1>9. c \o b \in Seq(Char) /\ Len(c \o b) = i + Len(r) + (n - i - m)
  <2>1. c \o b \in Seq(Char) /\ Len(c \o b) = Len(c) + Len(b)
    BY <1>7, <1>8, ConcatProperties
  <2> QED
    BY <1>7, <1>8, <2>1
<1>10. Edited(i, w, r) = c \o b /\ Promise!Edited(i, w, r) = c \o b
  BY <1>1, <1>2, <1>3, <1>4, <1>5, <1>8 DEF Edited, Promise!Edited
<1>11. i + Len(r) + (n - i - m) = n + Len(r) - m
  OBVIOUS
<1> QED
  BY <1>1, <1>3, <1>9, <1>10, <1>11

\* Editing in place keeps the member of the union that is in use, which becomes
\* the wrong one when a long text gets short.
LEMMA InPlaceFits ==
  ASSUME IInv, ~Crossed, open, open' = open, NEW e \in Seq(Char), Len(e) <= length,
         ReplaceInPlace(e)
  PROVE  IInv' /\ Held' = e /\ (Crossed' <=> Long /\ Len(e) < Inline)
<1>1. PICK n \in Nat : n = Len(e) /\ length' = n
  BY DEF ReplaceInPlace
<1>2. length \in Nat /\ length < LengthLimit /\ Inline \in Nat \ {0}
  BY StringAssumption DEF IInv
<1>3. Long' <=> ~(n < Inline)
  BY <1>1, <1>2 DEF Long
<1>c. length' \in Nat /\ length' < LengthLimit /\ open' \in BOOLEAN /\ open'
  <2>1. open' \in BOOLEAN /\ open'
    BY Zenon DEF IInv
  <2>2. n \in Nat /\ n < LengthLimit
    BY <1>1, <1>2, StringAssumption
  <2> QED
    BY <1>1, <2>1, <2>2
<1>4. CASE Long
  <2>1. DOMAIN blocks = {content} /\ Holds(blocks[content], length)
    BY <1>4, Usable
  <2>2. content' = content /\ blocks' = [blocks EXCEPT ![content].chars = e]
    BY <1>4 DEF ReplaceInPlace
  <2>3. DOMAIN blocks' = {content'} /\ blocks'[content'] = [blocks[content] EXCEPT !.chars = e]
    BY <2>1, <2>2
  <2>4. Held' = e
    <3>1. blocks'[content'].chars = e
      <4>1. PICK c : c = content /\ content' = c
        BY <2>2
      <4>2. DOMAIN blocks = {c} /\ blocks' = [blocks EXCEPT ![c].chars = e]
        BY <2>1, <2>2, <4>1
      <4> QED
        BY <4>1, <4>2
    <3> QED
      BY <2>3, <3>1 DEF Held
  <2>5. CASE n < Inline
    <3>1. Crossed'
      BY <1>3, <2>3, <2>5 DEF Crossed
    <3> QED
      BY <1>c, <1>1, <1>4, <2>4, <2>5, <3>1 DEF IInv
  <2>6. CASE ~(n < Inline)
    <3>1. Holds(blocks'[content'], n)
      BY <1>1, <1>2, <2>1, <2>3 DEF Holds
    <3>2. ~Crossed' /\ Long'
      BY <1>3, <2>6 DEF Crossed
    <3> QED
      BY <1>c, <1>1, <2>3, <2>4, <2>6, <3>1, <3>2 DEF IInv
  <2> QED
    BY <2>5, <2>6
<1>5. CASE ~Long
  <2>1. content' = e /\ blocks' = blocks /\ DOMAIN blocks = {}
    BY <1>5, Usable DEF ReplaceInPlace
  <2>2. ~Long' /\ ~Crossed'
    BY <1>1, <1>2, <1>3, <1>5, <2>1 DEF Long, Crossed
  <2>3. n = 0 => e = <<>>
    BY <1>1, EmptySeq
  <2>4. Held' = e
    BY <1>1, <2>1, <2>3 DEF Held
  <2> QED
    BY <1>c, <1>1, <1>5, <2>1, <2>2, <2>4 DEF IInv
<1> QED
  BY <1>4, <1>5

-----------------------------------------------------------------------------
(* The steps.                                                              *)

LEMMA InitIInv == Init => IInv /\ Promise!Init
<1> SUFFICES ASSUME Init PROVE IInv /\ Promise!Init
  OBVIOUS
<1>1. length = 0 /\ DOMAIN blocks = {} /\ open = TRUE /\ ret = 0
  BY DEF Init
<1>2. ~Long /\ ~Crossed
  BY <1>1, StringAssumption DEF Long, Crossed
<1> QED
  BY <1>1, <1>2, StringAssumption DEF IInv, Held, Promise!Init

\* A String is open as long as neither String_destroy was called nor its text lost.
LEMMA SetIsSet ==
  ASSUME IInv, ~Crossed, open, NEW str \in Seq(Char), NEW busy, Set(str, busy),
         UNCHANGED <<ret, open>>
  PROVE  IInv' /\ Promise!Set(str)
<1>1. IInv' /\ ~Crossed' /\ Held' = Promise!Kept(str)
  BY SetFits
<1> QED
  BY <1>1 DEF Promise!Set

LEMMA ReplaceIsReplace ==
  ASSUME IInv, ~Crossed, open, NEW w \in Seq(Char), NEW r \in Seq(Char), String_replace(w, r)
  PROVE  IInv' /\ Promise!Replace(w, r, IndexOf(w))
<1>1. PICK i : i = IndexOf(w)
  OBVIOUS
<1>2. open' = open
  BY DEF String_replace
<1>3. CASE i = -1
  <2>1. ret' = 0 /\ UNCHANGED <<length, content, blocks, open>>
    BY <1>1, <1>3 DEF String_replace
  <2>2. IInv' /\ Held' = Held /\ (Crossed' <=> Crossed)
    BY <2>1 DEF IInv, Held, Crossed, Long
  <2> QED
    BY <1>1, <1>3, <2>1, <2>2 DEF Promise!Replace
<1>4. CASE i # -1
  <2>1. i \in Nat /\ i + Len(w) <= length /\ length # 0
    BY <1>1, <1>4, SearchIsAnswer
  <2>2. PICK e \in Seq(Char) : /\ e = Edited(i, w, r) /\ e = Promise!Edited(i, w, r)
                               /\ Len(e) = length + Len(r) - Len(w)
    BY <2>1, EditedIs
  <2>3. /\ ret' = 1
        /\ IF Len(w) >= Len(r) THEN ReplaceInPlace(e) ELSE Through(e)
    BY <1>1, <1>4, <2>2 DEF String_replace
  <2>4. length \in Nat /\ length < LengthLimit /\ LengthLimit \in Nat /\ Len(Held) = length
    BY Usable, StringAssumption
  <2>5. Len(w) \in Nat /\ Len(r) \in Nat
    OBVIOUS
  <2>6. CASE Len(w) >= Len(r)
    <3>1. Len(e) <= length /\ Len(e) < LengthLimit
      BY <2>2, <2>4, <2>5, <2>6
    <3>2. IInv' /\ Held' = e /\ (Crossed' <=> Long /\ Len(e) < Inline)
      BY <1>2, <2>3, <2>6, <3>1, InPlaceFits
    <3>3. Promise!Kept(e) = e
      BY <3>1, KeptIs
    <3>4. Len(r) <= Len(w) /\ (Long <=> Len(Held) >= Inline)
      BY <2>4, <2>5, <2>6 DEF Long
    <3> QED
      BY <1>1, <1>2, <1>4, <2>2, <2>3, <3>2, <3>3, <3>4 DEF Promise!Replace
  <2>7. CASE ~(Len(w) >= Len(r))
    <3>1. PICK busy : Set(e, busy)
      BY <2>3, <2>7 DEF Through
    <3>2. IInv' /\ ~Crossed' /\ Held' = Promise!Kept(e)
      BY <1>2, <3>1, SetFits
    <3>3. ~(Len(r) <= Len(w))
      BY <2>5, <2>7
    <3> QED
      BY <1>1, <1>2, <1>4, <2>2, <2>3, <3>2, <3>3 DEF Promise!Replace
  <2> QED
    BY <2>6, <2>7
<1> QED
  BY <1>3, <1>4

\* Every call keeps the invariant and is one of the text.
LEMMA StepIsStep ==
  ASSUME IInv, Next
  PROVE  IInv' /\ Promise!Next
<1>1. open /\ ~Crossed
  BY DEF Next
<1>2. /\ Words(MaxText) \subseteq Seq(Char) /\ Words(MaxWord) \subseteq Seq(Char)
      /\ Promise!Words(MaxText) = Words(MaxText) /\ Promise!Words(MaxWord) = Words(MaxWord)
  BY WordsAreTexts, StringAssumption
<1>3. ASSUME NEW str \in Words(MaxText), String_init(str) \/ String_format(str)
      PROVE  IInv' /\ Promise!Next
  <2>1. PICK busy : Set(str, busy) /\ UNCHANGED <<ret, open>>
    BY <1>3 DEF String_init, String_format, Through
  <2>2. str \in Seq(Char)
    BY <1>2
  <2>3. IInv' /\ Promise!Set(str)
    BY <1>1, <2>1, <2>2, SetIsSet
  <2> QED
    BY <1>1, <1>2, <2>3 DEF Promise!Next
<1>4. ASSUME String_clear PROVE IInv' /\ Promise!Next
  <2>1. length' = 0 /\ blocks' = Cleared /\ UNCHANGED <<ret, open>> /\ open' \in BOOLEAN
    BY <1>1, <1>4 DEF String_clear, IInv
  <2>2. IInv' /\ ~Crossed' /\ Held' = <<>>
    BY <1>1, <2>1, ClearFits
  <2>3. Promise!Clear
    BY <1>1, <2>1, <2>2 DEF Promise!Clear
  <2> QED
    BY <1>1, <2>2, <2>3 DEF Promise!Next
<1>5. ASSUME String_destroy PROVE IInv' /\ Promise!Next
  <2>1. length' = 0 /\ blocks' = Cleared /\ UNCHANGED ret /\ open' = FALSE
    BY <1>5 DEF String_destroy
  <2>2. IInv' /\ ~Crossed' /\ Held' = <<>>
    BY <1>1, <2>1, ClearFits
  <2>3. Promise!Destroy
    BY <1>1, <2>1, <2>2 DEF Promise!Destroy
  <2> QED
    BY <1>1, <2>2, <2>3 DEF Promise!Next
<1>6. ASSUME NEW w \in Words(MaxWord), String_indexOf(w)
      PROVE  IInv' /\ Promise!Next
  <2>1. PICK i \in -1..Len(Held) : i = IndexOf(w) /\ Promise!Answer(w, i)
    BY <1>1, <1>2, SearchIsAnswer
  <2>2. ret' = i /\ UNCHANGED <<length, content, blocks, open>>
    BY <1>6, <2>1 DEF String_indexOf
  <2>3. IInv' /\ Held' = Held /\ (Crossed' <=> Crossed)
    BY <2>2 DEF IInv, Held, Crossed, Long
  <2>4. Promise!IndexOf(w, i)
    BY <2>1, <2>2, <2>3 DEF Promise!IndexOf
  <2> QED
    BY <1>1, <1>2, <2>1, <2>3, <2>4 DEF Promise!Next
<1>7. ASSUME NEW w \in Words(MaxWord), NEW r \in Words(MaxWord), String_replace(w, r)
      PROVE  IInv' /\ Promise!Next
  <2>1. PICK i \in -1..Len(Held) : i = IndexOf(w) /\ Promise!Answer(w, i)
    BY <1>1, <1>2, SearchIsAnswer
  <2>2. IInv' /\ Promise!Replace(w, r, i)
    BY <1>1, <1>2, <1>7, <2>1, ReplaceIsReplace
  <2> QED
    BY <1>1, <1>2, <2>1, <2>2 DEF Promise!Next
<1> QED
  BY <1>3, <1>4, <1>5, <1>6, <1>7 DEF Next

LEMMA NextIInv == IInv /\ [Next]_vars => IInv' /\ [Promise!Next]_(Promise!vars)
<1> SUFFICES ASSUME IInv, [Next]_vars PROVE IInv' /\ [Promise!Next]_(Promise!vars)
  OBVIOUS
<1>1. CASE UNCHANGED vars
  BY <1>1 DEF vars, IInv, Promise!vars, Held, Crossed, Long
<1>2. CASE Next
  BY <1>2, StepIsStep
<1> QED
  BY <1>1, <1>2

\* A String that needs a block has one, just its own and large enough, and gives
\* it back before it takes the next, whatever the operations and the lengths of
\* the texts (string.c:18-57, 99-129).
THEOREM StringFits == Spec => []BlockFits
<1>1. IInv => BlockFits
  BY Zenon DEF IInv, BlockFits, Holds
<1>2. Spec => []IInv
  BY InitIInv, NextIInv, PTL DEF Spec
<1> QED
  BY <1>1, <1>2, PTL

\* To its users every String is a text: moving between the two members of the
\* union keeps it, and what a search finds is there (string.c:65-156).
THEOREM StringIsText == Spec => IsText
<1>1. Spec => []IInv
  BY InitIInv, NextIInv, PTL DEF Spec
<1> QED
  BY <1>1, InitIInv, NextIInv, PTL DEF Spec, IsText, Promise!Spec

=============================================================================
