-------------------------------- MODULE Text --------------------------------
(***************************************************************************)
(* What a String of src/string.c promises: a text that is set, searched    *)
(* and edited.  Two limits are part of the promise, because every caller   *)
(* meets them: a text that is set keeps only its first characters, as many *)
(* as its length has in a 16-bit counter, and a search may miss a word     *)
(* whose first character occurs before it.                                 *)
(***************************************************************************)
EXTENDS Integers, Sequences

CONSTANTS
  Char, Inline, LengthLimit, MaxText, MaxWord   \* those of JString

VARIABLES
  text,
  ret,    \* what the last operation returned: an index, or a bool as 0 and 1
  state   \* open, destroyed, or lost: the text is there but cannot be reached

vars == <<text, ret, state>>

Words(n) == UNION {[1..k -> Char] : k \in 0..n}

Init == text = <<>> /\ ret = 0 /\ state = "open"

Kept(t) == SubSeq(t, 1, Len(t) % LengthLimit)

\* w is at index i, counted from 0.
Occurs(w, i) == i + Len(w) <= Len(text) /\ SubSeq(text, i + 1, i + Len(w)) = w

Set(t) == text' = Kept(t) /\ UNCHANGED <<ret, state>>

Clear == text' = <<>> /\ UNCHANGED <<ret, state>>

Destroy == text' = <<>> /\ state' = "destroyed" /\ UNCHANGED ret

\* A word that is found is there; one without its first character before it is
\* found, and the empty word is "found" at index 1.
Answer(w, i) ==
  \/ w # <<>> /\ i \in 0..Len(text) - 1 /\ Occurs(w, i)
  \/ w = <<>> /\ text # <<>> /\ i = 1
  \/ /\ i = -1
     /\ w = <<>> => text = <<>>
     /\ \A j \in 0..Len(text) - 1 :
          Occurs(w, j) => \E k \in 1..j : text[k] = w[1]

IndexOf(w, i) == ret' = i /\ Answer(w, i) /\ UNCHANGED <<text, state>>

Edited(i, w, r) == SubSeq(text, 1, i) \o r \o SubSeq(text, i + Len(w) + 1, Len(text))

\* Replacing by a word that is no longer leaves the text where it is; when that
\* makes a long text short, it is lost.
Replace(w, r, i) ==
  IF i = -1
    THEN ret' = 0 /\ UNCHANGED <<text, state>>
    ELSE /\ ret' = 1
         /\ text' = Kept(Edited(i, w, r))
         /\ state' = IF Len(r) <= Len(w) /\ Len(text) >= Inline /\ Len(text') < Inline
                       THEN "lost" ELSE "open"

Next ==
  /\ state = "open"
  /\ \/ \E t \in Words(MaxText) : Set(t)
     \/ Clear \/ Destroy
     \/ \E w \in Words(MaxWord), i \in -1..Len(text) :
          \/ IndexOf(w, i)
          \/ Answer(w, i) /\ \E r \in Words(MaxWord) : Replace(w, r, i)

Spec == Init /\ [][Next]_vars

=============================================================================
