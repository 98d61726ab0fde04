------------------------------- MODULE Lexer -------------------------------
(***************************************************************************)
(* lexer_parse of src/lexer.c: one turn of its loop is one action.  It     *)
(* turns the source, a sequence of characters counted from 1, into the     *)
(* list of tokens.  "live" has the objects that are allocated: a token and *)
(* the text cloned for it are named by the place of the token in the list, *)
(* also while the token is not in it yet.  A few characters have names:    *)
(* newline, tab, dquote, backtick and backslash.                           *)
(***************************************************************************)
EXTENDS Numbers, FiniteSets

VARIABLES
  source,  \* the characters of the file
  i,       \* the next character
  tokens,  \* lexer->tokens: type, first and last character, and value
  live,    \* the objects that are allocated
  pc       \* how far main is

lexing == <<source, i, tokens, live, pc>>

Token(type, from, to, value) == [type |-> type, from |-> from, to |-> to, value |-> value]

\* The objects of the k-th token.
TokenObj(k) == <<"token", k>>
TextObj(k) == <<"text", k>>
Message == <<"message", 0>>

Marks == {"(", ")", "{", "}", "[", "]", ",", ";", "newline"}
Operators == {"+", "-", "*", "/", "%", "^", "&", "|", "~", "!", "=", "<", ">", "?", ":"}
Quotes == {"dquote", "backtick"}
Blanks == {" ", "tab"}

Small == {"a", "b", "c", "d", "e", "f", "g", "h", "i", "j", "k", "l", "m",
          "n", "o", "p", "q", "r", "s", "t", "u", "v", "w", "x", "y", "z"}
Capital == {"A", "B", "C", "D", "E", "F", "G", "H", "I", "J", "K", "L", "M",
            "N", "O", "P", "Q", "R", "S", "T", "U", "V", "W", "X", "Y", "Z"}

identifierType(c) ==
  CASE c \in Decimal -> "num"
    [] c \in Small \cup Capital -> "char"
    [] c \in {"_", "$"} -> "sym"
    [] OTHER -> "none"

-----------------------------------------------------------------------------
(* Where a string and a word end.                                          *)

\* The closing quote, 0 when there is none.
lexer_parse_string_at(start) ==
  LET unescaping(k) == k > start + 1 /\ source[k - 1] = "backslash"
      scan[k \in Nat] ==
        IF k > Len(source) THEN 0
        ELSE IF source[k] = source[start] /\ ~unescaping(k) THEN k
        ELSE scan[k + 1]
  IN  scan[start + 1]

\* The character after the word.
lexer_parse_identifier_with_extra_ids(start, ids) ==
  LET end[k \in Nat] ==
        IF k <= Len(source) /\ (source[k] \in ids \/ identifierType(source[k]) # "none")
          THEN end[k + 1] ELSE k
  IN  end[start]

clone_string(from, size) == SubSeq(source, from, from + size - 1)

-----------------------------------------------------------------------------
(* The turns of the loop.                                                  *)

\* Mutants: the loop goes on one character too far, or not far enough.
PushPast(token, objects) ==
  /\ tokens' = Append(tokens, token)
  /\ live' = live \cup {TokenObj(Len(tokens) + 1)} \cup objects
  /\ i' = token.to + 2
  /\ UNCHANGED <<source, pc>>

PushBack(token, objects) ==
  /\ tokens' = Append(tokens, token)
  /\ live' = live \cup {TokenObj(Len(tokens) + 1)} \cup objects
  /\ i' = IF token.type = "string" THEN token.to ELSE token.to + 1
  /\ UNCHANGED <<source, pc>>

\* push_and_jump: the token is added to the list.
Push(token, objects) ==
  /\ tokens' = Append(tokens, token)
  /\ live' = live \cup {TokenObj(Len(tokens) + 1)} \cup objects
  /\ i' = token.to + 1
  /\ UNCHANGED <<source, pc>>

\* RET_ERROR: the token under construction stays behind.
RetError ==
  /\ live' = live \cup {TokenObj(Len(tokens) + 1), Message}
  /\ pc' = "error"
  /\ UNCHANGED <<source, i, tokens>>

\* Mutant: an unknown character is not passed.
SkipBlank(c) ==
  /\ c \notin Marks \cup Operators \cup Quotes \cup {"."} /\ identifierType(c) = "none"
  /\ i' = IF c \in Blanks THEN i + 1 ELSE i
  /\ UNCHANGED <<source, tokens, live, pc>>

\* Blanks, and characters that the lexer does not know, give no token.
Skip(c) ==
  /\ c \notin Marks \cup Operators \cup Quotes \cup {"."} /\ identifierType(c) = "none"
  /\ i' = i + 1
  /\ UNCHANGED <<source, tokens, live, pc>>

Mark(c) == c \in Marks /\ Push(Token(c, i, i, c), {})

Operator(c) == c \in Operators /\ Push(Token("operator", i, i, c), {})

\* Mutant: a string between double quotes may have line breaks.
EndOfStringMultiLine(c) == lexer_parse_string_at(i)

\* A line break ends a string between double quotes without closing it.
EndOfString(c) ==
  LET end == lexer_parse_string_at(i)
  IN  IF c # "backtick" /\ \E j \in i + 1..end - 1 : source[j] = "newline" THEN 0 ELSE end

String(c) ==
  /\ c \in Quotes
  /\ LET end == EndOfString(c)
         size == end - i
     IN  IF end = 0 THEN RetError
         ELSE Push(Token("string", i, end, clone_string(i + 1, size - 1)),
                   {TextObj(Len(tokens) + 1)})

Word(c) ==
  /\ identifierType(c) \in {"char", "sym"}
  /\ LET end == lexer_parse_identifier_with_extra_ids(i, {})
         size == end - i + 1
     IN  Push(Token("identifier", i, end - 1, clone_string(i, size - 1)),
              {TextObj(Len(tokens) + 1)})

\* Mutant: a number starts with a digit only.
StartsNumberDigit(c) == identifierType(c) = "num"

StartsNumber(c) ==
  \/ identifierType(c) = "num"
  \/ c = "." /\ i # Len(source) /\ source[i + 1] \in Decimal

\* Mutant: the text of a number stays allocated.
NumberTextKept(c) ==
  /\ StartsNumber(c)
  /\ LET end == lexer_parse_identifier_with_extra_ids(i, {"."})
         size == end - i + 1
         result == parse_number(clone_string(i, size - 1))
         text == {TextObj(Len(tokens) + 1)}
     IN  \/ result.state = "fail" /\ RetError
         \/ /\ result.state \in {"int", "float"}
            /\ Push(Token(result.state, i, end - 1, result), text)

\* The text of a number is freed as soon as it is parsed, valid or not.
Number(c) ==
  /\ StartsNumber(c)
  /\ LET end == lexer_parse_identifier_with_extra_ids(i, {"."})
         size == end - i + 1
         result == parse_number(clone_string(i, size - 1))
     IN  \/ result.state = "fail" /\ RetError
         \/ /\ result.state \in {"int", "float"}
            /\ Push(Token(result.state, i, end - 1, result), {})

Dot(c) == c = "." /\ ~StartsNumber(c) /\ Push(Token("dot", i, i, c), {})

lexer_parse ==
  /\ pc = "lexer_parse" /\ i <= Len(source)
  /\ LET c == source[i]
     IN  Skip(c) \/ Mark(c) \/ Operator(c) \/ String(c) \/ Word(c) \/ Number(c) \/ Dot(c)

-----------------------------------------------------------------------------
(* What the tokens are to the source.                                      *)

\* The characters that belong to a token.
Span(k) == tokens[k].from..tokens[k].to

\* Every character before the cursor is in one token, the tokens are in the
\* order of the source, and what is in no token starts none: nothing is read
\* twice, and only blanks and unknown characters are dropped (lexer.c:339, 378).
Covered ==
  /\ \A k \in DOMAIN tokens : tokens[k].from <= tokens[k].to /\ tokens[k].to < i
  /\ \A k \in 2..Len(tokens) : tokens[k - 1].to < tokens[k].from
  /\ \A p \in 1..i - 1 :
       (\E k \in DOMAIN tokens : p \in Span(k)) \/
       /\ source[p] \notin Marks \cup Operators \cup Quotes \cup {"."}
       /\ identifierType(source[p]) = "none"

Text(k) == SubSeq(source, tokens[k].from, tokens[k].to)

\* A word has only the characters of words, does not start with a digit, and
\* does not go on after its end; a number may have dots too.  A dot that a
\* digit follows belongs to a number, wherever it is (lexer.c:307-317, 431).
MaximalMunch ==
  \A k \in DOMAIN tokens :
    LET after == tokens[k].to + 1
        GoesOn(S) == after <= Len(source) /\ (source[after] \in S \/ identifierType(source[after]) # "none")
    IN  /\ tokens[k].type = "identifier" =>
             /\ ~GoesOn({}) /\ tokens[k].value = Text(k)
             /\ \A j \in DOMAIN Text(k) : identifierType(Text(k)[j]) # "none"
             /\ Text(k)[1] \notin Decimal
        /\ tokens[k].type \in {"int", "float"} => ~GoesOn({"."})
        /\ tokens[k].type = "dot" => ~(after <= Len(source) /\ source[after] \in Decimal)

\* A string ends at the first quote of its kind that has no backslash directly
\* before it, in the same line if the quote is a double one; its value is what
\* is between the quotes (lexer.c:271-303, 395).
Closes(p, from) == source[p] = source[from] /\ (p > from + 1 => source[p - 1] # "backslash")

StringsClosed ==
  \A k \in DOMAIN tokens :
    LET from == tokens[k].from   to == tokens[k].to
    IN  tokens[k].type = "string" =>
          /\ from < to /\ source[from] \in Quotes /\ Closes(to, from)
          /\ \A p \in from + 1..to - 1 :
               ~Closes(p, from) /\ (source[p] = "newline" => source[from] = "backtick")
          /\ tokens[k].value = SubSeq(source, from + 1, to - 1)

NumberRight(k) == {tokens[k].value} = Meaning(Text(k))

\* A number has the value that its text means, whatever the base, as long as a
\* binary literal has less digits than an int has bits; and what stops the
\* lexer at a digit or a dot means no number (jutils.c:60-201).
NumbersMean ==
  /\ \A k \in DOMAIN tokens :
       /\ tokens[k].type \in {"int", "float"}
       /\ \A rest \in BinaryRest(Text(k)) : Len(rest) < IntBits
       => NumberRight(k)
  /\ pc = "error" /\ source[i] \notin Quotes =>
       \E to \in i..Len(source) :
         /\ \A p \in i..Len(source) :
              p <= to <=> \A q \in i..p : source[q] = "." \/ identifierType(source[q]) # "none"
         /\ Meaning(SubSeq(source, i, to)) = {}

\* Every 1 of a binary literal sets its own bit of the 64 that the result has
\* ("64 zero bits", "set bits backwards in the result", jutils.c:39-40).
BinaryMeans ==
  \A k \in DOMAIN tokens :
    (\E rest \in BinaryRest(Text(k)) : Len(rest) <= WordBits) => NumberRight(k)

=============================================================================
