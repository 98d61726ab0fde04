-------------------------------- MODULE Jacv --------------------------------
(***************************************************************************)
(* main of src/jacv.c: the file is read, the lexer runs, then the parser,  *)
(* and everything is freed again.  The parser is here only what Ast says   *)
(* of a run of it that returns: it took some of the cloned texts over, by  *)
(* setting value.ptr of their tokens to NULL, for the tree, which it       *)
(* returns, or for one that it has freed because of an error.              *)
(***************************************************************************)
EXTENDS Lexer

CONSTANT Sources  \* the contents the file may have

ASSUME SourcesAssumption ==
  \A s \in Sources : s \in Seq({s[k] : k \in DOMAIN s})

VARIABLES
  file,   \* whether the file could be opened
  taken,  \* the tokens whose value.ptr is NULL
  tree,   \* the texts that belong to the tree
  item    \* where the loop of lexer_free is

vars == <<lexing, file, taken, tree, item>>

Context == <<"context", 0>>
Source == <<"source", 0>>
LexerObj == {<<"lexer", 0>>, <<"list", 0>>, <<"items", 0>>}

\* The k-th token owns a text.
HasText(k) == tokens[k].type \in {"string", "identifier"}

Init ==
  /\ source = <<>> /\ i = 1 /\ tokens = <<>> /\ live = {} /\ pc = "main"
  /\ file \in BOOLEAN /\ taken = {} /\ tree = {} /\ item = 1

\* Deallocates the objects in S; one that is not allocated fails an assertion.
Deallocate(S, next) ==
  /\ live' = live \ S
  /\ pc' = IF S \subseteq live THEN next ELSE "abort"

\* Without a file there is no source, and main goes on.
read_file ==
  /\ pc = "main"
  /\ IF file THEN source' \in Sources ELSE source' = <<>>
  /\ live' = {Context} \cup (IF file THEN {Source} ELSE {})
  /\ pc' = "lexer_new"
  /\ UNCHANGED <<i, tokens, file, taken, tree, item>>

lexer_new ==
  /\ pc = "lexer_new"
  /\ live' = live \cup LexerObj
  /\ pc' = "lexer_parse"
  /\ UNCHANGED <<source, i, tokens, file, taken, tree, item>>

LexerTurn == lexer_parse /\ UNCHANGED <<file, taken, tree, item>>

\* Mutant: the error message is not cleared.
LexerErrorKept ==
  /\ pc = "error"
  /\ pc' = "exit 1"
  /\ UNCHANGED <<source, i, tokens, live, file, taken, tree, item>>

\* The error is printed and freed; nothing else is.
LexerError ==
  /\ pc = "error"
  /\ Deallocate({Message}, "exit 1")
  /\ UNCHANGED <<source, i, tokens, file, taken, tree, item>>

LexerDone ==
  /\ pc = "lexer_parse" /\ i > Len(source)
  /\ pc' = "ast_from_lexer"
  /\ UNCHANGED <<source, i, tokens, live, file, taken, tree, item>>

ast_from_lexer ==
  /\ pc = "ast_from_lexer"
  /\ \E S \in SUBSET {k \in DOMAIN tokens : HasText(k)} :
       /\ taken' = S
       /\ \/ tree' = {TextObj(k) : k \in S} /\ pc' = "ast_node_destroy" /\ UNCHANGED live
          \/ tree' = {} /\ Deallocate({TextObj(k) : k \in S}, "lexer_free")
  /\ UNCHANGED <<source, i, tokens, file, item>>

ast_node_destroy ==
  /\ pc = "ast_node_destroy"
  /\ Deallocate(tree, "lexer_free")
  /\ tree' = {}
  /\ UNCHANGED <<source, i, tokens, file, taken, item>>

\* Mutant: the texts that the parser took are freed as well.
FreeItemTaken ==
  /\ item \in DOMAIN tokens
  /\ Deallocate({TokenObj(item)} \cup (IF HasText(item) THEN {TextObj(item)} ELSE {}), pc)
  /\ item' = item + 1

\* A text that the parser did not take is freed with its token.
FreeItem ==
  /\ item \in DOMAIN tokens
  /\ LET text == IF HasText(item) /\ item \notin taken THEN {TextObj(item)} ELSE {}
     IN  Deallocate({TokenObj(item)} \cup text, pc)
  /\ item' = item + 1

FreeList ==
  /\ item \notin DOMAIN tokens
  /\ Deallocate(LexerObj, "JContext_free")
  /\ UNCHANGED item

lexer_free ==
  /\ pc = "lexer_free"
  /\ FreeItem \/ FreeList
  /\ UNCHANGED <<source, i, tokens, file, taken, tree>>

\* JContext_free(jctx, source): NULL is dereferenced when there was no file.
FreeSource ==
  /\ pc = "JContext_free"
  /\ \/ file /\ Deallocate({Source}, "JContext_destroy")
     \/ ~file /\ pc' = "crash" /\ UNCHANGED live
  /\ UNCHANGED <<source, i, tokens, file, taken, tree, item>>

\* The assertion of JContext_destroy fails if an object with a size is left.
JContext_destroy ==
  /\ pc = "JContext_destroy"
  /\ LET left == live \ ({Context} \cup IF source = <<>> THEN {Source} ELSE {})
     IN  Deallocate({Context}, IF left = {} THEN "exit 0" ELSE "abort")
  /\ UNCHANGED <<source, i, tokens, file, taken, tree, item>>

Next ==
  \/ read_file \/ lexer_new \/ LexerTurn \/ LexerError \/ LexerDone
  \/ ast_from_lexer \/ ast_node_destroy \/ lexer_free \/ FreeSource \/ JContext_destroy

\* The program is one thread, which does not stop before it exits.
Spec == Init /\ [][Next]_vars /\ WF_vars(Next)

-----------------------------------------------------------------------------
(* Properties.                                                             *)

PCs == {"main", "lexer_new", "lexer_parse", "error", "ast_from_lexer",
        "ast_node_destroy", "lexer_free", "JContext_free", "JContext_destroy",
        "exit 0", "exit 1", "crash", "abort"}

TypeOK ==
  /\ DOMAIN source = 1..Len(source) /\ i \in 1..Len(source) + 1
  /\ \A k \in DOMAIN tokens : DOMAIN tokens[k] = {"type", "from", "to", "value"}
  /\ pc \in PCs /\ file \in BOOLEAN
  /\ taken \subseteq DOMAIN tokens /\ item \in 1..Len(tokens) + 1

\* What the lexer has built: the tokens in the list, and the texts of those
\* that have one.
Lexed == {TokenObj(k) : k \in DOMAIN tokens}
           \cup {TextObj(k) : k \in {k \in DOMAIN tokens : HasText(k)}}

Base == {Context} \cup (IF file THEN {Source} ELSE {}) \cup LexerObj

\* The parser starts with what it relies on: the texts that are allocated are
\* those of the string and identifier tokens, one each, and no number or mark
\* has one (lexer.c:336-355; the initial states of Ast).
HandOver == pc = "ast_from_lexer" => live = Base \cup Lexed

\* After a lexical error main returns with all the lexer had allocated and the
\* token under construction, but neither its text nor the message is left
\* (jacv.c:42-47, lexer.c:349-352).
ErrorLeak == pc = "exit 1" => live = Base \cup Lexed \cup {TokenObj(Len(tokens) + 1)}

\* Whatever the parser took, nothing is freed twice, the assertions hold, and
\* nothing is left when main returns 0.  The only other end of a run without a
\* lexical error is the missing file (jacv.c:50-67).
ExitClean ==
  /\ pc # "abort"
  /\ pc = "exit 0" => live = {}
  /\ pc = "crash" => ~file

Ends == {"exit 0", "exit 1", "crash", "abort"}

\* The program ends: the cursor of the lexer always moves on (lexer.c:179, 378).
Termination == <>(pc \in Ends)

=============================================================================
