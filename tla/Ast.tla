-------------------------------- MODULE Ast --------------------------------
(***************************************************************************)
(* The parser of jacv (src/ast.c), from the token list that the lexer left *)
(* behind to the exit of main: ast_from_lexer and ast_parse_expr build the *)
(* tree, process_operation rebalances it, the destructors free it and      *)
(* lexer_free frees what the parser left in the tokens.                    *)
(*                                                                         *)
(* The C call stack is the variable "stack" (calls of ast_from_lexer and   *)
(* ast_parse_expr, each with a program point) with "calls" on top of it    *)
(* (pending calls of process_operation and of the destructors).  A step is *)
(* the code between two calls, or less.  Every string that the lexer       *)
(* cloned is an object, named by the index of its token; every AST node    *)
(* and function argument is an object, named by a number; pointers are     *)
(* these names, NULL, or Wild (a number or a character that the union      *)
(* Token.value makes look like a pointer).  The characters of names and    *)
(* the values of numbers are abstracted; a number is never 0.              *)
(*                                                                         *)
(* A dereference of NULL or Wild, a second deallocation of an object and a *)
(* failed ASSERT end the program: "fault" then says where.                 *)
(***************************************************************************)
EXTENDS Integers, Sequences, FiniteSets

CONSTANTS
  Inputs,    \* the token lists the program may be given
  FuncSlot   \* what the uninitialized local "func" may hold: see ScopeEnd

Operators == {"+", "-", "*", "/", "%", "^", "&", "|", "~", "!",
              "=", "<", ">", "?", ":"}

\* "keyword" stands for if, else and return, which the parser only rejects.
Keywords == {"def", "fn", "keyword"}
Identifiers == Keywords \cup {"ident"}

\* "other" stands for the tokens ast_parse_expr does not know: [ ] and dot.
TokenKinds == Operators \cup Identifiers \cup
  {"string", "num", "newline", "semicolon", "lparen", "rparen",
   "lbrace", "rbrace", "comma", "other"}

ASSUME InputsAssumption == Inputs \subseteq Seq(TokenKinds)
ASSUME FuncSlotAssumption == FuncSlot \subseteq {"null", "garbage", "stale"}

NULL == 0
Wild == -1

VARIABLES
  tokens,    \* lexer->tokens: the kind of every token
  ptr,       \* value.ptr of every token, as the parser would read it
  strings,   \* the cloned strings that are allocated
  nodes,     \* the AST nodes and function arguments that are allocated
  nextId,    \* the name of the next node
  pos,       \* *i, counted from the first token of the whole list
  stack,     \* the active calls of ast_from_lexer and ast_parse_expr
  ret,       \* the result of the call that returned last
  calls,     \* the pending calls of process_operation and destructors
  messages,  \* how many error Strings are allocated
  phase,     \* how far main is: "parse", "free", "exit"
  fault      \* where the program died, "none" while it has not

heap == <<ptr, strings, nodes, nextId>>
vars == <<tokens, heap, pos, stack, ret, calls, messages, phase, fault>>

-----------------------------------------------------------------------------
(* The values of the variables.                                            *)

NodeTypes == {"body", "decl", "scope", "func", "arg", "var", "string", "num",
              "oper"}

\* "own" holds the name, type and value pointers of a node.  "left", "right"
\* and "items" are its pointers to other nodes: left and right of an
\* operation, var and value of a declaration, scope and arguments of a
\* function, the body of a scope, the expressions of a body.  "op" is the
\* operator, "at" the token the node stands for.
NodeRecord ==
  [type : NodeTypes, op : Operators \cup {"none"}, at : Nat,
   wrapped : BOOLEAN, own : SUBSET Int, left : Nat, right : Nat,
   items : Seq(Nat)]

Node(type, at, own) ==
  [type |-> type, op |-> "none", at |-> at, wrapped |-> FALSE,
   own |-> own \ {NULL}, left |-> NULL, right |-> NULL, items |-> <<>>]

PCs == {"loop", "item", "start", "declName", "declMark", "declType",
        "declAssign", "declValue", "paren", "next", "operand", "settle",
        "funcName", "funcArgs", "scope", "scopeEnd"}

\* A call: "kw" is options->allowKeywords, "res" is result.expr (the ASTNode
\* in ast_from_lexer), "hi" the last token of the list being parsed, "close"
\* the closing brace of the scope being parsed.
FrameRecord == [pc : PCs, kw : BOOLEAN, res : Nat, hi : Nat, close : Nat]

Frame(pc, kw, res, hi) ==
  [pc |-> pc, kw |-> kw, res |-> res, hi |-> hi, close |-> 0]

\* The pointer that reading value.ptr of an untouched token gives.
PtrOf(k, kind) ==
  IF kind \in Identifiers \cup {"string"} THEN k
  ELSE IF kind \in Operators \cup {"num"} THEN Wild ELSE NULL

\* Where the program may die.
Faults == {"none", "name_printed", "type_read", "assign_printed", "paren_value",
           "paren_close", "null_operand", "args_end", "func_garbage",
           "value_printed", "arg_printed", "double_free", "wild_free"}

Nothing == [expr |-> NULL, error |-> FALSE]

Init ==
  /\ tokens \in Inputs
  /\ ptr = [k \in 1..Len(tokens) |-> PtrOf(k, tokens[k])]
  /\ strings = {k \in 1..Len(tokens) : PtrOf(k, tokens[k]) = k}
  /\ nodes = [n \in {1} |-> Node("body", 0, {})]
  /\ nextId = 2
  /\ pos = 1
  /\ stack = <<Frame("loop", FALSE, 1, Len(tokens))>>
  /\ ret = Nothing
  /\ calls = <<>>
  /\ messages = 0
  /\ phase = "parse"
  /\ fault = "none"

-----------------------------------------------------------------------------
(* Reading the tokens and moving between calls.                            *)

Top == stack[Len(stack)]
Token == tokens[pos]

\* The call on top goes on at pc: no destructor or process_operation is pending.
At(pc) ==
  /\ phase = "parse" /\ fault = "none" /\ calls = <<>>
  /\ stack # <<>> /\ Top.pc = pc
  /\ UNCHANGED <<tokens, phase>>

\* CHECK_BOUNDS_WERR(++(*i)): the token under the cursor is the last one.
LastToken == pos >= Top.hi

\* There is a next token, and it is one of kinds.
Follows(kinds) == ~LastToken /\ tokens[pos + 1] \in kinds

\* NEXT_TOKEN: the first token from p on that is no newline, hi + 1 if none.
NextToken(p, hi) ==
  CHOOSE q \in p..(hi + 1) :
    /\ q = hi + 1 \/ tokens[q] # "newline"
    /\ \A j \in p..(q - 1) : tokens[j] = "newline"

\* The loop that counts braces stops at q when it starts after a "{" at p - 1.
Closes(p, q) ==
  /\ tokens[q] = "rbrace"
  /\ Cardinality({j \in p..q : tokens[j] = "rbrace"})
       = Cardinality({j \in p..q : tokens[j] = "lbrace"}) + 1

\* validateName: a reserved word is invalid, an identifier is valid as the
\* lexer made it, and what is between quotes may be either.
ValidName(kind) ==
  IF kind = "ident" THEN {TRUE} ELSE IF kind = "string" THEN BOOLEAN ELSE {FALSE}

\* Going on in the same call.  What the last call returned has been stored
\* by now and is not read again.
Continue(frame, p) ==
  /\ stack' = [stack EXCEPT ![Len(stack)] = frame]
  /\ pos' = p
  /\ ret' = Nothing
  /\ UNCHANGED <<calls, messages, fault>>

\* A recursive call of ast_parse_expr; only ast_from_lexer allows keywords.
Call(frame, p) ==
  /\ stack' = Append([stack EXCEPT ![Len(stack)] = frame],
                     Frame("start", frame.pc = "item", NULL, frame.hi))
  /\ pos' = p
  /\ ret' = Nothing
  /\ UNCHANGED <<calls, messages, fault>>

Pop == SubSeq(stack, 1, Len(stack) - 1)

Return(e, p) ==
  /\ stack' = Pop
  /\ ret' = [expr |-> e, error |-> FALSE]
  /\ pos' = p
  /\ UNCHANGED <<calls, messages, fault>>

\* Calls of fn, made one after the other.
Calls(fn, ns) == [j \in DOMAIN ns |-> [fn |-> fn, node |-> ns[j]]]

\* Mutant: result.expr is destroyed but not set to NULL.
AbortKeepsResult(r) ==
  /\ stack' = Pop
  /\ ret' = [expr |-> r, error |-> TRUE]
  /\ calls' = Calls("destroy", <<r>>)
  /\ UNCHANGED <<pos, fault>>

\* Mutant: result.expr is not destroyed.
AbortLeaks(r) ==
  /\ stack' = Pop
  /\ ret' = [expr |-> NULL, error |-> TRUE]
  /\ UNCHANGED <<calls, pos, fault>>

\* goto err: result.expr is destroyed and the error String returned.  The
\* cursor is not read again after an error.
Abort(r) ==
  /\ stack' = Pop
  /\ ret' = [expr |-> NULL, error |-> TRUE]
  /\ calls' = Calls("destroy", <<r>>)
  /\ UNCHANGED <<pos, fault>>

\* ERROR and ERRORF make the String, ERROR_STR hands on the callee's.
Fail(r) == Abort(r) /\ messages' = messages + 1

\* Mutant: a String is made for the callee's error.
FailAnew(r) == Abort(r) /\ messages' = messages + 1

FailAgain(r) == Abort(r) /\ UNCHANGED messages

Crash(site) ==
  /\ fault' = site
  /\ UNCHANGED <<pos, stack, ret, calls, messages>>

With(ns, id, rec) ==
  [m \in DOMAIN ns \cup {id} |-> IF m = id THEN rec ELSE ns[m]]

\* Adds a node to ns, a change of the nodes there are.
New(ns, rec) == nodes' = With(ns, nextId, rec) /\ nextId' = nextId + 1

\* Mutant: the list drops the tokens.
StealTokens(S) ==
  /\ ptr' = [k \in DOMAIN ptr \ S |-> ptr[k]]
  /\ UNCHANGED strings

\* Mutant: the pointers are copied and not cleared.
StealCopies(S) == UNCHANGED <<ptr, strings>>

\* The parser takes the pointers of the tokens in S and clears them.
Steal(S) ==
  /\ ptr' = [k \in DOMAIN ptr |-> IF k \in S THEN NULL ELSE ptr[k]]
  /\ UNCHANGED strings

\* Mutant: the pointers are not stored in the node.
GiveNothing(n, pointers) == nodes

Give(n, pointers) ==
  [nodes EXCEPT ![n].own = @ \cup (pointers \ {NULL})]

-----------------------------------------------------------------------------
(* def name [: type] [= value]                                             *)

DeclStart ==
  /\ At("start") /\ Token = "def"
  /\ IF ~Top.kw \/ LastToken
       THEN Fail(NULL) /\ UNCHANGED heap
       ELSE /\ New(nodes, Node("decl", pos, {}))
            /\ Continue([Top EXCEPT !.pc = "declName", !.res = nextId], pos + 1)
            /\ UNCHANGED <<ptr, strings>>

\* The token that is no name is printed with %s, whatever it is.
DeclName ==
  /\ At("declName")
  /\ \/ /\ Token \notin Identifiers
        /\ IF ptr[pos] = Wild THEN Crash("name_printed") ELSE Fail(Top.res)
        /\ UNCHANGED heap
     \/ /\ Token \in Identifiers
        /\ New([nodes EXCEPT ![Top.res].left = nextId],
               Node("string", pos, {ptr[pos]}))
        /\ Steal({pos})
        /\ IF Token \in Keywords \/ LastToken
             THEN Fail(Top.res)
             ELSE Continue([Top EXCEPT !.pc = "declMark"], pos + 1)

DeclMark ==
  /\ At("declMark")
  /\ UNCHANGED heap
  /\ IF Token \notin Operators \/ (Token = ":" /\ LastToken)
       THEN Fail(Top.res)
     ELSE IF Token = ":"
       THEN Continue([Top EXCEPT !.pc = "declType"], pos + 1)
       ELSE Continue([Top EXCEPT !.pc = "declAssign"], pos)

\* The type is whatever token follows; validateName reads its characters.
DeclType ==
  /\ At("declType")
  /\ \/ /\ ptr[pos] \in {NULL, Wild}
        /\ Crash("type_read") /\ UNCHANGED heap
     \/ /\ ptr[pos] \notin {NULL, Wild}
        /\ nodes' = Give(Top.res, {ptr[pos]})
        /\ Steal({pos})
        /\ UNCHANGED nextId
        /\ \E valid \in ValidName(Token) :
             IF ~valid THEN Fail(Top.res)
             ELSE IF LastToken \/ Follows({"semicolon", "newline"})
               THEN Return(Top.res, pos + 1)
               ELSE Continue([Top EXCEPT !.pc = "declAssign"], pos + 1)

\* The token that is not "=" is printed with %c of *value.ptr.
DeclAssign ==
  /\ At("declAssign")
  /\ UNCHANGED heap
  /\ IF Token # "="
       THEN IF ptr[pos] \in {NULL, Wild} THEN Crash("assign_printed")
            ELSE Fail(Top.res)
     ELSE IF LastToken THEN Fail(Top.res)
     ELSE Call([Top EXCEPT !.pc = "declValue"], pos + 1)

DeclValue ==
  /\ At("declValue")
  /\ nodes' = [nodes EXCEPT ![Top.res].right = ret.expr]
  /\ UNCHANGED <<ptr, strings, nextId>>
  /\ IF ret.error THEN FailAgain(Top.res)
     ELSE IF pos <= Top.hi /\ Token \notin {"semicolon", "newline"}
       THEN Fail(Top.res)
       ELSE Return(Top.res, pos)

-----------------------------------------------------------------------------
(* Names, literals, parentheses and operations.                            *)

\* Mutant: the cursor does not advance.
SkipNothing ==
  /\ At("start")
  /\ Token \in {"newline", "semicolon", "rbrace", "comma", "other"}
  /\ Return(NULL, pos)
  /\ UNCHANGED heap

\* Separators, and the tokens that are reported as unknown and passed over.
SkipToken ==
  /\ At("start")
  /\ Token \in {"newline", "semicolon", "rbrace", "comma", "other"}
  /\ Return(NULL, pos + 1)
  /\ UNCHANGED heap

\* No caller sets allowOps.
RejectToken ==
  /\ At("start")
  /\ Token \in Operators \cup {"keyword", "rparen"}
  /\ Fail(NULL)
  /\ UNCHANGED heap

Variable ==
  /\ At("start") /\ Token = "ident"
  /\ New(nodes, Node("var", pos, {ptr[pos]}))
  /\ Steal({pos})
  /\ IF LastToken \/ Follows({"newline", "semicolon"})
       THEN Return(nextId, pos + 1)
     ELSE IF Follows(Operators)
       THEN Continue([Top EXCEPT !.pc = "next", !.res = nextId], pos + 1)
       ELSE Fail(nextId)

\* Mutants: the bounds are off by one; the token is passed over; the last
\* token is looked at again.
ThenLate(r, p) ==
  IF p > Top.hi + 1 THEN Return(r, p)
  ELSE Continue([Top EXCEPT !.pc = "next", !.res = r], p)

ThenSkip(r, p) ==
  IF p >= Top.hi THEN Return(r, Top.hi + 1)
  ELSE Continue([Top EXCEPT !.pc = "next", !.res = r], p + 1)

ThenBack(r, p) == Continue([Top EXCEPT !.pc = "next", !.res = r], p - 1)

\* "if (!CHECK_BOUNDS_CAN_EOF(++(*i))) goto next; goto end;"
ThenNext(r, p) ==
  IF p > Top.hi THEN Return(r, p)
  ELSE Continue([Top EXCEPT !.pc = "next", !.res = r], p)

Literal ==
  /\ At("start") /\ Token \in {"string", "num"}
  /\ New(nodes, Node(Token, pos, IF Token = "string" THEN {ptr[pos]} ELSE {}))
  /\ Steal(IF Token = "string" THEN {pos} ELSE {})
  /\ ThenNext(nextId, pos + 1)

ParenOpen ==
  /\ At("start") /\ Token = "lparen"
  /\ UNCHANGED heap
  /\ LET q == NextToken(pos + 1, Top.hi)
     IN  IF q > Top.hi THEN Fail(NULL)
         ELSE IF tokens[q] = "rparen" THEN ThenNext(NULL, q + 1)
         ELSE Call([Top EXCEPT !.pc = "paren"], q)

\* Neither the missing expression nor the missing ")" is tested for NULL.
ParenClose ==
  /\ At("paren")
  /\ UNCHANGED <<ptr, strings, nextId>>
  /\ \/ /\ ret.error
        /\ FailAgain(NULL) /\ UNCHANGED nodes
     \/ /\ ~ret.error /\ ret.expr = NULL
        /\ Crash("paren_value") /\ UNCHANGED nodes
     \/ /\ ~ret.error /\ ret.expr # NULL
        /\ nodes' = [nodes EXCEPT ![ret.expr].wrapped = (nodes[ret.expr].type = "oper")]
        /\ LET q == NextToken(pos, Top.hi)
           IN  IF q > Top.hi THEN Crash("paren_close")
               ELSE IF tokens[q] # "rparen" THEN Fail(ret.expr)
               ELSE ThenNext(ret.expr, q + 1)

\* The label next: an operator takes what was parsed as its left operand.
NextLabel ==
  /\ At("next")
  /\ \/ /\ Token \notin Operators
        /\ Return(Top.res, pos) /\ UNCHANGED heap
     \/ /\ Token \in Operators
        /\ New(nodes, [Node("oper", pos, {}) EXCEPT !.op = Token,
                                                    !.left = Top.res])
        /\ UNCHANGED <<ptr, strings>>
        /\ LET q == NextToken(pos + 1, Top.hi)
           IN  IF q > Top.hi THEN Fail(nextId)
               ELSE Call([Top EXCEPT !.pc = "operand", !.res = nextId], q)

Operand ==
  /\ At("operand")
  /\ UNCHANGED <<ptr, strings, nextId>>
  /\ nodes' = [nodes EXCEPT ![Top.res].right = ret.expr]
  /\ \/ ret.error /\ FailAgain(Top.res)
     \/ /\ ~ret.error
        /\ stack' = [stack EXCEPT ![Len(stack)].pc = "settle"]
        /\ calls' = Calls("process_operation", <<Top.res>>)
        /\ ret' = Nothing
        /\ UNCHANGED <<pos, messages, fault>>

Settle ==
  /\ At("settle")
  /\ Return(Top.res, pos)
  /\ UNCHANGED heap

-----------------------------------------------------------------------------
(* fn name(arg type, ...) type, then ";" or a scope                        *)

\* "fn" is parsed as an operand too: allowKeywords is not looked at.
FuncStart ==
  /\ At("start") /\ Token = "fn"
  /\ IF LastToken
       THEN Fail(NULL) /\ UNCHANGED heap
       ELSE /\ New(nodes, Node("func", pos, {}))
            /\ Continue([Top EXCEPT !.pc = "funcName", !.res = nextId], pos + 1)
            /\ UNCHANGED <<ptr, strings>>

FuncName ==
  /\ At("funcName")
  /\ UNCHANGED nextId
  /\ \/ /\ Token \notin Identifiers
        /\ Fail(Top.res) /\ UNCHANGED <<ptr, strings, nodes>>
     \/ /\ Token \in Identifiers
        /\ nodes' = Give(Top.res, {ptr[pos]})
        /\ Steal({pos})
        /\ IF Token \in Keywords \/ ~Follows({"lparen"})
             THEN Fail(Top.res)
             ELSE LET q == NextToken(pos + 2, Top.hi)
                  IN  IF q > Top.hi THEN Crash("args_end")
                      ELSE Continue([Top EXCEPT !.pc = "funcArgs"], q)

\* One turn of the loop over the arguments; the type is whatever token follows.
FuncArg ==
  /\ At("funcArgs") /\ Token # "rparen"
  /\ \/ /\ Token \notin Identifiers \ Keywords
        /\ Fail(Top.res) /\ UNCHANGED heap
     \/ /\ Token \in Identifiers \ Keywords
        /\ LET taken == IF LastToken THEN {pos} ELSE {pos, pos + 1}
           IN  /\ Steal(taken)
               /\ New([nodes EXCEPT ![Top.res].items = Append(@, nextId)],
                      Node("arg", pos, {ptr[k] : k \in taken}))
        /\ IF LastToken THEN Fail(Top.res)
           ELSE LET q == NextToken(pos + 2, Top.hi)
                IN  IF q > Top.hi \/ (tokens[q] = "comma" /\ q = Top.hi)
                      THEN Fail(Top.res)
                    ELSE IF tokens[q] # "comma"
                      THEN Continue(Top, q)
                    ELSE IF tokens[q + 1] \in Identifiers
                      THEN Continue(Top, q + 1)
                      ELSE Fail(Top.res)

FuncReturn ==
  /\ At("funcArgs") /\ Token = "rparen"
  /\ UNCHANGED nextId
  /\ \/ /\ ~Follows(Identifiers)
        /\ Fail(Top.res) /\ UNCHANGED <<ptr, strings, nodes>>
     \/ /\ Follows(Identifiers)
        /\ nodes' = Give(Top.res, {ptr[pos + 1]})
        /\ Steal({pos + 1})
        /\ IF tokens[pos + 1] \in Keywords \/ pos + 1 = Top.hi
             THEN Fail(Top.res)
           ELSE IF tokens[pos + 2] = "semicolon"
             THEN Return(Top.res, pos + 2)
           ELSE IF tokens[pos + 2] = "lbrace"
             THEN Continue([Top EXCEPT !.pc = "scope"], pos + 2)
             ELSE Fail(Top.res)

-----------------------------------------------------------------------------
(* { ... }                                                                 *)

\* The scope's tokens are parsed as a list of their own, up to the closing
\* brace.
ScopeOpen ==
  /\ At("scope") \/ (At("start") /\ Token = "lbrace")
  /\ UNCHANGED <<ptr, strings>>
  /\ \/ /\ \A q \in pos + 1..Top.hi : ~Closes(pos + 1, q)
        /\ Fail(Top.res)
        /\ UNCHANGED <<nodes, nextId>>
     \/ \E q \in pos + 1..Top.hi :
        /\ Closes(pos + 1, q)
        /\ \A j \in pos + 1..q - 1 : ~Closes(pos + 1, j)
        /\ New(nodes, Node("body", pos, {}))
        /\ stack' = Append([stack EXCEPT ![Len(stack)].pc = "scopeEnd",
                                         ![Len(stack)].close = q],
                           Frame("loop", FALSE, nextId, q - 1))
        /\ pos' = pos + 1
        /\ ret' = Nothing
        /\ UNCHANGED <<calls, messages, fault>>

Items(n) == {nodes[n].items[j] : j \in DOMAIN nodes[n].items}

\* A function gets its scope by "if (func != NULL) goto func_scope".  A scope
\* that is no function's came here by a goto past the initialization of func,
\* so that func is what is in its place on the C stack: NULL, a number that
\* is no address, or what an earlier turn of the same loop left there, a
\* function that is an item of the body already.
ScopeEnd ==
  /\ At("scopeEnd")
  /\ UNCHANGED <<ptr, strings>>
  /\ \/ /\ ret.expr = NULL
        /\ Fail(Top.res) /\ UNCHANGED <<nodes, nextId>>
     \/ /\ ret.expr # NULL
        /\ LET Scope == [Node("scope", Top.close, {}) EXCEPT !.left = ret.expr]
               Adopt(func) ==
                 /\ New([nodes EXCEPT ![func].left = nextId], Scope)
                 /\ Return(func, Top.close + 1)
           IN  \/ Top.res # NULL /\ Adopt(Top.res)
               \/ /\ Top.res = NULL /\ "null" \in FuncSlot
                  /\ New(nodes, Scope)
                  /\ Return(nextId, Top.close + 1)
               \/ /\ Top.res = NULL /\ "garbage" \in FuncSlot
                  /\ Crash("func_garbage") /\ UNCHANGED <<nodes, nextId>>
               \/ /\ Top.res = NULL /\ "stale" \in FuncSlot
                  /\ stack[Len(stack) - 1].pc = "item"
                  /\ \E f \in DOMAIN nodes \cap Items(stack[Len(stack) - 1].res) :
                       nodes[f].type = "func" /\ Adopt(f)

-----------------------------------------------------------------------------
(* ast_from_lexer                                                          *)

BodyNext ==
  /\ At("loop")
  /\ IF pos > Top.hi THEN Return(Top.res, pos)
     ELSE Call([Top EXCEPT !.pc = "item"], pos)
  /\ UNCHANGED heap

\* An error is printed, the String cleared and what there is of the body
\* destroyed: to the caller the body is NULL.
BodyItem ==
  /\ At("item")
  /\ UNCHANGED <<ptr, strings, nextId>>
  /\ \/ /\ ret.error
        /\ messages' = messages - 1
        /\ calls' = Calls("destroy", <<Top.res>>)
        /\ stack' = Pop
        /\ ret' = Nothing
        /\ UNCHANGED <<nodes, pos, fault>>
     \/ /\ ~ret.error
        /\ nodes' = IF ret.expr = NULL THEN nodes
                    ELSE [nodes EXCEPT ![Top.res].items = Append(@, ret.expr)]
        /\ Continue([Top EXCEPT !.pc = "loop"], pos)

-----------------------------------------------------------------------------
(* process_operation                                                       *)

OPS_ORDERED_LIST == <<"!", "~", "*", "/", "%", "+", "-", "&", "^", "|">>

\* An operator that is not in the list comes before all that are.
OP_PRIORITY(op) ==
  IF \E i \in DOMAIN OPS_ORDERED_LIST : OPS_ORDERED_LIST[i] = op
    THEN (CHOOSE i \in DOMAIN OPS_ORDERED_LIST : OPS_ORDERED_LIST[i] = op) - 1
    ELSE -1

\* Mutant: the row of + and - is forgotten.
isLeftToRightFactor(op1, op2) == {op1, op2} \subseteq {"*", "/", "%"}

isLeftToRightPr(op1, op2) ==
  {op1, op2} \subseteq {"*", "/", "%"} \/ {op1, op2} \subseteq {"+", "-"}

\* Mutants: right keeps its operands; left keeps its right one.
RotateOperators(n, r) ==
  LET left == nodes[n]
      right == nodes[r]
  IN  [nodes EXCEPT
        ![n] = [left EXCEPT !.op = right.op, !.at = right.at,
                            !.left = r, !.right = left.left],
        ![r] = [right EXCEPT !.op = left.op, !.at = left.at]]

RotateTwice(n, r) ==
  LET left == nodes[n]
      right == nodes[r]
  IN  [nodes EXCEPT
        ![n] = [left EXCEPT !.op = right.op, !.at = right.at, !.left = r],
        ![r] = [right EXCEPT !.op = left.op, !.at = left.at,
                             !.left = left.left, !.right = right.left]]

\* The operation nodes[n] and its right operand r, rebuilt: a * (b + c)
\* becomes (a * b) + c.
Rotate(n, r) ==
  LET left == nodes[n]
      right == nodes[r]
  IN  [nodes EXCEPT
        ![n] = [left EXCEPT !.op = right.op, !.at = right.at,
                            !.left = r, !.right = right.right],
        ![r] = [right EXCEPT !.op = left.op, !.at = left.at,
                             !.left = left.left, !.right = right.left]]

Closed(n) == nodes[n].type # "oper" \/ nodes[n].wrapped

Pending(fn) ==
  /\ fault = "none" /\ calls # <<>> /\ Head(calls).fn = fn
  /\ UNCHANGED <<tokens, phase>>

\* A call of process_operation has returned when its two calls have.
process_operation ==
  /\ Pending("process_operation")
  /\ UNCHANGED <<ptr, strings, nextId>>
  /\ LET n == Head(calls).node
         r == nodes[n].right
     IN  \/ /\ n \in DOMAIN nodes => ~Closed(n) /\ r \notin DOMAIN nodes
            /\ Crash("null_operand") /\ UNCHANGED nodes
         \/ /\ n \in DOMAIN nodes
            /\ Closed(n) \/ (r \in DOMAIN nodes /\ Closed(r))
            /\ calls' = Tail(calls)
            /\ UNCHANGED <<nodes, pos, stack, ret, messages, fault>>
         \/ /\ n \in DOMAIN nodes /\ ~Closed(n)
            /\ r \in DOMAIN nodes /\ ~Closed(r)
            /\ nodes' = IF \/ OP_PRIORITY(nodes[n].op) < OP_PRIORITY(nodes[r].op)
                           \/ isLeftToRightPr(nodes[n].op, nodes[r].op)
                          THEN Rotate(n, r) ELSE nodes
            /\ calls' = Calls("process_operation",
                              <<nodes'[n].left, nodes'[n].right>>) \o Tail(calls)
            /\ UNCHANGED <<pos, stack, ret, messages, fault>>

-----------------------------------------------------------------------------
(* The destructors and main.                                               *)

\* The destructor of a node frees its pointers and itself and calls those of
\* the nodes it points to that are not NULL; the order is immaterial.
DestroyNode ==
  /\ Pending("destroy")
  /\ UNCHANGED <<ptr, nextId>>
  /\ LET n == Head(calls).node
     IN  \/ /\ n = NULL
            /\ calls' = Tail(calls)
            /\ UNCHANGED <<nodes, strings, pos, stack, ret, messages, fault>>
         \/ /\ n # NULL /\ n \notin DOMAIN nodes
            /\ Crash("double_free") /\ UNCHANGED <<nodes, strings>>
         \/ /\ n \in DOMAIN nodes /\ ~(nodes[n].own \subseteq strings)
            /\ Crash(IF Wild \in nodes[n].own THEN "wild_free" ELSE "double_free")
            /\ UNCHANGED <<nodes, strings>>
         \/ /\ n \in DOMAIN nodes /\ nodes[n].own \subseteq strings
            /\ nodes' = [m \in DOMAIN nodes \ {n} |-> nodes[m]]
            /\ strings' = strings \ nodes[n].own
            /\ calls' = Calls("destroy", <<nodes[n].left, nodes[n].right>>
                                           \o nodes[n].items) \o Tail(calls)
            /\ UNCHANGED <<pos, stack, ret, messages, fault>>

\* ast_print reads the value of every declaration, and the name and the type
\* of every argument.  (In this model all nodes there are: those outside the
\* tree belong to a function that is about to be destroyed twice.)
Unprintable ==
  {n \in DOMAIN nodes : \/ nodes[n].type = "decl" /\ nodes[n].right = NULL
                        \/ nodes[n].type = "arg" /\ Wild \in nodes[n].own}

\* main: ast_print and ast_node_destroy, unless the parser returned NULL.
PrintAst ==
  /\ phase = "parse" /\ fault = "none" /\ stack = <<>> /\ calls = <<>>
  /\ UNCHANGED <<tokens, heap, pos, stack, messages>>
  /\ \/ \E n \in Unprintable :
        /\ ret.expr # NULL
        /\ fault' = IF nodes[n].type = "decl" THEN "value_printed"
                                              ELSE "arg_printed"
        /\ UNCHANGED <<ret, calls, phase>>
     \/ /\ ret.expr = NULL \/ Unprintable = {}
        /\ calls' = Calls("destroy", <<ret.expr>>)
        /\ ret' = Nothing
        /\ phase' = "free"
        /\ UNCHANGED fault

\* lexer_free: a pointer that is NULL was taken by the parser.  The tokens
\* themselves go as well.
LexerFree ==
  /\ phase = "free" /\ fault = "none" /\ calls = <<>>
  /\ UNCHANGED <<tokens, nodes, nextId, pos, stack, ret, calls, messages>>
  /\ LET left == {ptr[k] : k \in {k \in DOMAIN ptr :
                    tokens[k] \in Identifiers \cup {"string"}}} \ {NULL}
     IN  \/ /\ ~(left \subseteq strings)
            /\ fault' = "double_free" /\ UNCHANGED <<ptr, strings, phase>>
         \/ /\ left \subseteq strings
            /\ strings' = strings \ left
            /\ ptr' = [k \in DOMAIN ptr |-> NULL]
            /\ phase' = "exit" /\ UNCHANGED fault

Stop == (phase = "exit" \/ fault # "none") /\ UNCHANGED vars

Next ==
  \/ DeclStart \/ DeclName \/ DeclMark \/ DeclType \/ DeclAssign \/ DeclValue
  \/ SkipToken \/ RejectToken \/ Variable \/ Literal
  \/ ParenOpen \/ ParenClose \/ NextLabel \/ Operand \/ Settle
  \/ FuncStart \/ FuncName \/ FuncArg \/ FuncReturn
  \/ ScopeOpen \/ ScopeEnd \/ BodyNext \/ BodyItem
  \/ process_operation \/ DestroyNode \/ PrintAst \/ LexerFree \/ Stop

Spec == Init /\ [][Next]_vars

\* One thread runs the program: it takes a step whenever it can.
FairSpec == Spec /\ WF_vars(Next)

-----------------------------------------------------------------------------
(* Invariants.                                                             *)

\* The variables have their types, and every pointer that was read from a
\* token is that token's string, NULL or no pointer at all (ast.h, lexer.h).
TypeOK ==
  /\ tokens \in Seq(TokenKinds)
  /\ ptr \in [1..Len(tokens) -> Int]
  /\ \A k \in 1..Len(tokens) : ptr[k] \in {NULL, Wild, k}
  /\ strings \subseteq 1..Len(tokens)
  /\ DOMAIN nodes \subseteq Nat \ {NULL}
  /\ nodes \in [DOMAIN nodes -> NodeRecord]
  /\ nextId \in Nat \ {NULL}
  /\ pos \in Nat \ {0}
  /\ stack \in Seq(FrameRecord)
  /\ ret \in [expr : Nat, error : BOOLEAN]
  /\ calls \in Seq([fn : {"process_operation", "destroy"}, node : Nat])
  /\ messages \in Int
  /\ phase \in {"parse", "free", "exit"}
  /\ fault \in Faults

\* At these points of ast_parse_expr the token under the cursor is read.
Reading == {"start", "declName", "declMark", "declType", "declAssign", "next",
            "funcName", "funcArgs", "scope"}

\* At these points a call waits for another, or has just been answered.
Waiting == {"item", "declValue", "paren", "operand", "scopeEnd"}

\* The cursor never runs past the end of the list that is being parsed, nor,
\* in a scope, past its closing brace: no check of the bounds is missing and
\* NEXT_TOKEN and scope_expr leave *i where the caller may read on.
CursorInWindow ==
  /\ \A d \in 1..Len(stack) : stack[d].hi <= Len(tokens)
  /\ \A d \in 1..Len(stack) - 1 :
       stack[d].pc \in Waiting /\ stack[d + 1].hi <= stack[d].hi
  /\ \A d \in 1..Len(stack) :
       stack[d].pc = "scopeEnd" => stack[d].close \in 1..stack[d].hi
  /\ stack # <<>> => pos <= Top.hi + 1
  /\ stack # <<>> /\ Top.pc \in Reading => pos <= Top.hi

\* Every string is freed at most once: nobody holds a string that is gone,
\* and no two of the tokens and nodes hold the same (ast.c:320: the parser
\* clears the token's pointer when it takes the string).
StringsNotShared ==
  /\ \A k \in DOMAIN ptr : ptr[k] \in strings \cup {NULL, Wild}
  /\ \A n \in DOMAIN nodes : nodes[n].own \subseteq strings \cup {Wild}
  /\ \A n \in DOMAIN nodes, k \in DOMAIN ptr : ptr[k] \in nodes[n].own => ptr[k] = Wild
  /\ \A m, n \in DOMAIN nodes : m # n => nodes[m].own \cap nodes[n].own \subseteq {Wild}

\* Every string that is allocated is held by its token or by a node, so that
\* somebody will free it.
StringsNotLost ==
  \A k \in strings : ptr[k] = k \/ \E n \in DOMAIN nodes : k \in nodes[n].own

\* The places that own node n: other nodes, the results of the calls under
\* way, the result that is being handed over, the pending destructors.
Owners(n) ==
  {<<"left", m>> : m \in {m \in DOMAIN nodes : nodes[m].left = n}}
  \cup {<<"right", m>> : m \in {m \in DOMAIN nodes : nodes[m].right = n}}
  \cup (UNION {{<<"item", m, j>> : j \in {j \in DOMAIN nodes[m].items :
                                            nodes[m].items[j] = n}} :
               m \in DOMAIN nodes})
  \cup {<<"frame", d>> : d \in {d \in DOMAIN stack : stack[d].res = n}}
  \cup {<<"call", j>> : j \in {j \in DOMAIN calls :
                                 calls[j].fn = "destroy" /\ calls[j].node = n}}
  \cup (IF ret.expr = n THEN {<<"ret">>} ELSE {})

\* Every node has exactly one owner, from its constructor to its destructor,
\* on every error path too; and nothing points to a node that is gone.
NodesOwnedOnce ==
  /\ \A n \in DOMAIN nodes : Cardinality(Owners(n)) = 1
  /\ \A n \in DOMAIN nodes :
       {nodes[n].left, nodes[n].right} \cup Items(n) \subseteq DOMAIN nodes \cup {NULL}
  /\ \A d \in DOMAIN stack : stack[d].res \in DOMAIN nodes \cup {NULL}
  /\ ret.expr \in DOMAIN nodes \cup {NULL}

\* Whatever the input, a program that gets to its end has returned all of its
\* memory: the nodes, the strings, the error Strings and the scope lexers
\* (jcontext.c:22, "runtime memory was not deallocated infully?!").
MemoryReturned ==
  phase = "exit" => nodes = <<>> /\ strings = {} /\ messages = 0

\* While a parse error unwinds the calls exactly one error String is alive,
\* however many scopes it is printed and made anew in; otherwise none is.
ErrorsAccounted == fault = "none" => messages = IF ret.error THEN 1 ELSE 0

\* The nodes below n, and n.
Tree(n) ==
  LET Below[d \in Nat] ==
        IF d = 0 THEN {n} \ {NULL}
        ELSE LET S == Below[d - 1]
             IN  (S \cup UNION {Items(m) \cup {nodes[m].left, nodes[m].right} : m \in S})
                   \ {NULL}
  IN  Below[Cardinality(DOMAIN nodes)]

\* The operations that have both operands and that no call is rebuilding.
Operations ==
  IF calls # <<>> THEN {}
  ELSE {n \in DOMAIN nodes : nodes[n].type = "oper" /\ nodes[n].right # NULL}

\* Whatever process_operation moves around, an operation keeps its left
\* operand to its left and its right operand to its right in the source.
SourceOrder ==
  \A n \in Operations :
    /\ \A m \in Tree(nodes[n].left) : nodes[m].at < nodes[n].at
    /\ \A m \in Tree(nodes[n].right) : nodes[m].at > nodes[n].at

\* The operators from those that bind tightest to those that bind loosest.
Rows == <<{"=", "<", ">", "?", ":"}, {"!"}, {"~"}, {"*", "/", "%"}, {"+", "-"},
          {"&"}, {"^"}, {"|"}>>

Row(op) == CHOOSE i \in DOMAIN Rows : op \in Rows[i]

\* Every expression ends up in the shape the priorities ask for: an operand
\* without parentheses binds at least as tight as its operation; in one row
\* * / % and + - group to the left, the others to the right (ast.c:199,
\* "a * b + c would be a * (b + c), turn it into (a * b) + c").
OperatorsSettled ==
  \A n \in Operations :
    LET l == nodes[n].left
        r == nodes[n].right
        row == Row(nodes[n].op)
        toTheLeft == Rows[row] \in {{"*", "/", "%"}, {"+", "-"}}
    IN  /\ l \in DOMAIN nodes /\ ~Closed(l) =>
             Row(nodes[l].op) < row \/ (Row(nodes[l].op) = row /\ toTheLeft)
        /\ ~Closed(r) =>
             Row(nodes[r].op) < row \/ (Row(nodes[r].op) = row /\ ~toTheLeft)

\* A program that is accepted is in the tree with every name and string it
\* has: of the tokens with a string only def and fn may still hold theirs (they do
\* unless they were taken for the type of an argument, which is any token).  A
\* mark in a wrong place, "}" or ",", is passed over and not counted here.
NothingDropped ==
  phase = "parse" /\ stack = <<>> /\ calls = <<>> /\ fault = "none"
    /\ ret.expr # NULL =>
      \A k \in DOMAIN tokens :
        tokens[k] \in Identifiers \cup {"string"} /\ ptr[k] = k =>
          tokens[k] \in {"def", "fn"}

\* No string is taken from a token twice, and none is taken from a token that
\* the cursor will see again: while nothing has failed, every token from the
\* cursor on is as the lexer left it.
FreshTokens ==
  /\ phase = "parse" /\ fault = "none" /\ calls = <<>>
  /\ stack # <<>> /\ ~ret.error /\ ~(Top.pc = "scopeEnd" /\ ret.expr = NULL)
  => \A k \in pos..Len(tokens) : ptr[k] = PtrOf(k, tokens[k])

-----------------------------------------------------------------------------
(* A grammar of expressions, next to the parser.                           *)

\* How many parentheses are open before the k-th token.
Depth(k) ==
  LET Count(kind) == Cardinality({j \in 1..k - 1 : tokens[j] = kind})
  IN  Count("lparen") - Count("rparen")

\* The kind of the token after the k-th that is no line break.
After(k) ==
  LET Later == {j \in k + 1..Len(tokens) : tokens[j] # "newline"}
  IN  IF Later = {} THEN "end"
      ELSE tokens[CHOOSE j \in Later : \A m \in Later : j <= m]

Before(k) == IF k = 1 THEN "start" ELSE tokens[k - 1]
Behind(k) == IF k = Len(tokens) THEN "end" ELSE tokens[k + 1]

\* What may be next to each token, so that a list of numbers, operators,
\* parentheses and separators is a list of expressions: an operation has two
\* operands and its operator directly behind the first; inside parentheses a
\* line may break only behind an operator or next to a parenthesis.
Grammatical(k) ==
  LET kind == tokens[k]
  IN  /\ kind \in Operators =>
           /\ Before(k) \in {"num", "rparen"}
           /\ After(k) \in {"num", "lparen"}
      /\ kind = "lparen" => After(k) \in {"num", "lparen"}
      /\ kind \in {"num", "rparen"} /\ Depth(k + 1) > 0 =>
           Behind(k) \in Operators \/ After(k) = "rparen"
      /\ kind = "rparen" => Depth(k) > 0
      /\ kind = "semicolon" => Depth(k) = 0

IsExpressionList ==
  /\ \A k \in DOMAIN tokens : Grammatical(k)
  /\ Depth(Len(tokens) + 1) = 0

\* The parser accepts exactly the lists that the grammar has: none of the
\* checks that decide where an expression ends is missing or too strict, and
\* no crash on a missing operand, a missing expression or a missing ")" can
\* happen to a program that is right (ast.c:186, 489-530, 549-586).  Not so for
\* "()": alone it is passed over, as a left operand it may be printed as nothing
\* or end the program.
AcceptsExpressions ==
  /\ \A k \in DOMAIN tokens :
       /\ tokens[k] \in Operators \cup {"num", "lparen", "rparen", "newline", "semicolon"}
       /\ tokens[k] = "lparen" => After(k) # "rparen"
  /\ phase = "parse"
  /\ fault # "none" \/ (stack = <<>> /\ calls = <<>>)
  => (IsExpressionList <=> fault = "none" /\ ret.expr # NULL)

\* A few declarations and functions as a program should write them: a value of
\* one operand or two, up to two arguments, a scope of up to one expression.
Values ==
  LET Operand1 == {<<"num">>, <<"ident">>, <<"string">>}
  IN  Operand1 \cup {l \o <<op>> \o r : l \in Operand1, op \in {"+", "*"}, r \in Operand1}

Declarations ==
  {<<"def", "ident">> \o type \o <<"=">> \o value :
     type \in {<<>>, <<":", "ident">>}, value \in Values}

Functions ==
  LET Argument == <<"ident", "ident">>
      Arguments == {<<>>, Argument, Argument \o <<"comma">> \o Argument}
      Ends == {<<"semicolon">>, <<"lbrace", "rbrace">>, <<"lbrace", "ident", "rbrace">>}
  IN  {<<"fn", "ident", "lparen">> \o arguments \o <<"rparen", "ident">> \o end :
         arguments \in Arguments, end \in Ends}

Statements ==
  {s \o separator : s \in Declarations \cup Functions,
                    separator \in {<<>>, <<"newline">>, <<"semicolon">>}}

\* A well-formed statement is accepted and printed: it meets none of the places
\* where a token that is something else would be read as a pointer, or a result
\* that is missing be dereferenced (ast.c:314, 357, 391, 624, 647, 997).
AcceptsStatements ==
  tokens \in Statements =>
    /\ fault = "none"
    /\ phase = "parse" /\ stack = <<>> /\ calls = <<>> => ret.expr # NULL

-----------------------------------------------------------------------------
(* Refinement.                                                             *)

\* Who frees a string: the token that still points to it, the node that does,
\* or nobody any more.
holder ==
  [k \in {k \in DOMAIN tokens : PtrOf(k, tokens[k]) = k} |->
     IF k \notin strings THEN "nobody"
     ELSE IF ptr[k] = k THEN "lexer" ELSE "parser"]

Promise == INSTANCE Custody WITH holder <- holder

\* The parser keeps the promise of Custody: a string that it has taken never
\* goes back to its token, and when lexer_free runs the tree is gone with all
\* of its strings (ast.c:320, "prevent free if lexer is destroyed b4 ast is
\* done"; lexer.c:69, "if it is null, it means AST copied it").
StringsInCustody == Promise!Spec

-----------------------------------------------------------------------------
(* Liveness.                                                               *)

\* The program comes to an end on every input: neither a loop over the tokens
\* nor the recursion goes on for ever.
Termination == <>(phase = "exit" \/ fault # "none")

-----------------------------------------------------------------------------
(* What the messages of the code promise and the code does not keep.       *)

\* No object is deallocated twice (jruntime.c:44, "_dealloc called twice?").
NoSecondFree == fault # "double_free"

\* A mistake that the parser has a message for is reported, and does not kill
\* it: a "(" that is never closed (ast.c:518 and 520, "missing expression
\* terminator ')'"; 622, "function args list was not closed (add ')'"), a "("
\* or an operator without what belongs behind it (495, "missing expression
\* after ("; 566, "missing operation right value"), and something else where a
\* name (313, "expected identifier after 'def', got %s"), a type (350, 644,
\* "expected type for function arg") or a "=" (390) has to be.
MistakesReported ==
  fault \notin {"paren_close", "args_end", "paren_value", "null_operand",
                "name_printed", "type_read", "assign_printed", "arg_printed",
                "wild_free"}

\* A declaration with a type and no value can be printed: the parser accepts
\* it, and objects only to one that has neither (ast.c:335, "def expression
\* was used without a variable value or type").
TypedDeclarationPrinted == fault # "value_printed"

=============================================================================
