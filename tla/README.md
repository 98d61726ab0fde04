# A TLA+ model of jacv

jacv is a toy language: one sequential C program that reads `test.jacv`, cuts it
into tokens, parses them into a tree, prints the tree and frees everything.  No
part of it runs concurrently and nothing is persisted.  What makes it hard is
ownership and control flow: strings change owner while the parser runs, every
step of a recursive parser may fail and must then free exactly what it has built,
the bounds of the token list are checked by four macros that differ by one, and
expressions are regrouped by a second pass that moves pointers.  Below the parser
lie hand-made containers (a growable array, a linked list, a string with two
representations), an allocator that checks itself with one of them, and a lexer
that decides one character ahead.  The model is about that.

Line numbers refer to the files under `src/`, so `ast.c:320` is
`src/src/ast.c:320`.

## Inventory

| component | state | operations | what makes it correct |
|---|---|---|---|
| parser (`ast.c:217-820`) | the cursor `*i`, `result.expr`, the C call stack, the tokens' pointers | `ast_from_lexer`, `ast_parse_expr` (declarations, functions, scopes, names, literals, parentheses, operations), `process_operation` | stays inside its token list; takes each string once; one owner per node; no name or string of an accepted program is dropped (a stray `}`, `,`, `[`, `]`, `.` or `()` is passed over); precedence and source order; always ends |
| AST nodes (`ast.c:898-1112`, `ast.h`) | the tree | constructors, destructors, dump functions | a tree; every node and string freed once; what is printed exists |
| lexer (`lexer.c`) | source, token list | `lexer_parse`, span functions, `lexer_free` | tokens cover the source; on error exactly the source, the lexer, its tokens with their texts and the half-read token stay allocated, and `main` leaves them to the exit; frees only what the parser left |
| runtime and context (`jruntime.c`, `jcontext.c`) | `memory_allocated`, the registry of allocations | `_alloc`, `_dealloc`, `JContext_*`, `JRuntime_*` | the registry is the set of live objects, the counter their sizes, both zero at the end |
| map (`map.c`) | a singly linked list | `map_put`, `map_get`, `map_remove`, `map_clear` | a mapping in insertion order; every list node freed once |
| list (`list.c`, `list.h`) | size, capacity, items | `list_push`, `list_remove`, `list_index_of`, `list_free` | a sequence; capacity never below size |
| string (`string.c`) | a 16-bit length and 8 bytes or a pointer | `String_init`, `_clear`, `_replace`, `_indexOf`, `_format` | the length tells which representation is in use; heap contents freed once |
| numbers (`jutils.c`) | none | `parse_number` and the conversions of literals | the value of the literal, within the widths |
| main (`jacv.c`) | none of its own | the sequence of all of the above | memory is zero at the end (`jcontext.c:22`) |
| file input (`io_utils.c`) | none | `read_file`; `write_file` is called nowhere | a missing file is reported and lexed as an empty one; the program then dies where it frees the source (`jacv.c:61`), the one exception of `ExitClean` |
| `gc.h` | none | included nowhere | not modelled |

How they interact: `main` calls the lexer, then `ast_from_lexer`, `ast_print`,
`ast_node_destroy` and `lexer_free`, in that order.  The parser and the lexer
share the tokens: the parser takes `value.ptr` out of a token and writes `NULL`
there, and `lexer_free` frees the pointers that are left.  A scope is parsed by a
nested `ast_from_lexer` over a window of the same token array.  Everything
allocates through the runtime, which registers each pointer in a map.

Hard behaviours: an error at any depth with partly built nodes; a cursor moved by
hand; a local read past a `goto` that skipped its initialization (`ast.c:772`);
pointers read from the wrong member of a union (`ast.c:314`, `354`, `391`, `647`);
results dereferenced that may be `NULL` (`ast.c:186`, `510`, `519`, `624`, `997`).
`PROJECT.json` lists them as hazards, each with the properties that watch it, or a note on
why none does.

## Modules

| module | models | is used by |
|---|---|---|
| `Ast`, `MC_Ast` | the parser, the tree, the end of `main` | `Ast_proofs`, `Ast_memory_proofs`, `Ast_order_proofs`, `Ast_grammar_proofs` |
| `Custody` | the promise that every string has one owner | `Ast`, which implements it |
| `Numbers` | `jutils.c`: the values of literals, next to what they mean | `Lexer` |
| `Lexer` | `lexer_parse`, one turn of its loop a step | `Jacv` |
| `Jacv`, `MC_Jacv` | `main` from its start to each exit: file, lexer, parser, both destructors | `Jacv_proofs` |
| `Runtime` | `jruntime.c`, `jcontext.c` and the linked list of `map.c` that is its registry | `Runtime_proofs` |
| `Sequence` | the promise of a list | `List`, which implements it |
| `List` | `list.c`: the array in the heap | `List_proofs` |
| `Text` | the promise of a String | `JString`, which implements it |
| `JString` | `string.c`: the length and the union | `JString_proofs` |

The modules are layers, not one composition.  `Ast` and `Jacv` meet at the hand-over
of the tokens: `Jacv` proves (`HandOver`) that the texts allocated there are those of
the string and identifier tokens, one each, which is how `Ast` starts; and it takes
from `Ast` that a parser that returns has taken some of them, each once.  The users of
the containers see a list as a sequence, a String as a text and the allocator as a set
of live objects, which is what `List`, `JString` and `Runtime` are shown to provide.

## The parser: module `Ast`

### State

| variable | in the code |
|---|---|
| `tokens`, `ptr` | `lexer->tokens`: the kind of each token, and `value.ptr` as the parser would read it |
| `strings` | the strings cloned by the lexer that are allocated, named by their token |
| `nodes`, `nextId` | AST nodes and `FunctionArg`s; `own`, `left`, `right`, `items` are their pointers |
| `pos` | `*i`, counted from the first token of the whole list |
| `stack` | the active calls of `ast_from_lexer` and `ast_parse_expr`, each with a program point, `result.expr`, `allowKeywords` and the bounds of its list |
| `ret` | the `ASTParseResult` handed to the caller |
| `calls` | pending calls of `process_operation` and of destructors |
| `messages` | error Strings that are alive |
| `phase`, `fault` | how far `main` is, and where the program died |

A token kind stands for all tokens the parser treats alike: the fifteen operators
are kept apart, `keyword` stands for `if`, `else` and `return`, `other` for the
kinds that are reported as unknown and skipped.  The characters of names are
abstracted: the only thing that depends on them is `validateName`, which may say
either of a quoted string.  A number is some value that is not 0, so that reading
it as a pointer gives `Wild`.

### Actions

Each action is the code between two calls, or less: `DeclStart` to `DeclValue` are
the branch for `def`; `FuncStart` to `FuncReturn` that for `fn`; `ScopeOpen` and
`ScopeEnd` the braces; `Variable`, `Literal`, `ParenOpen`, `ParenClose`,
`NextLabel`, `Operand`, `Settle` the expressions; `SkipToken`, `RejectToken` the
rest; `BodyNext` and `BodyItem` the loop of `ast_from_lexer`.  `process_operation`
and `DestroyNode` make one call of the function that is pending.  `PrintAst` and
`LexerFree` are `main` after the parser, and `Stop` its end.  `Fail`, `FailAgain`
and `Abort` are the label `err` with the macros that jump there.

A dereference of `NULL` or of a value that is no pointer, a failed assertion and a
second deallocation end the program in `fault`.  What follows such an event is
undefined in C and is not modelled.

Conventions where the model is shorter than the code:

- an error leaves `pos` alone: no caller reads the cursor after an error;
- a token, a list object and the lexer of a scope have no names of their own: each
  is freed in the step that frees what it belongs to, and the scope's lexer is
  freed as soon as the nested call returns;
- a destructor frees its node in one step and then calls the others in the order
  left, right, items, where the code goes depth-first: nothing observes the order;
- the branch for an operator at the start of an expression always fails, since no
  caller sets `allowOps` (`ast.c:480-484`), and the `eof` result is unreachable
  (`ast.c:269-273`);
- printing is one step, and what it cannot print (`Unprintable`) is looked for among
  all nodes: when the parser has returned a tree, all nodes are in it;
- `FuncSlot` says what the uninitialized local `func` may hold at `ast.c:772`.
  Builds with gcc showed all three: `NULL`, the function of an earlier statement,
  and a value left by something else.  The last ends the program in the model.

### Custody

`Custody` has one variable, who will free each string.  Its steps are: the parser
takes strings, the tree frees strings, the lexer frees the rest once the tree has
none.  `StringsInCustody` says that `Ast` implements it under the mapping `holder`:
a string that is not allocated is nobody's, one that its token still points to is
the lexer's, and the others are the parser's.

### Grammars next to the parser

`IsExpressionList` says, token by token, what may stand next to what in a list of
expressions, and `Statements` writes out the declarations and functions of a small
size.  Neither mentions the cursor or the stack.  `AcceptsExpressions` says that the
parser accepts exactly the lists of the grammar, and `AcceptsStatements` that it
accepts every statement and meets none of its crash sites on one.

## The lexer and main: modules `Numbers`, `Lexer`, `Jacv`

`Lexer` has the source as a sequence of characters, the cursor `i`, the tokens
(type, first and last character, value) and `live`, the set of allocated objects: a
token and its text are named by the place of the token in the list, so that an
allocation, a deallocation and a leak are set operations.  `lexer_parse` is one turn
of the loop; its disjuncts `Skip`, `Mark`, `Operator`, `String`, `Word`, `Number` and
`Dot` are the branches of the turn, `Push` the labels `push_and_jump` and
`continue_loop`, `RetError` the macro `RET_ERROR`.

`Numbers` is `parse_number` with the loops of `hex2int`, `oc2int` and `bin2int` at the
widths `WordBits` and `IntBits`.  `Meaning` says what a literal means by its
positional system, as a sum over the digits without an order of evaluation.

`Jacv` is `main` around it, with a program point `pc`: `read_file`, `lexer_new`, the
turns of the lexer, `LexerError` or `LexerDone`, `ast_from_lexer`,
`ast_node_destroy`, `lexer_free` token by token, `FreeSource`, `JContext_destroy`.  The
parser is one step that takes any of the texts and returns a tree or none.  `Deallocate`
fails the assertion of `_dealloc` when an object is not allocated.

Conventions: the registry and its nodes are left to `Runtime`; the conversion to
`double` is the pair of a whole number and its decimal places; the message of an error
is one object; a file that cannot be opened is `file = FALSE`.

## The allocator: module `Runtime`

Blocks of `malloc` are addresses that are handed out again.  `header` has the objects
with the size in front of each, `nodes` the `MapNode`s, both from the same addresses.
`pc` is `client` between two calls; `put`, `remove` and `clear` are the three loops over
the list (`map_put`, `map_remove`, `map_clear`), one turn a step, with their locals
`key`, `new`, `at`, `prev`; `twice` and `leak` are the two assertions.  The client holds
one context, allocates and frees in any order, may free a pointer that is not allocated
(`_dealloc_again`), closes the context, and destroys the runtime at any time between two
calls.  `_dealloc` reads the size and wipes the block before it asks the registry, so a
pointer that is not allocated gives any size, or tears a block that is something else
now (`torn`, where the model stops).

## The list: modules `Sequence` and `List`

`List` has the fields of `ListT` and the arrays that are allocated; a new array has a
new address.  `Grow` replaces the array, `Shift` removes an item and leaves the stale
pointer behind.  `Sequence` is what its users see.  The mapping (`Listed`) takes the
first `size` slots; `open` is whether the array is still there.

## The string: modules `Text` and `JString`

`JString` has the 16-bit length, the union (characters, or the address of a block) and
the blocks.  `Inline` is 8 and `LengthLimit` 2^16 in the code.  `Text` is the promise,
and it includes the two limits that every caller meets: a text whose length passes the
limit keeps the remainder only, and a search may miss a word whose first character occurs
before it.  It also has the state `lost`, for a replacement in place that makes a long
text short (`string.c:132`): that is the only way a String stops being a text, and the
model goes no further there.

## What the runs check

| run | instance | distinct states | question |
|---|---|---|---|
| `ast_statements` | all lists of up to 3 tokens of every kind; up to 3 more after `def x`, `def x :`, `def x =`; up to 4 more after `fn f (`, `fn f ( a T ,` and `fn f ( ) T`; the statements of the grammar | 172,047 | Is every string and node owned once and freed once, on every path, and is no name or string dropped? Are well-formed statements accepted? Does the parser keep `Custody`? Does it end? |
| `ast_expressions` | all lists of up to 6 of number, `+`, parentheses, of up to 5 with line breaks, of up to 4 with `*` and `;`; chains of 3 operators of all 15, of 4 and 5 of one or two of each priority; chains with a parenthesized part; chains of 3 with `()` for an operand; the first line of `test/test.jacv` | 552,820 | Are exactly the expressions accepted, and are they grouped by priority, in source order, and still trees? |
| `ast_scopes` | all lists of up to 5 of braces, names, numbers, `;` and `)`; up to 4 more after a function with an empty scope and after `{ 1 +`; every value of `FuncSlot` | 190,337 | Does every level of the recursion stay in its list, does each error have one String, does the recursion end? |
| `list` | 3 items, first capacity 1, up to 5 items, so that the array grows to 2, 4 and 8 | 23,029 | Is the array always large enough and the only one? Is the list a sequence? |
| `runtime` | 7 blocks, objects of size 0 and 2 and a context of size 1: a context and two objects with their nodes, and one block to spare | 454,030 | Are the registry, the byte count and both assertions exact, with addresses handed out again? Does every walk end? |
| `string` | `Inline` 3, `LengthLimit` 6, texts of up to 7, words of up to 2 of 2 characters | 988 | Does a String own the block it needs and no other? Is it a text? |
| `jacv` | all files of up to 4 of eleven characters, one of each class; up to 5 of `0`, `1`, `9`, `b` and dot; literals with a prefix and up to 3 more; words of 8 bits, ints of 4 | 224,282 | Do the tokens cover the source and end where they should, have numbers their values, is memory as it should be at every exit? |
| `ast_stale_func` | a function, then scopes | stops at the violation | Finding: the second deallocation that `jruntime.c:44` asserts away |
| `ast_mistakes` | up to 3 of `(`, `)`, number, `+`; behind two statements, up to 2 more after `(`, `1 +` and `fn f (`, up to 4 after `def`, and `fn f ( a 5 ) T ;` | the same | Finding: `NULL` dereferenced where `ast.c:518` promises a message; with `-continue`, the same at `ast.c:510`, `186`, `624`, and a number read as a pointer at `ast.c:314`, `357`, `391`, `647` |
| `ast_typed_declaration` | `def x : T` and up to 2 more | the same | Finding: a declaration with a type and no value crashes the dump |
| `string_shrunk` | as `string`, texts of up to 3 | the same | Finding: a long text made short in place leaves the pointer in the union (`string.c:132`) |
| `number_binary` | binary literals of up to 8 digits | the same | Finding: a binary literal as long as an int loses bits (`jutils.c:45`) |

The bounds of the parser.  A path from one decision to the next reads at most
three tokens (`fn f ( a T , b`), and the beginnings put every decision within reach
of the free part; the free parts then go through every kind of token the
code tells apart there.  Nesting of two scopes, two operations inside parentheses
and an error below them fit into five tokens.  Five operators in a chain are two
more than the smallest chain in which one rotation undoes the work of another.

The other bounds.  The lexer looks one character ahead and one behind, so that four
characters hold every border with something on both sides.  The widths 8 and 4 let
overflow happen within six digits; `IntBits <= WordBits` and `4 <= WordBits` (a word has
room for the value of a digit) are assumed, and both hold of `int` and `uint64_t`.  The list
grows three times.  Three objects let the registry lose its head, its middle and its
last node, and the spare block lets a freed address come back as the other kind of
block.  `Inline` 3 and `LengthLimit` 6 with texts of up to 7 cross both limits of the
length, in both directions.

Fairness.  `FairSpec` of `Ast` and `Spec` of `Jacv` have weak fairness of `Next`: one
thread runs the program and nothing in it waits.  `Spec` of `Runtime` has weak fairness
of the three loops only: the client need not call again.  `Termination` and `WalksEnd`
are checked under these.

Deadlock is checked in the runs of `Ast`: `Stop` is the only step after the end, so a
state in which the parser has no step is an error of the model or of the code.  The other
systems really stop: a list that is freed, a String that is destroyed, a program that has
exited, a runtime after a failed assertion.

How the model was compared with the program.  The inputs of the three passing runs of `Ast`
were written out as source text and given to a build of the program: for 15,381 of
them, every second one, the outcome (accepted, rejected, died) is the one of the
model, and for 3,694 accepted expressions the printed tree is the tree in the model.
The inputs named under `ast_mistakes` kill builds with `-O0` and with `-O2` alike.

## What is proved

`Ast_proofs` holds for every set `Inputs` of token lists and every `FuncSlot`,
from the two assumptions on the constants in `Ast` alone.

The inductive invariant is `IInv`, the conjunction of `PtrInv`, `NodeInv` and
`StackInv`.  It is equivalent to `TypeOK /\ CursorInWindow` (`IInvIsTypeOK`), split
by the variables that the actions change together.  Types alone are not inductive:
`DeclName` reads `ptr[pos]`, and that this is a pointer of a token at all needs the
cursor to be inside the list.  The cursor alone is not inductive either: after a
return the caller reads on at `pos`, which is only safe since the lists of nested
calls are nested (`Nested`) and since a waiting call looks at the bounds first
(`Waiting` and `Reading` have no program point in common).

The argument: `NextTokenInWindow` (from well-foundedness of the naturals) bounds
`NEXT_TOKEN`; `ContinueNested`, `CallNested` and `PopNested` show that the three
ways of moving between calls keep the lists nested; `ContinueInv`, `CallInv`,
`ReturnInv`, `FailInv` and `CrashInv` lift that to the operators the actions are
made of; then there is one lemma per action, and `NextInv` puts them together.

- `TypeCorrect`: `Spec => []TypeOK`.
- `CursorCorrect`: `Spec => []CursorInWindow`.

Its second half follows errors and the cursor through the recursion.  The inductive
invariant `FlowInv` has three parts:

- `Shape`: which call may stand on which.  The program starts in the loop of
  `ast_from_lexer`, every such loop but the first is called from a `scopeEnd`, a
  `scopeEnd` calls nothing else, and the list of the nested loop ends before the
  closing brace.
- `ErrorInv`: `ErrorsAccounted`, and an error is on its way to a caller at a point
  where the result is looked at (`Answered`).  The second half is why the first is
  preserved: an error that came back to any other point would be overwritten by the
  next result, and its String lost.  It needs `Shape`, since what the caller does is
  known only from who called whom.
- `FreshInv`: `FreshTokens` without its condition on `calls`; that the cursor is on the
  opening brace when a scope begins and on its closing one when the scope comes back; and
  the other half of `FreshTokens`, that no name before the cursor is left in its token
  (`Fresh`).  The only names that stay are those of a type written `def` or `fn`, which
  the code accepts there and does not take (`Named`, `Sound`).

`ReplaceShape`, `AppendShape` and `PopShape` say what the three stack operations do to
`Shape`; `ContinueFlow`, `CallFlow`, `ReturnFlow` and `FailFlow` lift them to the
operators the actions are made of; `MovesFlow` and `EndsFlow` cover the actions that
stay in the parser and those that leave it; then one lemma per action, and
`FlowInvariance`.

- `ErrorsAreAccounted`: `Spec => []ErrorsAccounted`.
- `TokensStayFresh`: `Spec => []FreshTokens`.
- `ProgramsAreComplete`: `Spec => []NothingDropped`, since the outermost list ends behind
  the last token.

`Ast_memory_proofs` is first about the nodes, for every `FuncSlot` without `"stale"`: if `func`
holds an earlier function by chance, `goto func_scope` (`ast.c:772`) gives that function a
second scope and the new one a second owner, which the run `ast_stale_func` shows.  Its
inductive invariant `NodesInv` has three parts:

- `Forest`: what a node points to exists, no slot (`left`, `right`, an item) holds what
  another slot holds, and some ranking of the nodes falls along the pointers, so that
  there is no cycle.  The ranking is quantified, so that no recursion over the tree is
  needed; without it a node could be put below itself.
- `Parted`: the nodes that are below no other are, each in exactly one way, the result of
  one call on the stack, the expression that is handed over in `ret`, or one whose
  destructor is pending.  `RootsOnce` and `DoomedOnce` say that two calls do not share one.
- `FramesOK`: what a call on the stack knows of its own node by where it is (that an
  operation still has its right slot free when the operand comes back, that the function
  whose scope is being read has none yet): this is why a slot that is written was free, and so why nothing
  is dropped from the forest.

`LeafForest`, `AttachForest`, `RotateForest` and `RemoveForest` are what an action can do
to a forest: add a leaf, put a root into a free slot, exchange operands as
`process_operation` does, free a root.  One lemma per action says which.  `OneOwner` then
counts: by `Parted` and `KidsOnce` the set of owners of a node is a singleton.

- `NodesHaveOneOwner`: `"stale" \notin FuncSlot` implies `Spec => []NodesOwnedOnce`.

Then about the ownership of strings, for every `FuncSlot`.  `StringsNotShared` is inductive
as it stands once `IInv` holds: that a pointer of a token is `NULL`, a number or the
token's own string is what makes the strings that an action takes from two tokens
different (`FuncArg` takes two at a time), and that the cursor is inside the list is
what makes them pointers of tokens.  An action does one of four things to the
strings, each with a lemma: it leaves them where they are (`LeaveStrings`), passes
some from tokens to one node (`PassStrings`), frees those of one node
(`FreeNodeStrings`) or those of the tokens (`FreeTokenStrings`); one lemma per action
says which (`StringSteps`).  This needs nothing of the shape of the tree, so it covers the
error paths and the function that gets a second scope at `ast.c:772`.

- `StringsFreedOnce`: `Spec => []StringsNotShared`.

The rest puts nodes, errors and strings together, with the assumption on `FuncSlot`.
Everything is said of the four things that a step may do.  `MemoryInv` has three parts:

- `StringsNotLost`, which needs that the node that takes a string exists: a call that is at
  work on a function or a declaration has it (`FramesOK`).
- `Cloned`: a string that is allocated belongs to a token of a kind that has one, which is
  how `lexer_free` finds it.
- `ExitInv`: when main goes on, no call is under way; at the exit nothing is left.  A forest
  that is not empty has a node that is below no other (`NoRootNoNode`, the one of highest
  rank), so that by `Parted` there is no node once no call, no result and no pending
  destructor has one (`TreeGone`).  With `StringsNotLost` the strings that `lexer_free`
  frees are then all there are, and with `ErrorsAccounted` no error String is left.

For the refinement, `PassOrStutter` says when a change of `holder` is a step of `Custody`.
That a destructor frees no string that its token still has is `StringsNotShared`; that the
parser holds no string when `lexer_free` runs is `TreeGone`.

- `NoStringIsLost`: `"stale" \notin FuncSlot` implies `Spec => []StringsNotLost`.
- `AllMemoryIsReturned`: likewise `Spec => []MemoryReturned`.
- `CustodyIsKept`: likewise `Spec => StringsInCustody`.

`Ast_order_proofs` is about the shape of the tree, with the assumption on `FuncSlot`.  It
says what `process_operation` (`ast.c:199-223`) does to an expression of any size, in which
the operators come in any order.

- `GroupInv`: every operation fits its operands by the priorities, but at most one: the
  one that the pending call of `process_operation` is for may not fit its right operand.
  The exchange makes that one fit and leaves, as the only one that may not, the operation
  that went below it, for which the next call is made.  So it is never two, and none
  when the calls have returned.
- `SpanInv`: there are functions `lo` and `hi` that give each node a stretch of the source
  that holds it and all that is below it (`Spans`).  The stretch of the left operand ends
  before the operator, that of the right one starts behind it; and the stretches of
  the results of the calls on the stack lie one after the other, all before the cursor
  (`Line`).  The second part is why the first is kept: what a node is given comes from
  where the cursor is, behind everything that is below the node so far.  An exchange keeps
  the outer stretch and needs a new one for one node (`SpanInv` says that there are such
  functions, not which).

`Tree` is defined by steps down from a node.  That its recursive function exists is shown by
an explicit one, the nodes that a way of at most `d` steps leads to (`Descent`); that all of
it is in a set closed downwards follows by a least counterexample (`TreeWithin`).

- `ExpressionsAreSettled`: `"stale" \notin FuncSlot` implies `Spec => []OperatorsSettled`.
- `OperandsKeepTheirSide`: likewise `Spec => []SourceOrder`.

`Ast_grammar_proofs` is about what the parser accepts, for every `FuncSlot`: a list of
numbers, operators and parentheses has no scope.  The parser reads such a list once, by a
recursion that knows only what it was called for; `IsExpressionList` looks at each token of
the whole list and counts the parentheses before it.  `ExprInv` joins the two: the parser is
on course, or the list is none and the parser will not accept it.

- `OnCourse`: all tokens that were read are in a right place (`RightBefore`), the number of
  open parentheses before the cursor is the number of calls that wait for a `)` (`Depth(pos)
  = Opened(stack)`), and the point of the call on top says what may be under the cursor
  (`Reads`: between two expressions, in the place of an operand, just behind one).  An
  operation lacks its right operand only while a call waits for it (`Complete`), so that
  `process_operation` meets no missing one.
- `Past` is where the two readings differ.  Whether a number is in a right place depends on
  what stands behind it, across line breaks if it is a `)`; the parser finds out one or more
  calls later.  So what is known behind an operand is conditional: if an operator, a `)` or
  the outermost level follows, then the operand was right.
- `Lost` is every way in which the parser gives up, closed under its steps: it has died, an
  error or no tree is on its way to main, there is no expression where `(` or an operator
  needs one, or an operation without right operand is about to be regrouped.  That the list
  is none is fixed when the parser leaves the course, by the token at which it does.

For statements the comparison is with a grammar in which each token of a list gets a label,
what it is to its statement (`Labels`: the name behind `def`, the type of an argument, the
`}` of a scope...).  A label says what its token is (`Means`) and which labels may come next
(`Leads`).  The lists of the grammar are longer than any run could try: any number of
statements, a value of any number of operands, any arguments, a scope of any length.

- `StatementInv` says, of every labelling, that each call has come to a token with the
  label it expects (`Around`), so that every check of it succeeds; that the calls below wait
  in the right places (`Stacked`); that only a declaration or an operation that a call still
  waits for lacks its value (`Filled`), so that the printer misses none; and that no token
  without a text is taken for a name (`Neat`, `Tame`).  The call that waits for a scope always
  has its function (`Lawful`), which is why `FuncSlot` does not matter.
- The step that needs an argument is the scope: the parser counts braces to find its end, and
  the labels do not count.  `ScopeCloses` shows by the least token that is not inside that
  both find the same `}`.
- `Statements` writes its lists out by concatenation.  `DerivesBoth` joins two labellings, so
  that each of them is labelled piece by piece.

- `ExpressionsAreAccepted`: `Spec => []AcceptsExpressions`.
- `StatementListsAreAccepted`: a list of the grammar does not kill the parser or the printer,
  and when the parser is done there is a tree.
- `StatementsAreAccepted`: `Spec => []AcceptsStatements`.

`List_proofs` holds for every set `Item` and every first capacity above 0.  The
invariant is `ArrayFits` with the types of the fields.  The step that needs an argument is
`IndexOf`, which returns a first index: a set of naturals that is not empty has a least
element (`LeastBelow`, from well-foundedness).  For the refinement, `ListedIsSeq` reads the
sequence off the array, and each operation is shown to be the operation of
`Sequence` that bears its name.

- `ListFits`: `Spec => []ArrayFits`.
- `ListIsSequence`: `Spec => IsSequence`.

`Runtime_proofs` holds for every finite set of blocks and every size of objects.  What the
linked list is cannot be said by following pointers without recursion, so the invariant
names the chain instead: there are a number `n` and an enumeration `c` of the nodes from 1
to `n` such that `next` of each is the one after it (`Ord`) and such that its keys are the
objects (`Reg`).  While a loop walks, it also says where in the chain the walk is and what
it has passed (`Walking`).  A node at the end (`PutAt`) and one taken out anywhere
(`RemoveAt`) give a new enumeration; these two lemmas are the core.  Addresses that are
handed out again do no harm as blocks of the two kinds are disjoint (`Blocks`).

- `RegistryIsExact`: `Spec => []RegistryExact`.
- `TwiceIsDeserved`: `Spec => []TwiceDeserved`.
- `NodesAreReturned`: `Spec => []NodesReturned`.

`TypeOK` needs the same invariant: that the locals of a walk are addresses or `NULL` follows
from where in the chain they are (`WalkPlaces`).  The byte count is a sum over a set, which
the community module defines by folding in an order that nobody knows.  Two lemmas free it
of the order: a fold has a partial sum for every prefix (a least prefix without one does
not exist), and a set with one object more has a sum that is greater by its size
(`TotalChanges`).  With these, `Sized` says that the counter is the sum over the objects,
but for the one that a walk has in hand, and `MemoryInv` adds which loop has which object in
hand.

- `TypeCorrect`: `Spec => []TypeOK`.
- `MemoryIsAccounted`: `Spec => []MemoryAccounted`.
- `LeakIsExact`: `Spec => []LeakExact`.

`Jacv_proofs` holds for every set of files.  Its invariant names the live
objects at every program point (`Accounted`): the source, the lexer, one token object for
each element of the list, one text for each string or identifier among them, and what the
step has allocated and not yet handed over.  What the number parser returns plays no role
for it.

- `TextsHandedOver`: `Spec => []HandOver`.
- `ErrorLeaksExactly`: `Spec => []ErrorLeak`.
- `ExitsClean`: `Spec => []ExitClean`.

The second invariant, `LexInv`, says of every token that it is right for the source
(`TokenRight`: where it ends, what it holds, what stands behind it), and that the cursor is
right behind what is covered.  The two scans of the lexer are loops that run to a place that
is not known beforehand; in the model they are recursive functions.  `LoopStops` says of any
such loop that it returns what belongs to the first place where it has to stop, by a least
counterexample counted back from there, and `LoopExists` that there is a function as the
definition wants it.  `StringEnds` and `WordEnds` apply this to the two; a token that is
added is then right since it was made from what the scan returned (`StringTurn`, `WordTurn`,
`NumberTurn`).  Of a file nothing is assumed but that it is a sequence.

The rest is about the values of numbers, in words of any width that has room for a digit
and is not smaller than an int.  The code goes from left to right and reduces at every
digit; `Positional` is a sum over all digits, whatever their order, reduced once.
Between the two stand the values that the loop would have in a word without end
(`Values`).  `HornerIs` says that what the loop has is this value reduced, since reducing
before a digit changes nothing (`ModStep`); `PositionalIs`, that the partial sums are these
values times a power of the base.  A sum over a set and the fold that the community
modules define it by, in an order nobody knows, agree on every set by a least
counterexample in the number of elements (`FoldIsSum`).  `DotMeans` passes over the dot.
`BitsMean` is why a binary literal needs a bound: a shift by less than the width of an int
less one sets a bit of its own, so that the sum of the bits is the sum of the digits.
`RestsAre` and `IsFloatIs` read the set-based `Meaning` off the first characters, and
`ParseMeans` compares it with `parse_number` case by case.  The invariant `NumInv` then only
has to say what the lexer hands over: a text that begins with a digit or with a dot and a
digit, which is the whole word (`HandedOver`).

- `TypeCorrect`: `Spec => []TypeOK`.
- `NothingIsPassedOver`: `Spec => []Covered`.
- `WordsAreWhole`: `Spec => []MaximalMunch`.
- `StringsAreClosed`: `Spec => []StringsClosed`.
- `NumbersMeanWhatTheySay`: `Spec => []NumbersMean`.

`JString_proofs` holds for all characters, texts and words of any length, and every inline
size below the limit of the counter.  Its invariant is `BlockFits` with the types of what
the operations read; it must leave open what the union holds in a String of no characters,
since `String_clear` leaves a freed pointer there, and `Usable` shows that no operation reads
it.  `SetFits`, `ClearFits` and `InPlaceFits` are the three ways to change the union.  The
search is a loop that carries how much of the word is matched: `MatchedIs` (what is matched
is right behind the cursor) gives that a word that is found is there, and `MatchedThere` that
one without its first character before it is found, which is all that the abstract text
promises; a search that starts over at a mismatch promises no more.  `EditedIs` and `KeptIs`
tell when a text loses characters to the counter: by being set, never by an edit in place.

- `StringFits`: `Spec => []BlockFits`.
- `StringIsText`: `Spec => IsText`.

Only model-checked:

- `MemoryReturned` of the parser with `"stale"` in `FuncSlot`;
- termination, of the parser, of the program and of the walks: the prover has no
  liveness.

## Not modelled

- What is only printed: the wording of errors, the place that `lexer_get_line` and
  `get_pos` compute for them, the dump of the tree and of the tokens.  What the dump
  cannot print is modelled (`Unprintable`), since the program dies of it.
- `gc.h`, which no file includes, and the functions that nothing calls: `write_file`,
  `String_new`, `map_get`, `map_setComparator`, `map_destroy`, `token_new_string`,
  `token_new_identifier`.
- A `malloc` or `realloc` that fails: the code never looks at the result.
- Overflow of the `int` that counts allocated bytes, and rounding of `double`: both need
  sizes far from any instance.
- The parser inside `Jacv`, which is one step there by the contract described above, and
  the containers inside `Ast` and `Jacv`, which are their promises.
- That `String_format` passes one `va_list` to two calls of `vsnprintf` without `va_copy`
  (`string.c:146`, `149`).  With the Windows headers that the file includes the second call
  prints the arguments again; with gcc on x86-64 it goes on behind them, and the messages of
  the parser come out wrong.  `JString` lets `vsnprintf` write anything, and does not let it
  crash.
- What comes after undefined behaviour.
