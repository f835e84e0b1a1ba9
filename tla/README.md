# Roc Lang compiler: TLA+ models, runs and proofs

TLA+ models of the compiler in this repository, the TLC runs that check them
and the theorems TLAPS proves about them. File and line references are to the
sources under `src/`.

## 1. Inventory

The compiler is one sequential program: `main.cpp` reads a file and calls
`RocCompiler::compile`, which runs the phases below in order. There are no
threads. What is hard about it is control: visitors that start one another and
share one lexer, state that is read after another visitor has moved on, errors
raised in the middle of a phase, and values that travel on side stacks.

| Component | State | Operations | Works with |
|---|---|---|---|
| Lexer (`parser/Lexer.*`) | text and offset, `current`, the peeked token, `currentToken` | `getNextToken` with `resolveToken` and `isNumber`; `peekNext`, `nextToken`, `nextTokenWithWS`, `nextTokenSkipNL`, `hasNext` | every visitor of the parser, which also deletes tokens |
| Tokens (`parser/Token.*`) | kind, text, offset; the precedence map | `hasHigherPrecedence`, default visits | lexer, parser |
| Parser (`parser/Parser.*`, `parser/AST.cpp`) | the C++ call stack of visitors and what each gathered; recorded `SyntaxException`s | one visitor for each construct | lexer, syntax tree |
| Syntax tree (`parser/AST.*`) | nodes, children, whitespace | constructors, `ToBinExprVisitor`, `replaceChild` | all later phases |
| Resolvers (`compiler/Types.*`, `LiteralResolver`) | types and targets hung on the nodes, type problems | literal, signature and type resolution, `findTargetCall` | builtins, `CompilationContext` |
| Driver (`compiler/RocCompiler.*`, `main.cpp`) | phase, compilation context, `output.s` | `compile` | all phases |
| MIR (`mir/*`) and passes (`passes/*`) | value stack, block stack, labels | `ToMIRVisitor`, `SmartTypeCaster`, `LabelResolver`, `HeapAllocatorLifter` | resolvers, back end |
| LLVM back end (`compiler/LLVMBackend.*`, `LLVMUtils.*`, `Builtins.*`) | current block, value stack | one visit for each MIR node; wrapping, casting, vtables | LLVM |
| Runtime (`linking/*`) | vTable map, reference counts | `addVTableMapping`, `myGetFunctionPointer`, `myPrintln`, `myDecr`, ... | the compiled program |

What makes each correct:

- Scanner: no character is lost or read twice, tokens are as long as they can
  be, and a text ends in `eofT`.
- Lexer: every token reaches the client once and in order, whatever mix of
  calls it makes; a peek predicts the next take; `currentToken` is what the
  client was last given.
- Parser: a well-formed module gives its own tree; any other input ends in a
  recorded error or a tree without holes; the parse ends; no token is used
  after it was deleted; recursion is bounded by the input.
- Resolvers: every name and call that survives has one type and one target; a
  call never changes what later calls mean.
- MIR: each value is built of its own operands and the value stack is left as it
  was found; each argument is cast to its own parameter.
- Back end: every instruction takes its own operands off the value stack, every
  basic block ends in one terminator, a call reaches the function it was typed
  with, and the emitted code computes what the tree says.
- Runtime: a wrapped value finds the methods of its own type; an object lives
  while it is referenced.
- Driver: a problem in one phase stops the later ones and is reported.

The hazards behind these properties are listed, each at its line, in
`PROJECT.json`.

## 2. Modules

| Module | Models |
|---|---|
| `TokenStream` | what a lexer promises: the tokens of a text, in order, blanks optional. No lookahead, no cursor. |
| `RocLexer` | the token interface of `Lexer`: cursor, one slot of lookahead, `currentToken`, the four ways to take a token, deletion by the client. |
| `RocLexerProofs` | the theorems about `RocLexer`. |
| `RocScanner` | the characters of a text becoming tokens: `getNextToken`, `nextChar`, `resolveToken`, `isNumber`. |
| `RocScannerProofs` | the theorems about `RocScanner`. |
| `RocSyntax` | token kinds, precedence map, tree nodes and the constructors that follow their arguments. |
| `RocParser` | `ModuleParser`, `ParserVisitor` and the visitors of `AST.cpp`, as a stack machine over `RocLexer`. |
| `RocParserProofs` | the theorems about `RocParser`, over those about `RocLexer`. |
| `RocGrammar` | well-formed phrases with the trees they stand for, independent of the parser. |
| `RocTypes` | the types of `Types.h` with the questions the passes ask of them, the builtins and the methods. |
| `RocResolvers` | `LiteralResolver`, `FunctionSignatureResolver`, `TypeResolver` and `findTargetCall`, over a parsed module. |
| `RocResolversProofs` | the theorems about `RocResolvers`, and the lemmas about paths and trees that `RocLoweringProofs` uses too. |
| `RocLowering` | `ToMIRVisitor` and `SmartTypeCaster`, over a resolved module; extends `RocResolvers`, so a run goes from the tree to the cast MIR. |
| `RocLoweringProofs` | the theorems about `RocLowering`, over those about `RocResolvers`. |
| `RocEmission` | `ToLLVMVisitor` over the cast MIR: basic blocks, instructions and the value stack; extends `RocLowering`. |
| `RocExecution` | the emitted code at work, with the builtins and the runtime it is linked with, and a client that calls it as the tests do; extends `RocEmission`, so a run goes from the tree to what was printed and returned. |
| `RocEmissionProofs` | the theorems about `RocEmission`, over those about `RocLowering`. |
| `RocExecutionProofs` | the theorems about `RocExecution` and the phases that lead to it, over those about `RocEmission`. |
| `SetInduction` | induction over the numbers up to `n`, stated with sets, and the existence of functions given step by step: what the proofs about paths, trees and loops rest on. |
| `MCRocLexer`, `MCRocScanner`, `MCRocParser`, `MCRocParserEdits`, `MCRocParserDisputes`, `MCRocResolvers`, `MCRocLowering`, `MCRocEmission`, `MCRocExecution` | the instances TLC checks. Each of the last four extends the one before it, with its programs. |

### RocScanner

A text is a sequence of characters, chosen at the start. `pos`, `current`,
`start` (for `startOffset`), `acc` and `isDigit` are the variables of
`getNextToken` and of the lexer; one step is one round of its loop, or the return
of a token. `pos` and `current` part at the end of the text: `nextChar` then sets
`current` to -1 and leaves `pos` on the last character. A byte 0xFF is that -1
too, and ends the text; a byte 0 is skipped, even inside a word. A token is the
positions of its characters, so nothing is compared that the code does not
compare. `status` is `uncaught` after an exception of `isNumber`: its own, or the
`std::out_of_range` that `std::stod` throws for a decimal no double is near
(`1.5e999`, or a dot after some 310 digits). Which words those are is the
C++ library's, and the constant `OutOfRange`. The client
calls until it is handed `eofT`; `RocLexer` goes on from the tokens.

### RocLexer

A source is the sequence of the kinds of its tokens, a token is its index in
it, so the identity of a `Token*` is kept and its text is not. `scanned` stands
for the offset: `Lexer::current` is -1 exactly when `scanned` is the length.
`peeked`, `peekedToken` and `currentToken` are the members of the same names.
`delivered` and `ended` are histories of what the client was given. `freed` is
the set of deleted tokens: `nextTokenSkipNL` deletes newlines itself,
`DeleteToken` lets the client delete any token it was given, or a newline it
only peeked, as `ConditionBlockVisitor` does, and `DeleteTokens` any number of
those it was given, as the destructor of a node does. `LexNext` is the most general
client; the parser is one such client (property `ClientOfLexer`).

### RocParser

Each activation of a visitor is a frame of `stack`; `proc` names the visitor
and `pc` the place where its code is suspended. A step calls the lexer at most
once, or deletes one token, or destroys nodes, so the order of every peek, take,
delete and read of `currentToken` is the code's. `ret` is the result of the
visitor that returned last, `owned` the tokens its nodes own.

The nodes of the tree own tokens and delete them with themselves. `own` of a
frame is the sequence of the tokens owned by the nodes its visitor holds, one
entry for each owner; it moves with the nodes, from a visitor to its result
(`ReturnOwning`) and on to the node built of it. Where an expression is replaced
or dropped, `Destroy` deletes what it owned: the next name, number, `false`,
string or `if` replaces `currentExpression`, `ret` and `import` do not look at
it, a `!` drops its left operand. What nothing owns (a `->`, a comma, the tokens
of a string) is never deleted, as in the code. All spaces are the one `spaceT`
(`Pointer`).

A token with two owners will be deleted twice. `LiveTokens` says that in
well-formed modules there is none, `OwnedOnce` that one edit away from them there
is none but in three cases, which are real: of `a . false` the second visit of
`false` (`AST.cpp:75`, `:996`) makes a second owner, and the first, in the
replaced `ReferenceExpression`, deletes the token with itself (`:892`); an import
in the expression of an import takes the same `;` for its own (`:1057`); an
argument list or parenthesis that is not closed takes the token it ended at for
its `)` (`:1008`, `:1021`), which the last argument or an `else` may own. `status` says how a parse ends:

- `parsed`: `ModuleParser::parse` reached its end;
- `syntaxError`: a `SyntaxException` was thrown by value and recorded;
- `aborted`: something else was thrown: the pointer of `goFurther` or the
  `const char*` of `hasHigherPrecedence`, which no handler catches;
- `crashed`: a null or deleted pointer was followed, or the C++ stack ran out.

A read of `currentToken` after its token was deleted may find the old token,
any token allocated since, or fault: `CurrentTokens` and `DeadToken` are those
outcomes. A tree keeps the kinds of nodes and their children; whitespace is
kept as the one bit `nl` that `goFurther` asks for.

`RocGrammar` defines phrases as pairs of tokens and tree. The tree of a chain
of operators comes from the precedence map alone (the operator that binds least
is the root; among equals the first one, since the parser groups to the right).

### RocResolvers

A node is the path to it from the module; `Program` puts the static block before
the functions, the order in which every pass visits them. `agenda` is the call
stack of the visitor at work, unrolled: an entry `visit` is a visit not made
yet, `leave` the code after the children, `type` a `TypeNode`, `read` the read
of an argument's type in the loop of `visit(FunctionCallNode)`. `types` and
`targets` are the context holders: a node that is not in their domain has none,
and a `getContextHolder` of it follows `end()`, which is a crash. `locals` are
the literals `replaceChild` turned into `LocalAccess`es. `status` says how
resolving ends: `resolved`, `problems` (conditions that are no Bool, all
reported before the check), `syntaxError` (caught by `compile`), `uncaught` (the
`std::exception` of `ASTNode::replaceChild`, the `std::out_of_range` of `at`) or
`crashed`.

Types are names. `Matches` is what `RocType::matches` computes: it assigns the
other type's `typeEnum` and is true unless that is 0, `unitType`. It writes the
builtin's type, but no result depends on the type written, so `Builtins` stays a
constant. Where the code may give one of two types (the larger of two types one
of which is a raw string, whose size is its length) the step chooses.

### RocLowering

`work` is the call stack of `ToMIRVisitor`, and then of `SmartTypeCaster`;
`values` is `valueStack`, `held` what `popElements(.., 1)` took off it and a
frame still holds in a local variable. A MIR value is named by the node it was
built from; the return that is added to a function is named by the function and
0. `casts` records what `SmartTypeCaster` puts around each argument. A pop of an
empty vector and a missing context are crashes. An `if` with an `else` pushes
nothing, and doubles, powers, assignments and loops push none or two values:
`IsPlain` names the kinds of nodes that leave exactly one; it is asked of every
node of the module (`Parts`). `ccall` takes the first of its arguments off before
it looks at their number: without arguments that is `front()` of an empty vector,
a crash here.

### RocEmission

`todo` is the traversal of `ToLLVMVisitor`, unrolled as in `RocLowering`: `value`
is a visit, `leave` the code after the children, `coerce` the wrapper or cast of
one operand, `branch`, `start` and `end` the three parts of `visitIf`. `stack` is
`valueStack`, `block` is `currentBlock`, `code` holds the instructions of each
block. An LLVM value is named by the MIR value it stands for, so that
"its own operands" can be said; the blocks `if-start` and `if-end` are `IfStart`
and `IfEnd`. `vtables.init` stands for the calls of `Int32.vtable.init` and
`StringRaw.vtable.init`, which `main` makes one after the other at the head of
each of its blocks. `Lookup` is `getOrInsertFunction`: builtins come first, and
of the functions of one name the first keeps it. The type visitor has no visit
for a Bool or an array parameter, which ends the emission in "type not solved"
(`uncaught`); a pop of an empty stack is a crash. An operand that pushes nothing
or a method call, which pops one value too many, shifts the stack for what
follows: `Direct` names the modules without them. `WrapsOther` names the modules
with an argument that the caster wraps and `ToLLVMVisitor` has no struct for:
not only an `Int64` or a `Float64`, since the caster's index runs ahead of its
argument, so that in `h(a, b)` with `a` an `Any` and `b` an `Int32`, `a` is wrapped.

### RocExecution

The process is the compiler's own: `EnterMain` and `EnterFunction` are what
`TestRunner` does with the `ExecutionEngine`, `main` or not and then one function
with `Int32` arguments. `frames` is the C stack (an activation is its block, the
next instruction, the values computed and the arguments), `objects` the structs
that wrap a value, with type id, content and the frame they live in (0 once it
is left, `Heap` for `malloc`), `vTables` the static map of `API.cpp`, `printed` what
`myPrintln` was to write, `result` what the client was returned. `session` is
`threw` after the exception of `myGetFunctionPointer`, `overflow` when
`MaxDepth` frames are not enough, and `open` where nobody defines what happens:
IR LLVM's verifier reports (nothing reacts to the report), an undefined
division, a block that runs off its end, a struct whose frame is gone, a call with
other parameters or another result than its function is declared with. Pointers
are typed by what they point to, as LLVM's are (`Ref`): `visit(MIRModule)`
declares a function that returns `Any` or `String` to return a pointer, and
`visit(MIRFunctionCall)` calls it as one that returns the struct (`ResultOf`), so
such a call by emitted code is open. Two raw
strings of one text may be one constant or two, so comparing them may give
either. `Enter` forgets `objects` and `printed`; no emitted code keeps an object
from one call of the client to the next. `vTables` stays: it is the process's.

## 3. Runs

| Run | Instance | Question and answer |
|---|---|---|
| `scanner` | every text of up to 4 characters over eleven: a digit, `e`, the letters of a keyword, `.`, `-`, `>`, `=`, a space, the bytes 0 and 0xFF | No character is lost (`Lossless`) or out of place (`InTextOrder`), tokens begin where the text alone says (`LongestMatch`), decimals are read as int or double, and of them those out of a double's range, and no others, end in the exception of `std::stod` (`NumbersRead`), and a client that asks on reaches `eofT` or the exception (`ScanEnds`). |
| `lexer` | every text of up to 5 tokens over a space, a newline and a solid token | Nothing is lost, a peek predicts the next take, `currentToken` is the last token given or a deleted newline, a client that keeps asking reaches the end (`ReachesEnd`), and `RocLexer` implements `TokenStream` (`StreamSpec`). |
| `parser` | some 370 well-formed modules: all operators and pairs of operators that nest by the map, calls, strings, dots, `if`/`else`, `while`, functions with parameters and types, statics, and the programs of `tests/`; the modules the tests reject | Each is parsed into its own tree, and those to be rejected are, with a recorded error (`RoundTrip`); no deleted token is read, and no token has two owners (`LiveTokens`). |
| `parser_edits` | every source one edit away (token dropped, inserted, replaced, text cut) from nine modules | The parse ends; visitors nest no deeper than twice the tokens taken; no visitor deletes a token that is deleted, or will be, by another or with a node (`DeletedOnce`); no token has two owners, three cases named (`OwnedOnce`); an accepted tree has no null node; an accepted module was read to its end, up to one peeked token; the parser is a client the lexer's results cover. |
| `parser_precedence` | all pairs of operators | `GroupedByMap` fails: `a ^ b == 1` groups as `a ^ (b == 1)`. |
| `parser_bodies` | two expressions on two lines | `BodyHasEach` fails: the first is dropped. |
| `parser_rets` | an expression, then `ret` on the next line | `RetOnNewLine` fails after `a.b`: the exception for a missing newline is thrown, as a pointer. |
| `parser_params` | parameter lists over several lines | `RefusedUnclosed` fails: the check for `)` reads a deleted newline. |
| `resolvers` | some 1100 modules: those the tests, the sandbox and the README compile; each operator on operands of each type; calls of builtins, functions and methods with any number and type of arguments, overloads included; conditions in nested `if`/`else`; unknown names and types | What resolves has a type just where it has a value, the one its parts and declarations give it (`TypesRight`), only Bool conditions (`ConditionsAreBool`), and everything the lowering reads (`LoweringReady`); a rejected module had all its bad conditions reported (`EveryProblemReported`); both are about conditions outside the arguments of methods, which no pass visits; the tests' modules resolve and "Add Ints 4" does not. |
| `lowering` | the same modules, calls of a function with three parameters as statement, condition and operand, and builtins with a wrong number of arguments | Each value has the values of its own subexpressions as operands (`OwnOperands`), each function its own statements and one return at its end (`StatementsKept`), casts before the first argument that fits reach their parameter (`CastsReach`); the lowering of a plain module neither crashes nor throws, unless a builtin has too many arguments or `ccall` no type (`PlainIsLowered`). |
| `lowering_casts` | the same | `PrimitivesAreWrapped` fails: after an argument that fits, the caster works on the wrong argument. |
| `execution` | the modules of `lowering`, and wrapped operands in and out of ifs, ifs that return or not, functions of one name, methods, orders of two operands, and every order of two acts (printing, calls, ifs, recursion) before an answer; `Int32` of three bits, arguments -1 and 2, four frames | Each instruction takes its own operands (`OwnValues`), where lists of statements end in their only return each block ends in its only terminator (`OneTerminator`), calls reach the function they were typed with (`CallsReachTargets`), and a module whose operands each push one value is emitted (`DirectIsEmitted`). What is printed and returned is what the tree says, and the tests' modules are emitted and do nothing undefined (`ComputesTree`); a wrapped value finds its own `toString` (`DispatchFinds`); every compilation and every call ends (`CompilerEnds`). |

Bounds. Four characters hold a word or number with its first, last and one inner
character and the character that ends it, every pair of symbols between two
others, and each pair around a byte 0. As four characters hold no number a
double is too small for, numbers of three digits, and those with a dot and an
exponent, are `OutOfRange` in the instance. Five tokens hold every pattern of the lexer's one slot: a peek, the
skipped blanks before and after it, and two takes on each side. The parser runs
need no bound on behaviour, since a parse is finite; what bounds them is the
set of sources. A statement occurs alone, before and after another, and nested
once; longer lists repeat the same loop of the same visitor.
The resolvers and the lowering are finite for each module too. Two parameters of
independent types, three for the caster, and two operators in a row reach every
branch of the type rules; one overload set shows that the first declaration
counts; `if`s nest three deep, as deep as the shared stack has distinct frames.
Three bits are the fewest in which signed and unsigned orders, sums and the one
undefined quotient differ, with 1 and -1 in range; a function that calls itself
until its argument is 1 ends within four frames for some inputs and not for
others. The run compiles some 1430 modules and has about 220,000 states.
`TypesRight` says of each expression which type the types of its parts and the
declarations give it (`TypesOfParts`), without the passes, their order or their
contexts; from the leaves up this fixes every type of the tree. The expected
results of `ComputesTree` (`Meanings`) are computed from the tree alone, by
interpreting it.

What the `parser` run leaves out of "well-formed" is what the other runs and the
hazard list say about the code: chains of operators the map does not govern,
several unterminated expressions in a row, a `(` that starts an operand (a null
is followed), an `else` on a line of its own (it is not part of the `if`), a
`while` body with semicolons (the parser visits the semicolon for ever), a `for`
loop (its visitor follows a null subject). A token that was only peeked when the
text ends is lost, since `hasNext` does not count it: in `if a { b } a` as the last
line of a module the second `a` is, and in `a . b ; c` the `c`; `ParsedToTheEnd` names
the cases.

What the `execution` run leaves out, or leaves open, is what the code does not
carry through:

- `visitIf` emits no jump from the end of the `if` block (the call is commented
  out, `LLVMBackend.cpp:583`), although `README.md:12` lists `if`: a block that
  does not return runs off its end. `OneTerminator` is about the modules
  whose lists of statements, of functions and of ifs, end in their only return,
  with no return as an operand and no block as a statement. Both exemptions are
  needed: of `ret (ret 1) == b` (`ReturnOperand`) each `ret` becomes a return, and
  the instructions of a block that is a statement (`BlockStatement`) follow the
  return before it.
- A method call pops one value more than its caller (`LLVMBackend.cpp:189`,
  against the comment at 137): `"text" == a.toString()` loses its left operand.
- A function with an array parameter ends in "type not solved" (`:85`), although
  `Types.h:602` has an array type.
- A function with the name of the C function it calls, as `sdk/math/sqrt.roc`,
  finds itself (`:226`).
- `>` is lowered to an unsigned `>=` and `<` to `<=`: `ComputesTree` asks of `<` and
  `>` only what the strict and the other order, signed and unsigned, agree on.
- A call of a function that returns `Any` or `String` is emitted with the struct
  for its result (`:226`), the function with a pointer to it (`:76`).
- A wrapper cast to `Any` is no pointer to a `String`: passed as a `String` it is
  open.
- `MIRVisitor` skips the blocks of ifs (`MIR.h:959`), so `println` in an `if` is
  handed a bare value.
- `1ex` is an `IntNumber`: `isNumber` does not look at the character after an `e`.

Fairness. `ParserSpec` has `WF_vars(ParserNext)`: the program is sequential and
takes its next step; so do `ResolverSpec`,
`LoweringSpec`, `ScanSpec` and `EmissionSpec`. `ProcessSpec` has weak fairness of
`Compile` and of `Run`, the compiler and the processor, and none of the client's
calls: nobody has to make one. `LexFairSpec` has weak fairness of `NextToken`, the call
that the loops of `ModuleParser::parse` repeat until the text ends. Deadlock is
not checked in the scanner, parser, resolver, lowering and execution runs
because a finished text, parse, compilation or session stops.

## 4. Proofs

`RocLexerProofs` proves, for every set of sources of strings:

- `TypeCorrect`: `LexSpec => []LexTypeOK`;
- `TokensSafe`: `InOrder`, `NoTokenLost` and `PendingToken` hold always;
- `CurrentTokenRight`: so does `CurrentToken`;
- `PeekIsKept`: the action property `PeekPromise`;
- `Refinement`: `LexSpec => StreamSpec`: the initial states map to initial
  states of `TokenStream`, and every step of the lexer is one of its steps or a
  stutter (peeks, deletions and a second end are stutters).

The inductive invariant `IInv` is the conjunction of the type invariant, the
four safety invariants and `BehindCursor`, the facts that tie the cursor to the
histories: what was handed over lies at or behind the cursor and strictly behind
the peeked token, the end is handed over only when everything was scanned, and a
deleted token is a newline or was handed over. Without `BehindCursor` a take
could not be shown to hand over a later token than the one before. Every way to take a token is first shown
to be one `Take(t)`, and `Take` to preserve `IInv` once. The existence of the
next solid token is an application of the least-element principle. The only
assumption is `SourcesAssumption`: a source is a sequence of strings.

`RocScannerProofs` proves, for every set of texts and of keywords:

- `ScanTypeCorrect`: `ScanSpec => []ScanTypeOK`;
- `TextKept`: `ScanSpec => []Lossless`;
- `TextInOrder`: `ScanSpec => []InTextOrder`;
- `NumbersReadRight`: `ScanSpec => []NumbersRead`: `isNumber` and `resolveToken`
  against the definition of a decimal;
- `TokensBeginRight`: `ScanSpec => []LongestMatch`: the tokens begin just where
  `Begins`, a definition over the text that knows no cursor, says.

The inductive invariant `ScanInv` adds `WordAtHand` to the three: the word at hand
is increasing and lies behind every token returned, only bytes 0 stand between
the start of the call and its first character, and there is no word between
two calls. Without it
a word could not be shown to be in order once it becomes a token. Each step is
one lemma, over what reading on does to the cursor (`ReadOn`) and what one more
token does to the characters given (`GivenMore`, `TokenInOrder`). For
`NumbersReadRight` the word at hand is tied to `isDigit`: as long as only digits
and dots were read it is what `Decimal` says of the part read so far. For
`TokensBeginRight` the invariant adds that the heads so far are the beginnings
below the frontier, and that the word at hand is a whole run of word characters
from its first to the cursor. The
assumptions are `TextsAssumption` (a text is a sequence of characters) and
`KeywordsAssumption` (no keyword begins with a digit); `OutOfRange` may hold any
words.

`RocParserProofs` proves, for every set of sources, names and numbers:

- `ParserIsClient`: `ParserSpec => ClientOfLexer`: every step of every visitor
  is a call of the lexer, a deletion it allows, or leaves it alone;
- `NoDoubleDelete`: `ParserSpec => []DeletedOnce`: what a visitor deletes was
  not deleted before, by a visitor or with a node, and no node owns it;
- `TokensSafeParsing`: the safety invariants of the lexer hold while parsing.

The three need one another: that a deletion is allowed needs that the token was
not deleted before, which is a fact about whatever visitor handed it on. The
inductive invariant `ParserInv` is `IInv` of the lexer with

- `StackOK`: the stack is a sequence of frames with `ModuleParser::parse` at the
  bottom, and a suspended visitor is never at a place (`Busy`) where it uses its
  token when it goes on;
- `FreedBehind`: what is deleted lies behind the cursor, so a new peek is alive;
- `HeldKnown`: the visitors and their nodes hold only tokens that were handed
  over, so one that is handed over now (`Fresh`) belongs to none of them;
- `WorkOK`, while the parse runs: the token the visitor at work is about to
  delete is its own, alive and owned by no node (`Spare`), or is the peeked
  newline; and only between `CondDelete` and `CondSkip` is a deleted token peeked.

That two nodes never own one token cannot be proved, since they may
(`OwnedOnce`). `NoDoubleDelete` is what holds for all sources: the deletions
written out in the visitors are never the second one of a token.

The lemmas `GotoStep`, `CallStep`, `ReturnStep` and `StopStep` show once, for each
way a step leaves the stack, that the invariant is kept whatever the lexer was
asked; the cases of the eighty actions only have to name their frames. The two
steps around the deleted peeked token are the exception and have proofs of their
own.

Over `ParserInv` a second invariant, `VisitorsInv`, gives

- `ParserTyped`: `ParserSpec => []ParserTypeOK`;
- `DepthBounded`: `ParserSpec => []DepthBound`;
- `ParsedWhole`: `ParserSpec => []ParsedToTheEnd`.

A bound on the length of the stack is far from inductive: a visitor may start
another one without taking a token, as an `ExpressionVisitor` does at an operator
and an `IfVisitor` at its block. `VisitorsInv` therefore asks of every visitor on
the stack, at depth `k`, how much `Room` (two for each token taken, and one) there
must be above it (`Roomy`): one who was given a token needs more the more visitors
it may start on that token, and one who was given the end of the text starts
none, so it needs no more than its own place. Room never shrinks, so `MoreRoom`
settles every suspended visitor once, and a step has only the frames it writes to
show. For the end of the text, `Leaves` says which visitors may leave a token
peeked, and `Knows` what `ModuleParser` and `IfVisitor` know of the tokens they
looked at. `GotoVisits`, `CallVisits`, `ReturnVisits` and `StopVisits` show once, for
each way a step leaves the stack, that `VisitorsInv` is kept.

A third one, `TreesInv`, is about the trees the visitors build, and gives

- `NoNullInTrees`: `ParserSpec => []NoNullNode`: the tree of a module that parsed
  has no null pointer where the later passes look;
- `NoNullAnywhere`: the same however deep they look, and not only as deep as the
  source is long.

Before the end null pointers do occur: an expression visitor hands one back when
it finds no expression, and tuples, conditions, `while` loops and the module's
statics gather what they are handed. `TreesInv` says who may hold one (`HoldsNodes`,
`Lax`), what each visitor hands back (`HandsBack`), and that the functions of the
module are `Whole` at any time and its statics when it parsed. A node is whole if
it is in a set of nodes that holds the children of its nodes (`Closed`), which
says of a tree of any height that it has no null in it without induction over the
tree; `WithinClosed` then shows that nothing reached from whole roots is null. The
left operand that a prefix operator lacks is no child in the model; what the
passes do with it is said in `RocResolvers`.

The assumptions are `SourcesAssumption` and `KindsAssumption` (no name or number is
of the kind of `eofT` or of a newline).

`RocResolversProofs` proves, for every set of programs, of any size and height:

- `ResolverTyped`: `ResolverSpec => []ResolverTypeOK`;
- `ReadyForLowering`: `ResolverSpec => []LoweringReady`: what resolves holds
  everything the lowering reads;
- `ConditionsChecked`: `ResolverSpec => []ConditionsAreBool`;
- `ProblemsReported`: `ResolverSpec => []EveryProblemReported`;
- `CallsTyped`: `ResolverSpec => []CallsFit`: a call with a target has its type
  variables, its receiver and the arguments the lowering reads typed;
- `TypesAgree`: `ResolverSpec => []TypesRight`.

That a pass was over a node is nowhere in the state: it follows from what is not
left on the agenda. The inductive invariant `ResolverInv` therefore speaks of
`Visiting(p)`, an entry of the agenda will still reach `p`, `Open(p)`, an entry of
the agenda will still open `p`, and `Signing(p)`, its signature is not done; and
says that no two entries open the same node (`Once`), that a node which is not to
be visited any more has its type, target, local or report, and that one which is
has none. Without `Once` a second visit could undo what the first did; without
the second half a report could be made twice or for a node of an earlier pass.
`Continues` shows once what a step has to show of the entries it puts on the
agenda; the steps are cases of it. Where a problem can be told only from the
types (`ConditionsAreBool`, `LoweringReady`) the end of the last pass,
`PassEnded`, turns "not on the agenda" into "resolved".

`CallsTyped` and `TypesAgree` need two more conjuncts. A target is looked for when
its call is left, long after its arguments were put on the agenda, so `CallsInv`
says of every call that is still to be left that what it awaits is typed or
stands before its end on the agenda (`Pledged`). `TypesGrow` is `TypesRight` while
types are still missing: what is typed has the type of its parts, which are
typed too (`OfParts`), so that it stays right when the types of others are
set; a type node has the type it says, where an array stands for the pointer its
`clone` is (`AsAnnotated`); the signatures are complete, but for array
parameters, once that pass is over, before the first body is typed;
and what has a value and no type yet is still to be visited (`ValuesAwaited`).
Without the last an expression no pass reaches could stay untyped; without the
signatures a call of a function declared below it could be given no type, or
that of a later declaration.

`RocLoweringProofs` proves, again for every set of programs:

- `OperandsTheirOwn`: `LoweringSpec => []OwnOperands`;
- `StatementsInOrder`: `LoweringSpec => []StatementsKept`;
- `CastsReached`: `LoweringSpec => []CastsReach`;
- `LoweringTyped`: `LoweringSpec => []LoweringTypeOK`: the operands of every value
  and what the two stacks hold are values of the MIR, each has a type or is known
  to have none, and only a call with a target has its arguments cast;
- `PlainLowered`: `LoweringSpec => []PlainIsLowered`.

`ToMIRVisitor` pushes and pops by count, so what an operand is depends on
everything the traversal did before. The invariant `LoweringInv` says what that
is without replaying it: `Stack(p)` and `Held(p)`, two functions of the tree
alone, are the value stack and the held values that the visit of `p` finds
(the values of what stands before `p` and its ancestors). `Before(e)` and
`After(e)` are what an entry of the traversal finds and leaves. The invariant is
that the entries form a chain (`Chained`: each finds what the one before it
leaves), that the stacks are what the first of them finds (`Agrees`), and that
every value, function and cast built so far is the one of its node
(`ValuesFit`, `FunctionsFit`, `CastsFit`). `ChainOfVisits` and `ChainOfKeeps`
show that the entries a visit is unrolled into lead from what it finds to
what it leaves; a step then has only its own pops and pushes to show. How many
values are held and how many functions are finished is known of every module,
which values are on the stack of plain ones only: an assignment or an `else`
shifts the stack for good. `CastLoopFits` is about the loop of
`SmartTypeCaster` for any number of arguments.

`LoweringTypes` adds what the passes before have left: `CallsInv` of the resolvers,
that every value but a block and a return without one has a type (`AllValued`), and
that casts are made for calls with a target only (`CallsCast`). `PlainLowered` follows
from both invariants, one way to crash after the other: in a plain module every
expression is one `TypeResolver` visits, so nothing read is missing; `Stack(p)`
says that a visit leaves its one value, so no stack is popped when empty; and
the caster's loop stops early only at an argument beyond the parameters
(`std::vector::at`) or at a `ccall` without a type.

`RocEmissionProofs` proves, for every set of programs:

- `OperandsTakenOff`: `EmissionSpec => []OwnValues`;
- `CalleesReached`: `EmissionSpec => []CallsReachTargets`;
- `EmissionSucceeds`: `EmissionSpec => []DirectIsEmitted`;
- `BlocksEnd`: `EmissionSpec => []OneTerminator`;
- `EmissionTyped`: `EmissionSpec => []EmissionTypeOK`: what is on `valueStack` is a
  value of the MIR or a cast of one, every instruction belongs to a function that
  was lowered, and the block at work exists.

What is on `valueStack` below the operands of the instruction at hand cannot be
told in terms of the tree: returns and branches stay there for ever, and so does
the value of every expression that is a statement. `EmissionInv` therefore says
nothing of it. `Leads(e, before, after)` is what an entry of the traversal needs
to find on top of the stack and what it leaves there; `Flow(t, top)` that the
entries of `t` can be passed one after the other beginning with `top`, where any
value may forget what lies on top, as that of a statement does; and the invariant
is that the stack ends in some `top` from which the rest of the traversal flows
(`Rests`). A step takes the head
entry off that chain, or puts the entries it unrolls into in its place, which
lead from the same to the same (`OperandsFlow`, `ArgumentsFlow`, `IfFlow`,
`StatementsFlow`). That each instruction took its own operands is then a fact
about the one entry `leave` that built it. For `CallsReachTargets` the invariant
keeps `TargetsNamed` from the resolvers on: a target has the name and the arity
of a function of the module, so that the first such function exists
(`LeastElement`). For the type visitor it keeps `SignatureNames`: the type of a
parameter is one the visitor knows unless the source says `Bool` or is an array.

`OneTerminator` speaks of the blocks at the end, and needs to know all along which
block each entry of the traversal will find. `BlockInv` says it of the modules the
property is about: an entry finds the block of the one before it open, or begins
one (`Linked`); what is left before the end of an `if` is deeper in the tree than
the `if` (`Nested`), so that an end is never met before its own block was filled;
the second blocks of the ifs that are `Pending` are there and empty; and then the
block at work has no terminator, and every other one ends in its only one
(`BlocksAre`). The depth is that of the paths in the tree (`DeeperThan`), which
the lowering's invariant gives: the parts of a value are below it.

`EmissionTyped` rests on `EmissionStands`, which also says that branches lead to
blocks that exist: while the emission is under way, the block an `if`
goes on in exists or its branch is still to come before its end
(`Prepared`), and a function without a block is still to be visited (`Declared`).
Neither can be said of the finished code alone, in which an `if` left half done
would branch to nowhere.

The resolvers and the lowering have the assumptions `HeightAssumption` (a bound
on the height of the trees is a number), `ProgramsAssumption` (a program is a
module of nodes with the children their classes have), `NamesAssumption` (names,
numbers and the other kinds of nodes are apart) and `DoublesAssumption` (doubles
are numbers); TLC evaluates them on every instance. What a recursive function
(`At`, `Found`, `Parts`, `CastLoop`, `FlattenSeq`) computes is proved with
`SetInduction`: the set of the numbers for which a claim holds contains 0 and is
closed under the next one. Its lemmas take sets instead of predicates, which
is what makes induction available to the provers at all.

`RocExecutionProofs` proves, for every set of programs, every width of `Int32` and
every depth of the stack:

- `PhasesOrdered`: `ProcessSpec => []PhasesInOrder`: no phase begins unless the
  one before it ended well, and nothing runs but what was emitted to the end.
  `PhasesInOrder` is inductive; a lemma for each phase says what its steps leave
  alone.
- `PrintlnDispatches`: `ProcessSpec => []DispatchFinds`. `DispatchFinds` speaks of
  the objects once there are vtables and is not inductive: a `vtables.init` that
  runs after an object was made needs that the object was honest before. The
  invariant `DispatchInv` adds that every object with a type id has the one of
  what it holds, that the map is empty or is the two tables, and that
  the exception is thrown only before `main` has begun.
- `EmissionInProcess`: `ProcessSpec => [](OwnValues /\ CallsReachTargets /\
  DirectIsEmitted /\ OneTerminator)`: a step of the client or of the program
  leaves the compiler's state alone (`ProcessStep`), so what `RocEmissionProofs`
  shows of the emission holds of the process the run checks.

- `ProcessTyped`: `ProcessSpec => []ProcessTypeOK`, for the type invariants of all
  phases together. That of the run needs `FramesInv`: the stack has at most
  `MaxDepth` frames, which bounds where an object may live, and frames exist only
  of emitted code, whose blocks no step takes away.

The assumptions are those of the resolvers and `ExecutionAssumption`.

Model-checked only:

- liveness (`ReachesEnd`, `ScanEnds`, `Termination`, `CompilerEnds`), which the
  prover does not reach;
- what is said through an operator that is recursive over trees, or of
  particular programs: `RoundTrip`, `TestVerdicts`, `ComputesTree`.
  The prover loses its main backend in a module that declares such an operator,
  and what the passes make of one given program is a long run, not an invariant;
- `LiveTokens`, which is about well-formed modules only: of an arbitrary source it
  is false, as `parser_params` shows; and `OwnedOnce`, whose exceptions are those
  of one edit.

## 5. Not modelled

Messages; the numbers `strtol` and `std::stod` read, and so which words are out of
range; AST printing;
`ReferenceExpressionVisitor`, `DslArgumentsVisitor` and `ArrayCreateExprVisitor`,
which nothing starts. Of the deletions of the parser: a `for` loop deletes two
tokens and drops the semicolons of its head just before it follows its null
subject; the unwinding of an exception destroys the nodes its visitors hold, and
`ModuleParser` those of the tree at the end, when nothing reads a token any more;
and nodes may own `eofT` or `spaceT`, which are one object each: the function an
unfinished text ends in takes `eofT` for its `}` and would delete it with the
tree. The resolvers and the lowering leave out arrays, tuples and
parentheses, globals and `for` loops, which no program gets through the parser
and the literal resolver with a type; the emission leaves out what only these
build. `LabelResolver` numbers labels nobody reads, and `HeapAllocatorLifter`
changes arrays only. A module whose tree holds the wild type pointer of
`TypeNodeVisitor` is not resolved: reading it is undefined. Of the runtime,
reference counts are set and never read by emitted code, and `myPrint`, `myDecr`,
`myInt32ToString`, `myWrapCharPtr`, `RawStringHashCode` and `RawStringEquals` are
called by none; memory layout is not modelled. `tests/Catch.h` is a vendored
framework.

Planned, in this order:

1. `RocDriver`: `compile(file)` and `main`, the module stack and `output.s`.
2. Several modules in one process, where `addVTableMapping` keeps the first
   module's table of a type.
