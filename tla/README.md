# Specifications of the Monkey interpreter

Monkey (`src/`) is a small language with two engines: a compiler with a stack
machine, and a tree-walking evaluator. This directory models both, the lexer and
the parser in front of them, and the read-eval-print loop around the first in
TLA+, checks the models with TLC, and proves properties of the lexer, the symbol table,
the compiler, the machine and the evaluator with TLAPS.

## 1. The system

| component | source | state | operations |
|---|---|---|---|
| lexer, tokens | `lexer/`, `token/` | input, position, current character | `NextToken` and its four loops |
| parser | `parser/` | two tokens at hand, errors, the Go call stack | `ParseProgram`, a parse function per kind of token, Pratt parsing |
| syntax tree | `ast/` | none | `String` |
| symbol table | `compiler/symbol_table.go` | linked tables: store, numDefinitions, FreeSymbols | `Define`, `DefineBuiltin`, `Resolve`, `NewEnclosedSymbolTable`, `Outer` |
| compiler | `compiler/compiler.go` | scopes (code, last two instructions), constants, symbol table | `Compile` for each node, jump patching, `Bytecode` |
| instructions | `code/` | none | `Make`, `ReadOperands`, `String` |
| virtual machine | `vm/` | constants, stack, sp, globals, frames | `Run`: one case per opcode; `push`, `pop`, calls, returns |
| objects, built-ins | `object/` | none (values) | hash keys, `Inspect`, six functions |
| evaluator | `evaluator/` | environments, linked; the Go call stack | `Eval` for each node, calls of functions |
| loop | `repl/` | constants, globals and symbol table kept between lines | read, parse, compile, run, print |
| comparison | `benchmark/` | none | the same program on either engine |
| start | `main.go` | none | starts the loop |

**Interaction.** Everything is sequential; the parts call each other. The parser
asks the lexer for a token at a time and has two at hand. Both engines take the
tree it returns for complete. For each line the loop makes a compiler on the *shared*
symbol table and on the constants of the lines before, and a machine on the *shared*
globals. The compiler addresses everything by number (slots, elements of the pool,
free variables, jump targets, operand counts), and the machine trusts every number:
`pop` looks at nothing but `sp`, `callClosure` makes a hole for the locals without
looking at what is above it, `OpGetFree` indexes the closure. The evaluator shares
environments between functions, passes errors and returned values (in a wrapping)
through the same variable as all others, and has Go's `nil` as a value. What is
hard to get right is therefore the agreement between pieces of state that are
built at different times:

- where each loop of the lexer and each parse function stops, and where its caller goes on;
- precedences that are handed through the recursion of the parser;
- errors that are recorded in one place, and `nil` that is returned in another;
- the symbols an inner function captured, while the outer one goes on being compiled;
- the code that was emitted, and the last-instruction bookkeeping that cuts and overwrites it;
- the heights of the stack on the two ways through an `if`, or out of a function;
- frames, their base pointers, and the slots of the stack between them, with what earlier calls left there;
- environments, and the functions that keep them;
- names, globals and constants of lines that ended in different ways;
- what one engine does with a program, and what the other does;
- the limits: stack, frames, operand widths, int64, the end of the input.

There is no concurrency, no persistence and no network, hence no crash
recovery, no message loss and no timeouts to model.

**What makes each part correct.** Lexer: the longest token at each place, nothing
skipped, every call returns. Parser: it ends; without errors, the tree has no
holes, and no token was dropped; what is printed for a tree is parsed as that tree. Symbol table:
static scoping, stable indices. Compiler: well-formed code with a balanced stack.
Machine: frames nest, nothing unset is read, limits are errors. Evaluator: wrapped
values, errors and `nil` stay where they belong. Both engines: the same answer.
Loop: earlier lines keep their meaning. Instructions: what is read is what was made.

## 2. Modules

    Lexer                    LexicalScope  <- refined by -  Scoping  - uses ->  SymbolTable
                                                              ^                     ^
    Parser <- Grammar                                         | refined by          | uses
      |                                                       +------ Compiler -----+--> Code, Syntax
      v                                                                  ^   ^            ^
    Syntax                       Verifier <-- StackDiscipline - extends -+   |            |
      ^                                                                      |       Disassembler
      |                  Engines -- extends --> Execution -- extends -->  Repl --> VM --> Code, Object
      |                     |
    Evaluator <- Evaluation-+

| module | models | correspondence |
|---|---|---|
| `Lexer` | `lexer.go`, `token.go` | a step per character in the loops, a step per token else. A token is its type and the two positions between which its literal is; characters are classes |
| `Parser` | `parser.go` | `calls` is the Go call stack, innermost call first; `result` is what the last call returned. One action runs a parse function from one inner call to the next. Of the errors, whether there are any |
| `Grammar` | `ast.go`, (property) | what `String` prints of a tree, as tokens, and the source of a tree as one would write it; the parser reads either |
| `SyntaxTrees`, `Subtrees` | `ast.go` | the trees that the engines are given, as constants: any set of trees of the grammar's form. `TreesAssumption` is what `WholeTree` shows of the parser's |
| `Syntax` | `ast.go` | constructors for trees, and what each kind of node has inside. A program is a block. A hash, a Go map in the code, is a list of keys and values in an order the compiler may sort them into: a source with keys of equal text has a tree for each order of them |
| `SymbolTable` | `symbol_table.go` | operators on the list of linked tables, the global one first. `Resolve` is one operator: the Go recursion defines a free symbol in each table from the owner inwards |
| `Scoping` | the calls `Compile` makes on the table | an action per call, in any order the grammar allows; `reply` is the last answer |
| `LexicalScope` | the promise: a name means the innermost definition around it | abstract specification; `Scoping!LexicalScoping` is the refinement. The home of a captured symbol is found by following the captures outwards |
| `Code` | `code.go` | an instruction is a record with the operands as `Make` cuts them, and occupies `InstrLen` positions |
| `Disassembler` | `code.go` | the same instructions as bytes: `Make`, `ReadOperands`, and the loop of `String`; `RecordsStandForBytes` links them to the records of `Code` |
| `Compiler` | `compiler.go` | `todo` is the Go call stack of the recursive `Compile`; one action runs a handler from one inner call to the next |
| `Verifier` | (property) | what the machine takes on trust about code: stack heights, indices that lead somewhere, hashes of pairs. The sources have no such check |
| `VerifiedCode` | (assumption) | `VM` on code that passes `Verifier` |
| `StackDiscipline` | (property) | the compiler's code passes `Verifier` |
| `Object` | `object.go`, `builtins.go` | values; the field `at` is the address by which Go compares pointers |
| `VM` | `vm.go`, `frame.go` | one action per group of cases of `Run`; the whole stack array, with stale contents |
| `Repl` | `repl.go` | composes instances of `Compiler` and `VM`; what a line keeps and what it drops |
| `Execution` | (properties) | the loop as a whole, and the history variables `flaws` and `standing` |
| `Evaluator` | `evaluator.go`, `builtins.go`, `object.go` | `calls` is the Go call stack of the recursive `Eval`; environments are on a heap, and functions hold the number of theirs |
| `Evaluation` | (properties) | the evaluator as a whole, and the history variable `oddities` |
| `Engines` | `benchmark/main.go`, (properties) | composes `Execution` and `Evaluation` on the same program; the variable `differences` |
| `ScopingProofs`, `WellOrder`, `LexerProofs`, `CompilerProofs`, `StackProofs`, `DisassemblerProofs`, `EvaluatorProofs`, `VMProofs` | (proofs) | section 5 |
| `SamplePrograms` | | the programs that the engines run |
| `MC*` | | constants for TLC |

A few correspondences that are not obvious:

- Behind the end of its input the lexer reads zeros, and its position goes on. All
  positions two or more behind the end are the same for it, and are one in the
  model (`LastPosition`); so are those of the parser behind the end of the tokens.
- A parse function that fails returns Go's `nil`: the value `Missing` stands for
  it in trees and in results.
- `frames[i].pc` is the position of the next instruction; Go's `pc` is one less,
  because the loop of `Run` increments it first.
- When an instruction fails, the model leaves stack and frames as they were
  before it. Go has already popped by then, but every caller drops the machine.
- `globals` is a function on the slots written so far; the array of the code has
  a slot for every operand there is.
- An error of a built-in function is a value in the virtual machine. A panic is
  an outcome; the loop does not recover from it.
- The evaluator ranges over a Go map for the pairs of a hash: any order is possible.
  The field `made` counts its objects, so that each has an address of its own.
- The stack of Go is a number of nested calls of functions (`MaxDepth`).
- Hash keys are compared by value: collisions of FNV are left out.
- Definitions preceded by a comment "Mutant" are deliberate mistakes that show
  that the properties notice them; no action uses them.

### Flaws, oddities and differences

Both engines accept programs that they do not do justice to. The history
variables name the reasons, each by a definition on the state in which it happens, and most
properties are about executions without, or say what a reason may lead to. They are part
of the models, and of the runs. For each reason that `EnginesAgree` excuses there
is a program in the run on which the engines do not agree for this reason
alone; without the excuse the run fails.

| variable | reason | what the code does |
|---|---|---|
| `flaws` (what the compiler compiles wrongly) | valueless | a branch leaves no value, and the stack pointer sinks |
| | top return | a return outside of functions pops the last frame, and the machine panics |
| | branch let | there are no block scopes: a name stays visible where it was never assigned |
| | self reference | a name is used in its own definition, other than by a global function in its body |
| | unfinished | a line that ended with an error: its names are defined and may have no value |
| | empty line | there is nothing to print |
| `oddities` (of the evaluator) | no value | a block or program is empty or ends in a `let`: its value is Go's `nil` |
| | nil value | such a `nil` is an operand, an argument, an element or the answer |
| | early return | a return inside of an expression leaves only the block around it: the wrapped value becomes an operand or gets a name |
| | unchecked error | operands of infix operators are not looked at for errors |
| | late binding | a name gets another value after a function was made in its environment; the machine's closures have copied the old one |
| | hash order | pairs of a hash literal are evaluated in the order of a Go map |
| `differences` (of the machine) | error value | the built-in functions return errors as values, and the machine goes on |
| | string comparison | strings are compared by address; the evaluator refuses to compare them |
| | mixed comparison | `1 > true` panics |
| | wrong arguments | the number of arguments is counted; the evaluator ignores some, or panics |
| | undefined variable | names are looked for before anything runs |
| | duplicate keys | the last of equal keys wins, in the order in which sorting left them, which for keys of equal text is any |
| | swapped operands | `a < b` is compiled as `b > a`, and the other error comes first |
| | too deep | each engine has limits of its own |

## 3. Runs

| run | states | time | question |
|---|---|---|---|
| `lexer` | 158 thousand | 15 s | every input of up to four characters |
| `parser` | 631 thousand | 75 s | 2802 programs, and 22 thousand arbitrary sequences of tokens |
| `scoping` | 62 thousand | 25 s | every order of calls on the table |
| `compiler` | 70 thousand | 15 s | 2737 programs, compiled |
| `machine` | 94 thousand | 60 s | every verified function of four instructions, run |
| `session` | 16 thousand | 5 s | three lines, out of fourteen, in every order |
| `evaluator` | 52 thousand | 10 s | 1955 programs, evaluated |
| `engines` | 116 thousand | 40 s | the same programs, on both engines |
| `disassembler` | 35 thousand | 25 s | the bytes of instructions, and arbitrary bytes |
| `locals`, `top_return`, `stack_pointer` | | 15 s | what the sources say and the code does not do |

**`lexer`.** One character of each class that the switch tells apart, two letters that
spell a keyword, and a character of none. Four characters are enough for a string with
something in it, an operator or a word between two others, and for a zero in front of
more. A caller asks for at most two tokens more than there are characters (`MaxTokens`),
which is more than the parser does.

- `TypeOK`: every literal can be sliced out of the input. Proved for all inputs (section 5).
- `LongestLexemes`: `==` is not split and words do not end early, although the lexer only
  looks one character ahead. `Lexeme` defines a token by itself, without the lexer.
- `NothingSkipped`: tokens do not overlap, and only blanks are between them. Proved, too.
- `EndIsFinal`: the end of the input is reported again and again, because the parser
  goes on asking; and only if all strings are closed.
- `NextTokenReturns`: every call returns, except in a string that is never closed: then it is
  lost, and remains so.

**`parser`.** Trees of two operators of every kind (five infix, two prefix, index, call, array,
hash) one beside or under the other, which shows every pair of precedences on either side;
`if` and functions with every kind of block, inside of the other expressions; as `String` prints
them and as one would write them. And every sequence of up to three out of 21 tokens, alone or in a
block, and of two in seven other contexts: most of the ways to be wrong are one or two tokens long. A block
that never ends collects statements without end: the model keeps three (`MaxStatements`, the bound in
`AppendStatement`). The lists of the trees that are checked are not longer, so that it cuts off nothing else.

- `RoundTrip`: precedence, associativity and grouping. A tree that is printed is parsed as that tree.
- `WholeTree`: without errors, no node is missing anything. Both engines rely on this.
- `NothingDropped`: without errors, every token but separators has its place in the tree, in order.
- `ParsingEnds`: parsing ends, unless it reaches the end of the source inside of a block; then it never does.

**`scoping`.** One name and one built-in that can be shadowed, four levels, two
slots per table. Four levels are needed for a capture to pass through two
functions that do not use it; one ordinary name is enough because the table
treats names independently of each other, except for slots, and the built-in is
the second name. The bounds are in the guards (`Levels`, `Slots`), and the
proofs do without them.

- `WellScoped`, `FreeMatchesOuter`, `SlotsDistinct`: section 5.
- `EmittedIndicesStable`, `ResolvePreservesEntries`: what a step may never do.
- `LexicalScoping`: the table implements `LexicalScope`.

**`compiler`.** Programs of two statements: an `if` with every combination of
empty, `let`, `return` and expression branches; functions with up to two
parameters and every body of at most two such statements; the other expressions;
and all of these inside three nested functions. Operands have their real width.

- `LastInstructionTracked`: `lastInstruction` is right whatever was cut and overwritten.
- `ControlStays`: jumps are patched and lead forward to instructions, and control leaves
  a function only through a return.
- `ClosuresMatch`: `OpClosure` and the function agree on free variables and locals.
- `CodeVerified`: without branches that have no value, and returns outside of functions,
  the code passes `Verifier`: each position has one stack height, no instruction pops
  what is not there, every index leads somewhere.
- `ImplementsScoping`: the compiler's calls are behaviours of `Scoping`, with no bound
  on levels and slots, so that what is proved there applies to it.

**`machine`.** The machine alone, on code that `Verifier` accepts: every function of
three instructions out of nineteen and a return, and those in which one or two of
the remaining instructions work on what others pushed, that takes one argument and
captures one value, called on itself or on a truth value. Recursion runs into the limit of
the stack (6) and that of the frames (3). The functions are also called with four values below,
so that the stack has room for the argument and none for a second local. Together with `CodeVerified`
this is the argument why compiled programs are safe, in two halves that meet at `Verifier`; both halves
are proved (section 5).

- `FramesNest`: the values of each frame, its locals, the called function and
  the caller's values are in this order on the stack, and do not overlap.
- `StackEmptied`: a run that ends leaves the stack empty and only the main frame. Whether there is a value
  above `sp` to print is part of `CrashesExplained`.
- `ControlAtInstruction`: `pc` never points into an operand.
- `IndicesInRange`: the only indices that are ever out of range are that of a frame beyond the
  last, and that of a local beyond the stack: `callClosure` does not look whether the locals fit. Never
  that of a constant, of a captured value, of a built-in or of a pop.

**`session`.** Three lines are enough for a definition, a line that fails or
redefines, and a use or a repair. Names are also defined in a branch that is never run.

- `NamesHaveValues`: the symbol table and the globals agree between lines. The history variable `standing` tells
  the names whose last definition is in a line that failed, or in a branch; these may have no value. All
  others have one, whatever lines failed before, between and after: a line takes the value of no name but
  those it defines, and a definition that succeeds repairs the name. No flaw is excused beyond that.
- `PoolGrows`: functions of earlier lines find their constants.

**`evaluator`.** The sample programs: every operator on every pair of eleven values (among them a
null, a hash, a function and an error value), every built-in on them, a function
nested in a function with 110 bodies, recursion that ends and that does not, names
that are given anew, and returns, errors and missing values in every kind of
expression. Integers have four bits (`MaxInt`), so that sums and negation wrap; at most four
calls nest (`MaxDepth`).

- `TypeOK`: environments are inside of older ones, and nothing refers to one that does not exist.
- `ReturnsUnwrapped`: no name, element or answer is a wrapped return value.
- `ErrorsEndPrograms`: the first error is the answer, and there is no second.
- `NilsExplained`: what asks a `nil` for its type had it from a block without a value.

**`engines`.** The sample programs, on the machine with a stack of 13 and 4 frames (both
limits are hit), and then on the evaluator. In 1156 of the evaluations none of the excuses
of section 2 applies, and the answers are compared: as values, without addresses; as
errors, without their texts; as panics.

- `EnginesAgree`: the same answer.
- `NothingUnset`: no value the machine works with is Go's nil.
- `CrashesExplained`: the machine crashes only on a division by zero, a comparison
  of a number with something else, or too many frames.
- `EnginesEnd`: both engines come to an end with every program.

**`disassembler`.** The code of up to two instructions of each width of operands, with
operands at the limits of one and two bytes, and any five bytes out of four opcodes and two that
are none. Two errors are counted (`MaxReports`).

- `PrintsTheCode`: the lines, made again, are the bytes that were read.
- `RecordsStandForBytes`: what is read is the record that `Code` has for what was made, so
  that the other modules may use records.
- `PrintingEnds`: printing ends, unless it meets a byte that is no opcode; then it never does.

**Fairness.** `Lexer`, `Parser`, `Engines` and `Disassembler` have weak fairness on the steps
of the program (`Working`, `Step`, `EnginesStep`): it is sequential, no step waits for anything,
and the operating system runs it. Asking for a token and reading a line have no
fairness: nobody has to. The other modules state no liveness, and no fairness.

Deadlock is checked in all runs; a program that is compiled, and a part that has
ended, stutter.

## 4. Where code and comments disagree

- `locals`: the comment at `code.go:176` promises at most 256 locals. Nobody checks;
  local 256 is written to the slot of local 0. The run gives a byte two values, to
  come to the limit with a small function.
- `top_return`: `evaluator_test.go:162` has `return 10;` evaluate to 10. The virtual
  machine pops its last frame and panics.
- `stack_pointer`: `vm.go:33` says that `sp` always points to the next available slot.
  After a branch without a value it sinks below the locals.

## 5. Proofs

The theorems hold for every value of the constants. What is assumed of them is stated in the
modules, and TLC evaluates it in every run: the built-ins are a list of distinct names
(`BuiltinsAssumption`), a byte has at least one value (`ByteAssumption`), and trees have
the form that the grammar gives them, with children that are trees, too
(`TreesAssumption`). The last one is what the parser guarantees: `WholeTree` checks it there.

**Symbol table** (`ScopingProofs`, `WellOrder`). For every set of names, and every `Levels` and
`Slots` (in particular without bounds), `Scoping` satisfies `TypeOK`, `WellScoped`,
`FreeMatchesOuter`, `SlotsDistinct`, `EmittedIndicesStable` and `ResolvePreservesEntries`, and refines
`LexicalScope` (`LexicalScoping`).

The inductive invariant `IInv` is the conjunction of the type invariant and the
three state properties; none is inductive alone. That a captured symbol is what the
name means outside (`FreeMatchesOuter`) needs that free symbols carry the name
they are stored under (`WellScoped`), and is the reason why a lookup that finds a name
in no table in between may append to all of them. Distinct slots need that indices are
below `numDefinitions` and below the length of the list of free symbols. The steps of
`Define` and `Resolve` are described once by a lemma each (what the new list
of tables looks like at every level), which the preservation lemmas cite.
The refinement (`StaticScoping`) has one lemma per operation. The heart of it is what a symbol leads to
(`SymbolsLeadHome`): a global or local one to its own table, a free one to where its capture leads, and
captures lead home (`CapturesLeadHome`). `CaptureHome` is a recursive function over the levels, which
exists for every list of tables that is `Sane`; along it, the innermost definer of the captured name stays
the same, because no table in between binds the name to anything but a capture. A built-in needs one
more invariant (`BuiltinsKnown`): a name that no table defines is a built-in if and only if the
global table knows it. The mapped variables are lists made from the tables; what becomes of them
is stated separately (`ChangedList`, `LongerList`, `ShorterList`).
`WellOrder` proves that a nonempty set of natural numbers below a bound has a least and
a greatest element; `OwnerExists` uses it for the innermost table that knows a name. Where a recursive function over
positions has to exist, `RecursionSolved` says that it does, if it only looks at smaller ones.

**Lexer** (`LexerProofs`). For inputs of any length over any characters, `Lexer` satisfies
`TypeOK`, `NothingSkipped`, `LongestLexemes` and `EndIsFinal`. The assumptions are that the classes of characters do not overlap, and
that no symbol and no keyword has the type of the end or of a string. The inductive invariant
adds to the first two what has been read since the last token (`Between`): blanks only
between calls, blanks and a part of a word in the loops for words, and in the loop for strings a
start with room for the opening quotation mark; there the position may be anywhere, which is why only
the *closing* mark, and not the loop, bounds the literal. What the next token needs is one lemma
(`NextIsCut`), and each action has one on top of it.

The other two have invariants on top of this one. For `LongestLexemes` (`LongInv`), it is that what a loop has read
is of its class, or has no quotation mark in it (`Reading`). What can be a token is then said of places in the input,
not of texts (`Stretch`, `LexemesAreStretches`), and there is a lemma for each kind of token about why no
longer one starts there. For `EndIsFinal` (`FinalInv`), it is that the position is
behind the input once an end was returned (`AtEnd`), and that the number of quotation marks read is odd in a string and even outside
(`Parity`). `Marks` is a recursive function; that it exists, and counts, is derived from a least counterexample (`MarksCount`).

**Compiler** (`CompilerProofs`). For every set of trees, names and built-ins, and every
width of a byte, `Compiler` satisfies `TypeOK`, `LastInstructionTracked`, `ImplementsScoping`, and
`ControlStays` if the code is `Addressable`: not longer than two bytes can count. The
hypothesis is needed. `Make` cuts an operand to its width and nobody looks at the length of the
code, so that in a longer one a jump leads somewhere else. Without the
hypothesis the invariant still says that a jump leads where it should, *modulo* the width (`Lands`).

The first part of `CompilerProofs` is about the operations on one scope. `ScopeOK` is what makes
`lastInstruction` right: it is the end of the code, and if it is a pop then
`previousInstruction` ends where the pop begins and is none, so that `removeLastPop` leaves
a last instruction that is right again. That two pops never follow each other is not
a property of a scope but of what is emitted, so `Emitted` has it as a hypothesis. There is a lemma for
each operation (`Emitted`, `Kept`, `ChangedJump`, `Returning`), which says what becomes of the
jumps.

The rest is about what is left to do. The invariant assigns to each task in `todo` a level, the
scope it works in (`Plan`): levels fall by one behind each `leave`, and only there. A jump that is not patched
yet is in the scope of the task that will patch it, and the task cannot be
missed (`Holds`). A jump that is patched leads to an instruction, or to the end of the code while the next
task there is certain to emit one that is not cut off again (`Emits`, `JumpsCared`): this is
where `KeepValue` might remove what a jump leads to. Whether a task leaves a value and the next one takes it
(`Valued`, `Consumes`, `Needs`) shows that a pop follows no other. A function
is finished when its `leave` is the first task; the levels say that nothing is held for it then, so all of its jumps land.

That the compiler implements `Scoping` is a step-by-step simulation: a step of
the compiler is one step of the table or none (`CallsAllowed`). `leaveScope` never leaves the
global table because scopes and tables have the same number, and the plan goes on in
the scope outside. From there, what `ScopingProofs`
shows holds during every compilation (`TablesStaySound`, `CompilesLexically`).

The last part shows `ClosuresMatch`, for compilations in which the code is always `Writable`: there are never more
constants than two bytes can number, and no function captures as many values as a byte counts. `Make` cuts the
operands of `OpClosure` to these widths without a complaint, so that beyond them a closure is made of some other
constant, or of too few values. (That a function may have too many *locals* needs no hypothesis: an index that was cut
is still below their number, which is what `ClosuresMatch` says; that it is the wrong one is what `LocalsFit` finds.)
The invariant (`ClosuresInv`) ties each open scope to the table at its level: code in it
refers to slots below `numDefinitions` and captures below the length of `free`
(`CodeSound`), and so does each task that will emit there, which the levels of the plan tell (`TodoSound`).
Both only grow while a scope is open. When it is left they become the function's count of locals and the
closure's number of captures. That the arguments have room is about the parameters still to be defined:
they are the first tasks, and those defined plus those left are at least the number that `leave` carries
(`ParametersKnown`).

**Compiled code** (`StackProofs`). For the same trees, names, built-ins and widths, the code of a program that is compiled passes
`Verifier` (`CodeIsVerified`): one stack height at each position whichever way control takes, no instruction that pops what
is not there, no index that leads nowhere. The specification is `StackDiscipline`, so that nothing is
said of programs with a branch that has no value or a return outside of functions; for these it is false, as the runs
`top_return` and `stack_pointer` show. The hypotheses are about the widths of operands, all of which `Make` cuts without a complaint:

- `Addressable`, of the code that is finished: two bytes can count its positions. Otherwise a jump leads somewhere else.
- `Writable`, of every moment: two bytes can number the constants, and one byte a function's captures.
- `CountsFit`, of the trees: array and hash literals have fewer than 65536 parts, and calls fewer than 256 arguments. A call with 256 of them is compiled
  as a call with none, and the arguments stay on the stack.

All three hold in the run `compiler`, whose programs are small and whose bytes have 256 values.

`Verifier` finds the heights by going through the code that is finished; the compiler has no heights at all. The
inductive invariant (`StackInv`) provides them. For each open scope there is a height for every position of
the code and for its end, and every instruction agrees with them (`Levelled`). For each task in `todo` there is a number of values that
are on the stack of its scope when it begins, which is what the task before it leaves (`Fits`): an expression
adds one, a statement none. The first number is the height at the end of the innermost scope, and around a function it waits
for one value more (`Seen`, `Heighted`). Four points are not routine:

- The end has a height that is not determined when control does not come there, behind a jump or a return. It is chosen when something is
  emitted there (`EmittedHeights`), as the height that the next task begins with.
- A jump that is not patched is left out of `Levelled`, but the task that will patch it knows what the jump leaves (`SeenIn`), and
  that this is the height of the place where it is made to lead. The two ways through an `if` meet for this reason (`EndScope`).
- `removeLastPop` and `replaceLastPopWithReturn` make the code shorter or overwrite it, so that the end gets a height that it has not had. This is
  right only if no jump leads there already (`MayJoin`, `KeptHeights`, `ReturnHeights`); that none does, when a value is kept, is because what precedes is a pop
  or a return (`Joins`, `Yields`).
- A function is finished in the middle of the compilation of another one. What is left of its scope is a function with heights of its own (`FunctionGood`),
  the end of which control does not reach, and remains so while the pool grows.

Besides heights, every instruction refers to something that is there (`Leads`): a constant that is no function, a built-in, pairs for a hash. Locals
and captures come from `ClosuresMatch`. That a built-in is found where the symbol says needs `BuiltinsKnown` of `ScopingProofs`, and that
only functions have locals is a fact about the symbol table, too (`Loadable`). There is a lemma for each handler (`LetHeights`, `EndIfHeights`, `LeaveHeights`, ...), on
top of one about any handler that puts tasks in the place of the first one (`Continued`, `GoesOn`). At the end, the heights that `Verifier` computes
are included in those of the invariant, by a least position at which they are not (`Balances`).

With `VMProofs` below, this is the argument that a compiled program never takes from the stack what is not its own, and runs on no index out of
range but those of `IndicesInRange`. The two theorems are about one program compiled by `compiler.New`. The later lines of a session begin
with the constants and names of the earlier ones (`NewWithState`); nothing is proved of these. The run `session` checks that what
they begin with is right: names have values, and constants keep their places.

**Bytes** (`DisassemblerProofs`). For any bytes, however many values one has, `Disassembler` satisfies `PrintsTheCode`, and
`RecordsStandForBytes` for any lists of instructions with as many operands as their opcodes have
(`CodesAssumption`). The second theorem is what allows the other modules to use records for instructions.
`HighAndLow` and `WideCut` are the two directions of reading and writing two bytes: what is put is what was read,
and what is read is what was put, cut to 16 bits. That `FlattenSeq`, a recursive function, joins
lists as it should (`FlattenMore`) follows from the least length for which it would not. The invariants are that the
lines stand for the bytes before `i` (`IInv`), and that what was printed of a stream that `Make` has written is
the beginning of the instructions it was made of (`Printing`); where an instruction begins in the bytes is `PartsLaid`.

**Virtual machine** (`VMProofs`). For every bytecode that `Verifier` accepts, any built-ins,
any globals, and any limits of stack and frames, `VM` satisfies `TypeOK`, `FramesNest`, `StackEmptied`,
`ControlAtInstruction` and `IndicesInRange`. The assumptions are `BytecodesAssumption`, that the code is
verified, and `BuiltinsAssumption`. The run `machine` evaluates both; that the code of the
compiler is verified is `CodeIsVerified`.

The machine has no bounds of its own: `pop` takes whatever is below `sp`. The inductive invariant (`SoundState`)
therefore speaks about the code: a frame is at a position of its code, and the number of
values between its locals and the next frame (or `sp`) is a height that `Verifier` computes for the position
(`InCode`). A frame that is waiting for a call is behind it with the one value less that
the result will be. This is what keeps the frames apart, and why a
return finds its caller's values where it left them. `Called` says what is
below a frame: the closure it runs. Values are nested, and have functions with code inside; as with the
evaluator, the invariant has a set *S* that is closed (`Sound`), and each closure in it captures
as many values as its code reads. When a call moves `sp` beyond the stack, nothing is between the locals
and `sp`, so that the next instruction fails, or is a jump or a return of null (`SoundFrames`).

`Heights` is a recursive function over the positions of code. That it exists, and so satisfies its equation
(`HeightsEquation`), would be an induction; it is derived from the least position at which it fails
(`WellOrder`), because control only goes forward. `Flow` (and `Entry`, for the first position) is the only fact
that the proofs about the machine use: the heights behind an instruction are those before, less what is popped, plus what is pushed.

**Evaluator** (`EvaluatorProofs`). For every set of trees, any built-ins, widths and depths, `Evaluation`
satisfies `TypeOK`, `ReturnsUnwrapped`, `ErrorsEndPrograms` and `NilsExplained`.

Values are nested, and the properties are about what is inside. A recursive definition is beyond the
provers; the invariant instead says that there is a set *S* of values that is closed (`Sound`: elements,
pairs, wrapped values and environments of its members are in it or exist), and
that environments and calls hold members of it. A step that makes a value adds it to *S*. The rest of the invariant is
about the calls: which can be inside of which (`Nested`), and that the parts that a call has
got and those it will get add up to the number its node has (`Counted`).

**Only model-checked**: everything about the parser, the loop and the agreement
of the engines; and all liveness. Liveness under fairness is out of the prover's reach, and so are
recursive operators, which the trees of `Grammar` and the values of `Engines` need.

## 6. Not modelled

- `parser_tracing.go`: debug output, every call of which is commented out. `main.go`: prints
  a greeting and calls `repl.Start`. The measurement of time in `benchmark/main.go`.
- The texts of errors and of `Inspect`, and the tokens of `String` for `if`, functions, blocks and
  strings, which are not programs: they lack the braces, parentheses or quotation marks that the parser wants.
- `parseCallArguments`, which nothing calls; `parseExpressionList` does its work.
- Collisions of FNV hashes; characters beyond one byte, which the lexer reads as bytes.
- The composition of the lexer with the parser in one model: the parser is given tokens, every
  sequence of which the lexer can produce, because blanks separate them.

## 7. What is left

The loop and the agreement of the engines. `PoolGrows`, and that every line of a session is compiled to verified code, would follow from the invariants of
`CompilerProofs` and `StackProofs`, if these were stated for a compiler that begins with constants and names (`NewWithState`). `NamesHaveValues` and `NothingUnset` need, on top of the heights,
which slots have been assigned on every way to a position. For the parser, `WholeTree` would have to be
stated without a recursive operator, in the way in which `EvaluatorProofs` speaks of nested values.
