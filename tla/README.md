# A verification project for Jlang

Jlang (`src/`) compiles a small C-like language to LLVM IR: a scanner turns the
text into tokens, a recursive-descent parser turns the tokens into a syntax
tree, and a visitor walks the tree once and drives `llvm::IRBuilder`. It is one
thread and has no persistent state. What is hard in it is not concurrency but
*protocol*: the handlers of the visitor call each other recursively and
communicate through three pieces of shared mutable state (`m_LastValue`,
`m_variables`, the insert point), errors are printed and never stop anything, and
each phase goes on with whatever the phase before it left.

This directory holds TLA+ modules translated from the code, the TLC
configurations that check them, and TLAPS proofs.

## 1. Inventory

Paths are relative to `src/src/`.

| Component | State | Operations | Hard behaviour | What makes it correct |
|---|---|---|---|---|
| Scanner (`Scanner/`) | input position, line, tokens | `ScanToken`, one `Add...` per kind of token | longest match, unterminated strings and comments, end of input in the middle of a token | tokens cover the input in order; ends; line numbers count newlines |
| Parser (`Parser/`) | token position | one `Parse...` per construct | recovery after an error, every loop must make progress, holes (null children) left behind | ends on every token sequence; a hole only behind a printed error; precedence |
| Syntax tree (`AST/`) | none (built once, read only) | `Accept` | null children | - |
| Code generator: symbols and types (`CodeGen/`) | `m_variables`, `m_currentFunctionVariables`, `m_structTypes` | declare, look up, mark used, clean up, map and infer types | function scope kept by hand, redeclaration, `val`, null safety by a test on the constant null | nothing leaks between functions; unused variables are reported; a `val` is stored once; no null in a non-nullable slot |
| Code generator: expressions | `m_LastValue` | eleven visitors | errors leave a stale value; nested `&&` and `\|\|` create blocks while a value is being computed | a handler reads its own child's value; a phi names its predecessors |
| Code generator: statements | insert point, blocks | `if`, `while`, `for`, `return`, blocks, declarations | blocks created early and inserted late, error returns half way | one open block; every block inserted; definitions dominate uses |
| Code generator: unrolling | none of its own | `AnalyzeForUnroll`, `BodyModifiesVar` | trip counts at the bound, a body that writes the counter in an unexpected place | unrolled exactly like the rolled loop |
| Code generator: declarations | module functions | `Generate`, `VisitFunctionDecl`, `VisitStructDecl`, `VisitInterfaceDecl` | order of declarations, duplicate names | as for symbols |
| LLVM `IRBuilder` (external) | function under construction | create, emit, move the insert point | no assertions in a release build | - |
| Pipeline (`Main.cpp`) | none | `Load`, `Compile` | a rejected program is compiled all the same; the exit code is always 0 | later phases survive what earlier ones leave |
| Logging (`Common/`) | `log.txt`, stderr | `JLANG_ERROR` | - | - |

The components interact by calls only: `Compile` runs scanner, parser and
generator one after the other; the generator's visitors call each other through
`Accept`, and every handler that calls `Accept` must expect all three pieces of
shared state to have changed when the call returns.

## 2. The modules

| Module | Stands for |
|---|---|
| `Ast` | the node classes under `AST/` as records; `Null` is a null `shared_ptr`; what the parser and the generator take for granted of a node: `Children`, `WellFormed`, `OperandsHaveValues`, `OperatorKnown`, `Hole` |
| `Scanner` | `Scanner/Scanner.cpp`, whole: one action per character read, or per token |
| `Parser` | `Parser/Parser.cpp`, whole: one action per `Parse...` function or part of one |
| `LlvmIr` | the part of LLVM that `CodeGen.cpp` uses (external): values, instructions, blocks, insert point; and the control-flow graph and dominance, to state what a well formed function is |
| `CodeGen` | `CodeGen/CodeGen.cpp`, whole: one action per handler or part of one |
| `Compiler` | `Compile` of `Main.cpp`: `Scanner`, `Parser` and `CodeGen` as instances, each on what the one before it made |
| `Phase` | abstract: what `Compile` takes for granted of its first two phases |
| `ScannerReference`, `ParserReference` | reference definitions: the tokens as sets of texts; trees written as tokens |
| `ProgramFamilies` | trees for TLC, those of the parser's runs and the code generator's |
| `MCScanner`, `MCParser`, `MCCodeGen`, `MCCompiler` | texts, token sequences, programs and files for TLC |
| `ScannerProofs`; `ParserProofs`, `ParserTrees`; `CodeGenTypes`, `CodeGenProofs`, `CodeGenProtocol`, `CodeGenMemory`, `CodeGenUnrolling` | the proofs (section 4) |

`Compiler` composes; everything above it in the table can be read alone. `Scanner` and
`Parser` implement `Phase` (`Reading == INSTANCE Phase WITH ...` in each).

### How `Scanner` corresponds to the code

`m_Source`, `m_CurrentPosition`, `m_CurrentLine`, `m_Start` and `m_Tokens` are the members of the
class. A character is a string of length one and `NUL` is what `Peek`
returns past the end. `doing` says which of the code's loops runs, `SkipWhitespace`'s or that of an
`Add...` function, and an action is one turn of a loop: `BlockComment` is lines 252-266, one character
at a time. Symbols and character literals look at a fixed number of characters and are one action.
`isalpha` and `isdigit` are the constants `Letters` and `Digits`. A ghost, `spans`,
remembers from where to where each token was read.

### How `Parser` corresponds to the code

As in `CodeGen`, the call stack is an agenda, `todo`: a task is a call that is still to be
made or the rest of a function that waits for one, with the node that it is building;
`returned` is what the last `Parse...` function returned, null included. `ParseIf`,
`IfCondition`, `IfThen` and `IfElse` together are `ParseIfStatement`, cut at its calls.
Tokens that a function looks at without a call in between are one action: `ParseField`
reads a whole field, and each early exit is a branch with its message and the position
it leaves. `Recover` is the loop that skips to a semicolon. The ten functions for binary
operators, one calling the next, are one task `Operators` with the set of levels that are
still to look for theirs. A `TypeRef` is read by `TypeFrom`, as the code does in four places.
Messages are named after their texts; the TokenType of a symbol or keyword is its text.

### How `Compiler` corresponds to the code

The three modules are instances with variables of their own; `Tokenize`, `Parse` and
`Generate` are their steps while `phase` says so. The parser's input, `Tokens`, is the vector
that `Tokenize` returns by value and `Compile` keeps through a const reference (`Main.cpp:38`). `m_Tokens`
does not change after that, so it stands for the returned copy too. `pending`, the input of the generator,
becomes the parsed program when `Parse` returns, whatever has been printed. `LoadFile` returns early for an empty
text, which a file that cannot be opened has too; `DumpIR` ends.

### How `CodeGen` corresponds to the code

* **The call stack is explicit.** `todo` is an agenda of tasks: visits that are
  still to be made, and the rest of the handlers that asked for them. A handler
  that calls `Accept` n times becomes n + 1 actions, cut at the calls:
  `VisitWhileStatement`, `WhileCond` (after the condition) and `WhileEnd` (after
  the body) together are `CodeGenerator::VisitWhileStatement`. The local variables
  that live across a call (`leftVal`, `args`, `mergeBlock`, ...) are the `vals` and `blks`
  of the task. An early return is a disjunct that runs `Reject`: it prints, ends
  the task and leaves `m_LastValue` alone, as the code does.
* **The variables** `m_variables`, `m_currentFunctionVariables`, `m_LastValue`,
  `m_structTypes` are those of the class; `m_functions` is what
  `m_Module->getFunction` would find; `pending` is what `Generate`'s loop has left;
  `function` is the node `VisitFunctionDecl` is in; `ir` is the LLVM function being built
  and the insert point; `errors` is the set of messages printed.
* **`crashed`** becomes true where the code dereferences null or hands LLVM
  something it has no answer for (`ConstantInt::get` of a pointer or float type, an
  alloca, load or store of `void`, a call through a null callee). In a release
  build that is undefined behaviour; nothing is claimed after it, and the properties say
  under which conditions it can happen.
* **Two ghosts**, read by no action: `valueOf`, the node that last set `m_LastValue`,
  and `slots`, the allocas of the function with the declaration each stands for.
* **`WholeNode`** is a constant: the nodes of the programs that the parser accepted without a
  message. Only `HoleAssumption` speaks of it; no action reads it. In the runs it is
  `NodesOfAccepted`, computed from the family.
* `FaultyX` definitions are mistakes a maintainer could make in `X`. Nothing
  refers to them. Each is there to be put in the place of `X`, and the property
  it belongs to must then fail.

### What is abstracted

Characters are those of the instance: bytes above 127 stand for themselves as characters that are neither
letter nor digit, as glibc has it. `Token::ToString`, the wording of messages and their line numbers
are left out, of the parser's tokens also `m_CurrentLine`, which only messages use.
Text: the empty string is `"none"`; a literal is its class and, for an
integer, its value. Integer literals fit `i32` (`"huge"` is one that `std::stoll`
refuses, `"hugeFloat"` a float beyond `double`; one too small for a `double`, which `std::stod` also refuses, is left out). LLVM's assertions and constant folding are left out: folding replaces an instruction on
constants by a constant and touches neither blocks, slots nor `m_LastValue`'s owner. Opaque
pointers make the code's pointer-to-pointer bit casts the identity. A node is
identified by its contents rather than its address; where two equal
nodes occur in one program, properties about a declaration speak about both.
`TypeOK` names the string literals of the code in `Strings` because the provers
do not know that a literal is a string.

## 3. The runs

Deadlock is not checked: each phase ends, and a crash ends code generation early.

The runs of the scanner, the parser and the whole:

| Run | Inputs | Shows |
|---|---|---|
| `scanner` | all texts up to five characters over three small alphabets that are hard to tell apart, all up to three symbols, every keyword and its neighbours | `TypeOK`: never outside of the text, one `EndOfFile`; `LongestMatch`: every token is the longest that begins where it does, against `ScannerReference`; `NothingDropped`: between two tokens there are blanks and comments only, or the open string at the end; `LineNumbers`; `ReadsText`: refines `Phase`, its liveness included |
| `parser` | all ways to go on with up to three tokens, right or wrong, from 18 places of the grammar, and about 500 trees as `Spell` writes them | `TypeOK`: never past `EndOfFile`; `HolesReported`: no null child without a message; `TreeSpellsInput`: if nothing was printed the tree spells the input, so that no token was lost, made up or moved; `RoundTrip`: the parser inverts `Spell`, with precedence and associativity; `ReadsTokens`: refines `Phase`, so that no recovery loops |
| `compiler` | 813 files, half of them a function that goes on with up to three lexemes, the others whole programs that are wrong in a place another phase has to live with; each also as a file that cannot be opened | `HandedOver`: what each phase is handed is what its module assumes; `CrashExplained`: with nothing printed, code generation crashes only on operands or variables of a wrong type, never on a hole; `NothingLost`: a function or struct that the tokens name is in the module, or something was printed; `Returns` |

`parser` parses the trees of `ProgramFamilies` from text, which is why the runs below may start
from them. In particular an operand that would need parentheses in front of a
name does not occur (`(` followed by a name is a cast to the parser, line 1081), a dangling `else`
is braced, and a null in a mandatory place comes with the parser's error already printed
(`rejected`). They check `MCCodeGen`:

| Run | Programs | Shows |
|---|---|---|
| `control_flow` | `if`, `while`, `for` nested two deep or in sequence, with nested `&&` / `\|\|` in the conditions, absent conditions and conditions that fail | `TypeOK`; `OneOpenBlock`: no handler moves away from a block it leaves open, even on an error return; `BlocksPlaced`: no branch leads outside the function; `PhiCoversPredecessors` and `DefinitionsDominateUses`: LLVM's two hardest rules for SSA form; `Terminates` |
| `errors` | 27 expressions, nearly all failing in a different way, in 21 places, first in the function or after a value was computed | `FreshValue`: until something is reported, no handler reads a value its own child did not leave; `NullDereferenceReported`: code generation never dereferences a hole, an unknown callee or a missing value in silence |
| `symbols` | 12 declarations of `x` x 12 x 12 statements, and a second function that names `x` | `SymbolsScoped`, `UnusedReported`, `ValStoredOnce`, `NoNullStored` |
| `unroll` | counting loops, 5 comparisons x 5 ends x 3 updates x 3 starts, and 12 bodies that write the counter somewhere or nowhere | `CounterStoresConstant`: in an unrolled loop only constants are stored to the counter, so the body does not write it; `UnrollMatchesLoop`: the values of the unrolled iterations are those of the rolled loop |

Five runs are expected to fail. Each shows the code doing something else than
the repository's documentation or samples say:

| Run | Program | The repository says | The code does |
|---|---|---|---|
| `early_return` | `if (a == 1) { return; }` | `samples/struct_features.j:134-137` returns from an `if` | the then block ends in `ret` and then `br`: not valid IR, and `verifyFunction`'s answer is dropped (`CodeGen.cpp:104`) |
| `small_integer` | `var x: i8 = 127;` | `README.md:124`, `:135`: the declared type determines the storage size | stores an `i32` into the one-byte slot |
| `huge_literal` | `var h: u64 = 18446744073709551615;` | `README.md:132`: supported | prints an error and stores the value of the previous expression |
| `null_by_copy` | `var x: P* = q;` with `q: P*?` | `README.md:325`: non-nullable pointers are safe to dereference | no error |
| `val_counter` | `for (val i: i32 = 0; i < 2; i++) ...` | `README.md:63`: a `val` cannot be incremented | the loop is unrolled, its update is never visited, and the `val` is stored to at every iteration |

Further disagreements met while modelling. The model has the behaviour, the families
of the passing runs leave these programs out, and adding one to a family makes
the named property fail:

* `var x := null;` records `char*`, not nullable, and stores null without an error
  (`NoNullStored`; `README.md:334`, `CodeGen.cpp:161-169`).
* `val x: i32;` is accepted without a value (`README.md:63`, `CodeGen.cpp:174-186`).
* `var x: i32 = 1; var x: i32 = 2;` with only the second one read: the first is
  not reported as unused (`UnusedReported`; `README.md:98`, `CodeGen.cpp:211`).
* `if (a) { var x: i32 = 1; } printf("", x);`: `x` stays visible and its alloca does not
  dominate the use (`DefinitionsDominateUses`; `CodeGen.cpp:104-111`).
* `for (...; i < 2; i++) { var y: i32 = i++; }` is unrolled: the search for writes does not
  look into declarations (`CounterStoresConstant`; comment at `CodeGen.cpp:506`).
* `for (var i: i32 = 0.5; i < 2; i++)` is unrolled as if from 0: `std::stoll` accepts `0.5`
  (comment at `CodeGen.cpp:300`).

### Bounds

`scanner`: no decision of the scanner looks at more than three characters ahead of a state of
its loops (`'\\x'` is the longest at four), so texts of five reach every decision with something
in front of it and something behind. `parser`: every decision looks at one token, or at three in a row after
a keyword; three arbitrary tokens after every place that a prefix reaches cover each
exit of each function together with what its caller does next. The proofs lift both bounds for what they
cover. `compiler`: what the phases hand on does not depend on the length of the file; three lexemes
suffice to leave each kind of hole, stray brace and early end of a declaration.

`MAX_UNROLL_COUNT` is 8 in the code; the passing runs use 2 or 3, so that counts below, at and
above the bound occur with short traces, and the single-program runs use 8.
Nesting is two statements deep: a handler sees of its surroundings only the
insert point, `m_LastValue` and the symbol table, so the second level already
shows it every state in which a neighbour can leave them (a block of its own, a new open
block, an error return half way); the proofs lift this bound for the properties they cover.
Two functions suffice for leaks between functions, one struct with a public, a private
and an unsized field for member access, and three parameters for the three
kinds of types a check tells apart (integer, pointer, nullable pointer).

### Fairness

`Terminates`, `ReadsText`, `ReadsTokens` and `Returns` assume `WF_vars(Next)` of their module: the compiler is
one thread that runs until it returns, so a step that can be taken is taken. No other fairness
is assumed. The next-state relations are deterministic on every input but for the choice of whether the file opens.

## 4. The proofs

### What is assumed

Each assumption is an `ASSUME` that TLC evaluates in a run. Those on the left are facts about the inputs
of a module; the column on the right says why the code keeps them.

| Assumption | Says | Why it holds |
|---|---|---|
| `Ast!StringAssumption` | the literals that name classes and operators are strings | TLA+ says so; the provers are not told |
| `Scanner!SourceAssumption` | letters, digits and symbols are different characters | `isalpha`, `isdigit` |
| `Parser!InputAssumption` | a token sequence ends with its one `EndOfFile` | proved of the scanner (`ScannerProofs!TypeCorrect`) |
| `Parser!TokenAssumption` | the lexeme of an operator's token is the operator; a literal stands for a class and a number | `AddToken` takes the lexeme from the text; checked by `HandedOver` |
| `CodeGen!AstAssumption` | nodes have the members their classes declare; the set of nodes holds their children and `Null` | proved of the parser (`ParserTrees`) |
| `CodeGen!OperandAssumption` | what is visited for its value is an expression or null; the headers say only `AstNode` | proved of the parser |
| `CodeGen!OperatorAssumption` | operators are those of the grammar; the headers say `std::string` | proved of the parser |
| `CodeGen!HoleAssumption` | the trees of a program that is not `rejected` have no holes | proved of the parser |
| `CodeGen!UnrollAssumption` | the bound is a natural number | `static const int MAX_UNROLL_COUNT = 8` (`CodeGen.h:89`) |

`HandedOver`, in the run `compiler`, checks all that one phase assumes of the one before it on whole
files, after syntax errors too. That the parser's theorem gives the four assumptions of the generator is read
off the formulas: take the set `W` of `VisitableProgram` for `AstNode` and, if nothing was
printed, `W \ {Null}` for `WholeNode`. There is no theorem about `Compiler` itself.

### Scanner

* `ScannerProofs!TypeCorrect`: `Spec => []TypeOK`, for every text. `TypeOK` is inductive: a character that is not `NUL` was read
  from the text (`CharacterRead`), so every step that moves on has something to move over.
* `ScannerProofs!ScannerReads`: `Spec => Reading!Safety`: every step is a step of `Phase` or stutters.
* `ScannerProofs!LinesAreCounted`: `Spec => []LineNumbers`. The property speaks of finished tokens only. The invariant
  `Counted` adds the equation for the position itself: `m_CurrentLine` is one more than the newlines behind it, less
  those that were swallowed. A step of a loop passes one character, which `Newlines` counts or not.
* `ScannerProofs!NothingIsDropped`: `Spec => []NothingDropped`. `NoTokens`, which says what may stand between two
  tokens, is a recursive function over positions. The proof does without an induction over it: the function's
  graph is contained in every relation that is closed under its clauses (`Filled` is the least one), and the scanner's loops
  walk along the clauses from left to right. The invariant `Kept` says that the text from the last token to
  the position is filled, and how far a comment or string under way has come.
* `ScannerProofs!TokensAreLongest`: `Spec => []LongestMatch`. `ScannerReference` gives each kind of token as a set of texts;
  lemmas say in terms of the characters at positions what it means that a stretch of the text is in each
  (`WordAt`, `IntegerAt`, `FloatAt`, `SymbolAt`, ...), and that no longer stretch is. `Partial` says what the loop under way
  has read so far: letters and digits of a word, digits of a number, a string without a closing quote.

### Parser

* `ParserProofs!TypeCorrect`: `Spec => []TypeOK`, for every token sequence. The position stays within the vector
  because what has been looked at and is not `EndOfFile` may be passed (`Passing`). That is not enough by itself: `ParseReturn` and
  the other statements pass their keyword without a look, relying on the caller's. The
  inductive invariant `Inv` therefore says of every waiting task where it can be (`Shape`), and
  of the node that it is building that nothing it has so far is a hole as long as nothing has been printed (`Filled`).
* `ParserProofs!NoSilentHole`: `Spec => []HolesReported`, from the same `Inv`. The lemmas are one per group of actions;
  each shows that a step gives back a node that is whole, or prints.
* `ParserProofs!ParserReads`: `Spec => Reading!Safety`, as for the scanner.
* `ParserTrees!TreesAreVisitable`: `Spec => []VisitableProgram`. `HolesReported` speaks of the one node that a function has just
  returned; the generator needs all of the tree. Trees are recursive, but the theorem needs no recursion over them:
  it says that there is a set `W` of nodes, closed under children, that holds the program and in which every node is what the generator
  assumes. The inductive invariant (`Trees`) is that such a set exists for all that has been made so far (`Made`), what is on the agenda
  included: a waiting task holds a node of its class whose children so far are in `W` (`Fits`), and a task that takes what was
  returned for an expression stands behind one that leaves an expression or null (`Handed`). A step adds the node it makes, or two after a
  compound assignment, to `W`.

### Code generator

* `CodeGenTypes!TypeCorrect`: `Spec => []TypeOK`. `TypeOK` is inductive as it stands. It
  is more than a type declaration: `TasksIn` says that the rest of a handler belongs to a node
  of the right class, holds as many values and blocks as its local variables, and that every
  block it will return to belongs to the function under construction. Lemmas first give
  the types of the operations of `LlvmIr` (each only adds blocks, which keeps the tasks that
  are waiting valid), then there is one lemma per action.
* `CodeGenProofs!SymbolsCorrect`: `Spec => []SymbolsScoped`, for every program. Inductive
  relative to `TypeOK`; `Declare`, `VisitFunctionDecl` and `EndFunctionDecl` are the steps that
  matter, and the last needs `function # Null` whenever the agenda is not empty.
* `CodeGenProofs!OneOpenBlockCorrect`: `Spec => []OneOpenBlock`. The argument: `Emit` only extends
  the current block, and every move of the insert point (`Leave`) comes right after a
  terminator has been emitted in the block that is left. `TypeOK` is needed for the blocks that
  the waiting handlers will enter to exist.
* `CodeGenProtocol!ValuesAreFresh`: `Spec => []FreshValue`. `FreshValue` speaks of the task at the
  head of the agenda only and is not inductive: when a nested expression has been visited, the
  handler below it comes up, and nothing says what that one waits for. The invariant `ChildrenFirst`
  says it of the whole agenda: directly above a task that waits for a value stands the one that will leave it, the
  visit of its child or the rest of that child's handler. `AgendaStep` shows that replacing the head by a chain which
  ends in the same value keeps that; every action is one of its cases. It needs `OperandAssumption`: a statement as an operand
  would leave no value.
* `CodeGenProtocol!NullDereferencesReported`: `Spec => []NullDereferenceReported`, from `HoleAssumption`. The invariant `Silence` adds
  that as long as nothing has been printed, every node that is still to be visited, by a task of the agenda or as a later declaration
  of the program, is in `WholeNode`, and every call under way has found its callee (`AllSound`). So a handler that visits
  a null child, or calls what is not there, does so after a message; what may still crash in silence has all its parts and fails on a type.
* `CodeGenProofs!BlocksArePlaced`: `Spec => []BlocksPlaced`. `BlocksPlaced` speaks of a finished body; the
  invariant `NoneLost` accounts for the blocks while it is under way: each is in the function, or it is
  `Owed` by a waiting task, one whose remaining code inserts it. Actions create blocks and owe
  them to what they put on the agenda, insert one of their own, or end owing nothing (`Owed`
  lists what is left after each cut of a handler). Error returns lose blocks, which is why both speak of programs
  without an error.
* `CodeGenProofs!PhisCoverPredecessors`: `Spec => []PhiCoversPredecessors`, for every program and after every error. When `&&` or `||` builds its phi
  it names two blocks; that no third one branches there, then or later, depends on every handler that is under way. The invariant
  `JoinsKept` says that branches lead to blocks that exist (`Known`), that the merge block of a right operand under way is
  reached from the left one only and is aimed at by no other handler (`Waiting`), and that a finished phi names the
  predecessors of its block, at which nobody aims any more (`Joined`). `Aims` is the set of blocks that the rest of a handler may
  branch to. It needs `OperatorAssumption`: an operator outside the grammar would be taken for a binary one without blocks.

* `CodeGenMemory`: what is stored into the slots of local variables, and whether they are read. The alloca of a variable is made
  before its initializer is visited and declared behind it, and a load or store finds the slot by name through `m_variables`, which
  a redeclaration overwrites. So no property of a slot is inductive by itself; `MemoryCorrect` proves the invariant `Memory`, whose parts
  need each other:
  * `Agree`: every slot is an alloca of this function and belongs to one declaration; every store goes to an alloca of it; a name whose
    value is an alloca stands for a slot, with the name, the mutability and the type of that slot's declaration; a variable that counts as used
    is loaded somewhere; vals and null constants are kept as below.
  * `SlotsNamed`: each slot's name is in the table while the function is visited, or its last declaration could not be reported.
  * `Pending`: the slot of a declaration whose initializer is being visited holds nothing, is nobody's yet, and no two such
    declarations share one.
  * `Steps`, `Starts`: an unrolled iteration stores a constant into the slot of the counter of its loop, and between the declaration of the counter and
    the first iteration nothing else happens. Unrolled iterations are the one store that looks at neither `isMutable` nor null safety.
  * `SoleReported`: once the clean-up of the function has run, its unused variables have been reported.

  The theorems that follow from it: `ValsAreKept` and `ValsAreStoredOnce` (`ValStoredOnce`, if no unrolled loop counts with a `val`: that
  exception is the finding of the run `val_counter`), `NullIsKeptOut` and `NullsAreNotStored` (`NoNullStored`, while every variable of the function has its
  type spelled out: inference takes `null` for a non-nullable pointer, and `NullIsKeptOut` says that this is the only way in), `UnusedAreReported`
  (`UnusedReported`, if no two slots of the function share a name; `SoleReported` says it of each slot that shares its name with none). The
  hypotheses of the last two are about the state at hand and not about the program, so the theorems speak of every program, up to the exceptions that section 3 lists.
* `CodeGenMemory!UnrollsLikeLoop`: the arithmetic of unrolling, for every loop that `AnalyzeForUnroll` accepts, in both directions, and for
  every bound: the iterations put on the agenda store exactly the values for which the rolled loop would run its body (`RolledValues`), each once and each right before
  a visit of the body.
* `CodeGenUnrolling!CountersStoreConstants`: `CounterStoresConstant`, at every step, for every function whose unrolled loops are `Alone`: what the
  function modifies by the name of a counter is below the loop's body, where `BodyModifiesVar` looks for it. The argument has two halves.
  * What the search says: it walks the levels of the body; `SearchIsSound` shows that if it finds nothing, nothing in `Below`, the closure
    of the body under the constructs it looks into, modifies the name. So in such a function nothing that is visited modifies it (`Spared`).
  * What the visit does: `CourseInv` says that the agenda holds only nodes of `Reached`, the closure of the function under the visits the handlers
    make (`Inside`), none of the code of a rolled loop for an unrolled one (`Rolled`), that an initializer which is a number is stored as that number
    (`NumbersFirst`), and that the stores to the counter are constants (`Constants`). Each handler is shown to put only what it visits on the agenda, and
    only an assignment, `++` or `--` of a name stores something else into its slot.
* `CodeGenUnrolling!UnrolledLoopsMatch`: `UnrollMatchesLoop`, if the unrolled loops are `Lone`: also, the counter's declaration is visited by the loop
  only and its initializer is an integer. The invariant adds to the above that after the counter's declaration comes the unrolling (`Led`) and, while nothing has been
  reported, that each slot of a counter either holds its initial value with the unrolling as the next step (`Entering`), or has been given some of the
  values of the rolled loop while the agenda holds the stores of the rest (`Met`). With `UnrollsLikeLoop` the values are those of the loop when the agenda is empty.
* What the hypotheses leave out: a function in which a name counts an unrolled loop and is also changed elsewhere (a rolled loop with a counter of the same
  name, an assignment after the loop), for which the property holds or not according to which slot the name stands for at that point; a declaration in the body that
  changes the counter, which is the gap of the search that section 3 lists; and `0.5` as a start. TLC confirms that
  every unrolled loop of the programs of the run `unroll` is `Lone`, so the theorems speak of all of them.

### What is only model-checked

* Liveness (`Terminates`, `Returns` and that of `Phase`): out of the prover's reach.
* `TreeSpellsInput` and `RoundTrip`: they compare a tree with `Spell`, a recursion over trees, which needs an induction over them.
* `UnrollMatchesLoop` and `CounterStoresConstant` of loops that are not `Lone` or `Alone`.
* `DefinitionsDominateUses` is false of some programs outside the families of its run, by a disagreement that section 3 lists (variables outlive
  their block); for temporaries it would need a theory of dominance in a growing graph.
* The properties of `Compiler`: it instantiates the three modules with `Inputs`, `Programs` and `AstNode` that stand for nothing, because a constant cannot
  be what an earlier phase made, so the theorems about the instances do not carry over by themselves.

## 5. Not modelled

The log file, `log.txt`, `STR`'s buffer and the exit code (I/O and formatting; the exit code is 0
whenever a file was named); what `DumpIR` prints, but for the names of the functions; the layout of structs and hence the number `alloc` passes to
`malloc`; values of literals beyond `i32`; LLVM's verifier, assertions and constant folding; the
text of messages and of value names. `Common/Assert.h` is used by nothing.

Modelled, and worth knowing:

* `(a + b) * c` is rejected: `(` and a name open a cast (`Parser.cpp:1081`).
* Tokens at the top level are passed over without a message (`SkipStray`), so a brace too many
  in a function makes what follows it disappear up to the next declaration. `NothingLost` says that
  the declarations themselves do not.
* A string or comment that is never closed takes the rest of the file with it, without a message.
* A newline in a character literal is not counted as a line (`LineNumbers` says so).
* After an invalid assignment target the code looks for a compound operator (`Parser.cpp:676`), but
  none can follow there: `AssignmentEnd` goes on to `Compound` as the code does.

## 6. Plan

Done: `Ast`, `LlvmIr`, `CodeGen`, then `Scanner`, `Parser` with `Phase` and the references, then
`Compiler`; the runs of section 3 and the theorems of section 4.

What could come next: that the scanner's tokens are what the parser assumes, as a theorem about `Tokens` of `Compiler`, so that
`HandedOver` is proved for every file and not only for 813; the part of `DefinitionsDominateUses` that
concerns temporaries rather than variables; `Alone` said of slots instead of names, so that
two loops of one function may share a counter's name; and an execution module that runs the functions `CodeGen` builds against an
evaluator of the tree (evaluation order, the counter's value after an unrolled loop, the widths
of integers).
