# Formal models of the IIRA compiler

IIRA is a compiler for a small language with blueprints (records with multiple inheritance). The
program `iirac` reads files one after the other, and writes code for QBE to its standard output. It is
one sequential C program: nothing runs concurrently and nothing is persisted. What makes it hard is
elsewhere: recursion over graphs that may have cycles, state that is saved and restored by hand around
nested constructs, speculation and recovery in the parser, objects shared by several owners, loops
without a bound of their own, and passes that run on whatever the pass before left behind.

Every module is translated from the C code; `PROJECT.json` names the lines behind each definition, the
hazards, and which property is about which hazard. Paths below are relative to the repository's `src/`.

## The system

| Component | State it keeps | Operations | What makes it right |
|---|---|---|---|
| **unfinity** map (`uf_containers.c`) | table of slots (EMPTY, OCCUPIED, TOMBSTONE), `count`, `occupied`, `capacity` | put, get, has, remove, growth | a dictionary, through removals and growth; probe loops end |
| **unfinity** vectors, memory, regions, logger | arrays, blocks, level | push, get, pop; allocate, reset | bounds panic; blocks of a region are disjoint |
| **source** (`ii_source.c`) | mapped file, line offsets, interned texts | add a line, locate, cut a line, intern | every position is shown at its line and column |
| **lexer** (`ii_lexer.c`) | index, tokens, a kind for every text | one turn per lexeme | the longest lexemes, nothing skipped, always an end |
| **diagnostics** (`ii_diagnostics.c`) | what was reported, counters | report, count, display | nothing counted twice or dropped |
| **parser** (`ii_parser*.c`) | cursor, the tree under construction, the calls in progress | one per function of the grammar; speculation; recovery | nothing lost or hidden in an accepted file, precedence, recovery gets on |
| **AST** (`ii_ast.c`) | nodes, lists | constructors, finalization, printing | plain data |
| **semantic: declarations and inheritance** (`ii_semantic_decl.c`) | global scope, state of each blueprint, flattened fields and methods, offsets | declare, resolve depth first, flatten, lay out | bounded recursion, cycles reported, order-independent shapes, layouts without overlap |
| **semantic: types** (`ii_semantic_types.c`) | the state and size of every type node, target types | resolve, match, coerce | each type resolved once and laid out as in C |
| **semantic: bodies** (`ii_semantic_stmt.c`, `ii_semantic_expr.c`) | chain of scopes, loop stack, slot counters, types of expressions | one per statement and expression | lexical scoping, exact reports, disjoint slots |
| **codegen: statements** (`iic_codegen_stmt.c`, `iic_codegen_func.c`) | output, counter of labels, labels of the loop around | one per statement | unique labels, every jump has its label, control flow as in the source |
| **codegen: expressions** (`iic_codegen_expr.c`) | output, counter of temporaries, strings | one per expression | QBE accepts it, and it has the values of the source |
| **driver** (`iic_main.c`, `iic_arguments.c`) | flags, files, status | process arguments, take each file through the passes | code for correct files only, the right status |

The driver calls the passes in turn over one AST and one list of diagnostics per file: lexer, parser
(which reads the tokens), the five phases of the analysis (each skipped if one before it failed), the
display, and the code generator if no error was counted. Texts are interned by the source, so the
passes compare pointers; the interner, the lexer and the scopes are all built on the unfinity map.

## The modules

**`UfMap`, `UfDict`** - the hash table with linear probing (`uf_containers.c:168-417`). An action per
call; growth is a step for every slot that is moved, so its invariants speak of the two tables in
between. `UfDict` is what the table promises: a function from keys to values; `UfMap` implements it
with `dict` mapped to what `ValueOf` finds, in the table or among the old slots still to move. A put that
has to grow is one operation of `UfDict` at its last step, `EndResize`; the steps before it stutter.

**`Inheritance`** - declaring blueprints and functions, resolving parents depth first, flattening and
layout (`ii_semantic_decl.c`). The recursion is the variable `stack`; every loop that writes is a step
per iteration. A field is an object that a child shares with its parent, and `offset` belongs to the
object, as in the code.

**`Codegen`, `Structured`, `CodegenExec`** - control flow of statements (`iic_codegen_stmt.c`,
`iic_codegen_func.c`). `Codegen` emits lines for a body; `todo` holds what the calls in progress have
still to emit. `Structured` is the abstract specification: the meaning of statements, as the sequence of
evaluations they make, each with any outcome. `CodegenExec` runs the emitted code beside it, and every
step of the code must be a step of `Structured` or a stutter. What QBE does with labels and jumps is
external (`Accepted` and the machine in `CodegenExec`).

**`ExprParser`, `Parser`** - the whole parser, every function with its look-ahead, speculation and
recovery. `todo` is the stack of calls in progress, `nodes` the tree in post-order, so dropping a
speculated tree is cutting the sequence. Tokens that all functions treat alike are one token.

**`Bodies`** - the analysis of every function and method body: scopes, the loop stack, slots, every
statement, and the order in which the parts of an expression are analysed and given up. Types are
right as far as they matter: an expression fails over the names in it.

**`Lexer`, `Driver`** - every turn of the lexer's main loop with the line offsets it notes and the search
for a position in them; and a run of the program from its arguments to its exit, where the passes after
the lexer report anything they could. `Driver` composes `Lexer` with the passes.

**`Types`, `Typing`, `CodegenExpr`** - from the types of a file to the code of a function: one machine in
three modules, each of which extends the one before it. `Types` is `_resolve_type` and the offsets
(`ii_semantic_types.c`, phases 3 and 3b). A type is a node of the tree with a size of its own, nodes lead to
one another by the names of blueprints, and the recursion is the variable `calls`; a step is the visit of a
part or the end of a call. `Typing` (phase 4) gives the declarations, returns and expressions of one function
their types, or those of one method, whose `self` is a pointer to the object: which types match, what is coerced, which expression is given up and with which report, the
target type that an initializer gets from where it stands, the slots of the variables; `todo` is the stack of
calls in progress, and where the analysis asks for a type, the steps of `Types` run first. `CodegenExpr` emits
the instructions of each statement and expression; `gen` is the `GenValue` each `_emit` function returned, and
suffixes, temporaries and addresses are those of the code.

**`Qbe`** - what becomes of that code (external): which instructions the compiler it is piped into accepts, by
the classes of their operands, and a machine that runs them on memory whose cells remember how they were
stored. `MCExprs` holds against it what the program means: `CLayout`, the layout of C by recursion on the types
as they are written, and `Meaning`, the calls a body makes and the value it returns, by recursion on its
expressions, with variables, pointers, fields and elements as places.

`MC*` modules give the constants values for TLC and hold the reference definitions that need recursion:
a lookup by environment passing (`MCBodies`), the cut of a text into its longest lexemes (`MCDriver`),
layouts and values (`MCExprs`).
`*_proofs` modules hold the theorems.

## The runs

TLC takes about a minute or less for each. Programs are constants, so every run is exhaustive over the
programs it names; there is no symmetry, since names play different parts.

| Run | Instance | Shows |
|---|---|---|
| `map` | 3 keys, 2 values, capacity 4 to 16 (133,000 states) | `ProbeReachesKey`, `KeysAreUnique`, `CountersExact`, `ProbeTerminates` in and between calls, `ResizeEnds`, `ImplementsDict` |
| `inheritance` | 3,786 programs of up to 4 blueprints (225,000) | recursion bounded and finished (`RecursionBounded`, `Terminates`, `FlattenedOnce`), cycles reported exactly, `ShapeIsSum` in any order of declaration, unique names, ordered layouts, overriding |
| `inheritance_offsets` | the same | a disagreement, below |
| `codegen` | 3,001 bodies, up to five statements deep (77,000) | `LabelsUnique`; the supported programs compile (`SupportedCompiles`); accepted code does what the source says (`FollowsSource`) |
| `parser` | some 9,600 token sequences (290,000) | `NothingLost`, `StructureKept`, `LevelsNest`, `CorrectAccepted`; the parser comes to the end of every file, but for two loops that spin and two null pointers (`GetsOn`) |
| `parser_aliases` | the same | a disagreement |
| `expr_grouping` | the expression `a = b = c + d * e` | two disagreements |
| `bodies` | 5,239 programs of two functions (253,000) | `ResolvesLexically`, `ReportsExactly`, `SlotsApart`, `UsesOwnFrame` |
| `bodies_breaks` | the same | a disagreement |
| `driver` | 20,000 texts lexed, 60 command lines (212,000) | `CutsLongest`, `TokensTile`, `LocationsRight`, `CodeIfCorrect`, `Ends` |
| `exprs` | 1,614 programs (78,000) | `ResolvedOnce`, `SizesRight`; QBE accepts the code of what is supported (`QbeAccepts`); run, it does what the source says (`ValuesFollow`); `Ends` |
| `exprs_compile` | a function of the language's tour, shortened | two disagreements |

`QbeAccepts` and `ValuesFollow` need a word. The code of many legal programs is refused by QBE or computes
something else, so neither "every correct program compiles" (`ExamplesCompile`, which `exprs_compile` refutes) nor
"all compiled code is right" holds. `Supported` (in `MCExprs`) is a table of what compiles, by the kinds and types of
the operands, and `QbeAccepts` says that QBE takes the code of whatever it allows; of the rest it says nothing.
`Faithful` says of which of those the values are right, through assignments, pointers, fields, elements,
conversions and calls. What the two leave out is listed below. They are the documentation the generator lacks.

What some properties do not say: `FieldNamesUnique` and `ShapeIsSum` speak of the names a blueprint has, and not of a
field that is dropped because its name is taken; `OwnMethodWins` not of a method that two parents bring; offsets
do not wrap in the models, where they are `uint32_t` in the code. `Ends` counts a crash or a panic as an end. The
hazards behind these have no property in `PROJECT.json`.

Why the bounds are enough:

- *map*: the keys' hashes are 7, 15 and 6, so two collide at the last slot of 4 and of 8 slots and probes
  wrap; the table fills up with tombstones and grows twice. `MaxCapacity` stops a third growth.
- *inheritance*: cycles of length one to three, entered from inside and outside; diamonds with aliases,
  overriding and an equal field, with the base declared first or last; two aliases of one name in one entry; duplicates next to each other and
  apart. Sizes are those of the primitive types.
- *codegen*: each loop form, with each clause present or absent, around every leaf, every `if` of leaves
  and every inner loop, with and without code after it. Every condition has both outcomes.
- *parser*: four files with every construct, also cut off anywhere, with any token deleted or exchanged
  for one of eleven; all expressions of two and three tokens of eighteen; chains of three operators of
  five levels, which have both neighbouring and distant levels on either side.
- *bodies*: each compound statement around each pair of ten leaves, after a declaration or none, followed
  by a use, a declaration and a break; a last function that would see what is left over.
- *exprs*: two blueprints, every pair of eleven types of fields in one of them (smaller and larger ones, without
  a size, pointers, arrays, anonymous, of itself, of the other, of an unknown one) with every pair with one of
  five in the other, so that recursion by value enters from both sides at every place; every one of eight
  operators, one of each kind the generator tells apart, over every pair of the eight types of scalars; every
  pair of those types as a variable and its value, where the value is a variable, a call, a member, an element, an
  operator or a cast; and 108 bodies of functions and methods about what is left: pointers, blueprints, `self`, methods
  and overloads, initializers of every form, names that stand for something else, and what is refused. Numbers are small: the
  operators' arithmetic is QBE's, and overflow is not a subject.
- *driver*: all texts of three to five characters over the characters of each sort of lexeme: long enough
  for a prefix, a body and a suffix, for an escape between quotes, and for the look-ahead at the end. A
  page is 4 bytes, and `MaxReports` bounds what one pass reports.

**Fairness.** Where a liveness property is checked (`ResizeEnds`, `Terminates`, `GetsOn`, `AliasesEnd`,
`Ends` of `Driver` and of `CodegenExpr`, `FollowsSource`'s machine) the specification has weak fairness of the whole next-state relation
only: one thread of control always takes its next step. In `UfMap` fairness is for the steps of a growth
alone, since nobody has to call the map. Final states stutter by an action of their own, so deadlock is
checked everywhere.

## Where the code and its documentation disagree

- `inheritance_offsets`: `ii_ast.h:291` speaks of the "offset in flattened blueprint", but the offset belongs
  to the shared field; the layout computed last wins. `ExtensionsKeepLayout` is what does hold: where
  blueprints that share fields extend one another, all layouts are right.
- `exprs_compile`: `test.sh:12` pipes the output into QBE. In `p1.positionX = 3` (`Example.iira:73`) the field is a float:
  a word is stored as a float, which QBE refuses, and what is assigned to a bool, a char or a short is refused too.
  A function of type void without a `return` (`Example.iira:137`) ends without a jump. Its trace shows both, the store and
  the end. `QbeAccepts` says which programs do compile, as far as expressions go.
- `expr_grouping`: `2 + 3 * 4` is `(2 + 3) * 4`, since an operator exactly one level above its neighbour does not bind
  tighter (`ii_parser_expr.c:17`); and `a = b = c` is `(a = b) = c`, where `ii_parser_expr.c:41` and `513-514` say
  `a = (b = c)`. The tree it ends with is `(a = b) = ((c + d) * e)`. `LevelsNest` is what does hold, of operators other
  than assignments.
- `parser_aliases`: `{ a, b as c }` reports the same error for ever.
- `bodies_breaks`: a statement after `else` that is neither a block nor an `if` is not analysed.

Met on the way, without a run of their own. Labels: a `do` whose body ends with `break`, a `for` without a condition that
is left by `break` and an `if` whose `else` alone returns jump to labels that are never written, where
`ii_semantic_stmt.c:303` and `ii_parser_stmt.c:194` speak of such programs as legal; `SupportedCompiles` says which
statements do compile. Declarations and parsing: after a `$` the text of any token but a symbol is read through a null
pointer (`ii_parser_expr.c:327`), and so it is where the name of an entry belongs in an initializer whose first entry had one
(255): in both places `GetsOn` lets the parser crash, and nowhere else; `Example.iira:123` promises a complaint
about naming collisions, and the second field is dropped in silence; prefix operators and casts take everything to their right
(`-a + b` is `-(a + b)`); `({1})` is refused, since the errors of a
speculated type stay; the entries of an initializer are skipped without a look once the first one has
decided their form; the parameters of a method are read for ever at the end of the file
(`StuckInParams`); an alias adds a name and takes none away; a return in a block of its own does not
count as a return; a radix prefix without digits is a number; a second number may follow a suffix
directly (`1f1`); a `var` without a name in the clause of a `for` and any token after a leading dot are taken in silence; with `no-warn`, "Suppress all compilation warnings" (`iic_arguments.h:65`), the errors
after the first warning are not displayed (`ii_diagnostics.c:104` returns); the values of `--output` and
`--max-errors` are not used; a stop flag leaves a file with errors with a status of success and
nothing displayed; a file that ends with an apostrophe and fills its last page is read behind its
mapping.

Types and expressions (each is what a clause of `Supported`, `Faithful` or `HasLayout` leaves out, in `MCExprs`):

- A variable of a blueprint lives in the slots of the frame, but its initializer (`Example.iira:64-69`) is written
  to memory of its own that nothing reads; the slots are never zeroed. Named and indexed values of an
  initializer emit nothing at all.
- `A*[2]` inside of `A` is measured while its elements are in progress; a blueprint with only fields of type void
  fails an assertion; the fields of a prototype keep offset 0; the type of a cast is never resolved.
- A static method called by an object gets the object as one argument more; overloads and methods of one name
  share one symbol; a method that is named and not called is cast to a call (`iic_codegen_expr.c:724`).
- Members of what has no type, and method calls on the name of a blueprint, are given up without a diagnostic,
  and code is generated from expressions without a type.
- Reads through pointers to bool, char and short are refused by QBE, as assignments to them are; so are an int
  returned as a float and a value of another type in an assignment to a floating one. `*p = e` stores a word whatever `p`
  points to. Comparisons of longs and of pointers look at their lower words.
- `&&` and `||` evaluate both of their operands.
- A member or an element that is itself a blueprint or an array is loaded where its address is meant.

## The proofs

TLAPS checks these for every value of the constants.

**`UfMap_proofs`**, for every set of keys and values, every hash function and every capacity. Assumed:
hashes are natural numbers, the initial capacity is at least 4 and no larger than the largest, and the null
pointers are neither keys nor values. The inductive invariant `IInv` is `TypeOK`, `ProbeReachesKey`,
`KeysAreUnique`, `CountersExact` and `LoadBounded` (below the load limit between calls, less than half full
during a growth), over both tables during a growth: that no key is hidden behind an EMPTY slot is preserved by a put only if no key is stored twice, and by growth
only if the keys not yet moved are in neither of the probes, so none of them is inductive alone.
Theorems: `TypeCorrect`, `KeysReachable`, `KeysUnique`, `CountersCorrect`, `ProbesStop` (from the counters: fewer
slots are used than there are, so one is EMPTY, and every probe reaches it), `TombstonesStaySpec`, and
`Implements`: the table implements the dictionary. The last two are about steps: every action is one of `UfDict`
or a stutter under the mapping.

**`Inheritance_proofs`**, for every set of programs; assumed is only that they are programs and that the
null pointer is not a name. `IInv` adds to the type invariant what the program counter
says of the running loop: which blueprint it is about, that the stack holds distinct blueprints in
progress (hence `RecursionIsBounded`), that what is left to visit is a suffix of the list, and that the
fields laid out so far end where the next one begins. Theorems: `TypeCorrect`, `RecursionIsBounded`,
`NamesAreUnique`, `LayoutIsOrdered`, `FlattenedOnceSpec`.

The second half of the module, on top of that and from the same assumptions, is about what the inheritance computes.
Every part of `ShapeInv` is needed for the next. The scope has every blueprint under its own name, or the
analysis has stopped (`ScopeOK`), so a parent that was looked up is the one the name denotes (`LinksRight`), and
every call is for the parent its caller has just looked up (`CallsFollowParents`): a call for a blueprint in progress
therefore closes a real cycle. While none was reported, parents are finished before their children are flattened,
and no set of resolved blueprints leads back into itself (`CyclesKnown`); with all of them resolved, that is
`CyclesAlwaysReported`. Since a parent's shape no longer changes, what is flattened and what the running loop has still to
visit add up to the sum at every step (`ShapesSummed`): `ShapesAreSums`. `OwnBodies` is `OwnMethodsWin`. In the last
layout a shape that is done is packed as tightly as alignment permits, so its fields' offsets depend only on the
fields before them: where another shape shares a field, it has the same fields before it and puts it where it was
(`LayoutsKept`), which is `ExtensionsStay`. The first version of `ShapeIsSum` could not be proved: of two aliases
that one entry gives to one name, the code makes only the first (`ii_semantic_decl.c:290`).

**`Codegen_proofs`**, for every set of function bodies of any depth. `IInv` is `TypeInv`, `LabelsUnique` and
`LabelsKept`: the labels in the output and those in the lines `todo` has still to write come from the counter and
are below it, and none is in two places. Each statement is shown to take its labels from the counter and to hand each
to one place only (`Fresh`), whatever its clauses. Theorem: `LabelsAlwaysUnique`.

**`Bodies_proofs`**, for every set of programs. `IInv`: the work of the current body comes first, then the bodies
that follow (`BodiesInOrder`); every open scope but the global one is popped by what is left to do (`ScopesMatch`: a
number of scopes for each task, which is a witness and not a variable); the variables in the open scopes
belong to the body under analysis (`ScopesOfBody`), also those that were looked up before (`UsesKnown`); their slots end
below the counter, which is not above the largest (`SlotsTaken`). Theorems: `SlotsAlwaysApart`, `UsesStayInFrame`.

**`Driver_proofs`**, for every set of command lines and files and every outcome of the passes. `IInv` adds to
`CodeIfCorrect` which stop flags a file in the later passes can not have (`StopsPassed`), that a file in work can be
read and that the status is that of the files before it (`FileInWork`), and that code is generated only after
everything reported was displayed (`AllShown`). Theorem: `CodeOnlyIfCorrect`.

**`Parser_proofs`**, for every set of token sequences that end with their only end of file (`ProgramsAssumption`;
the lexer always appends it). `IInv` is `TypeInv`, `Sound`, `BasesHold` and `TreesAwaited`: a call in progress
remembers where its tree began, a boundary between whole trees, and the boundaries are nested in the order of the calls;
and a call that goes on with the last tree finds one that was made since the call around it began. The second half is what
allows a tree to be wrapped, replaced or taken back without cutting another one, and it is a statement about the
sequence of calls in `todo`, not about the tree. For `NothingLost`, `CompleteInv` adds, as long as nothing was reported,
what the calls in progress owe: every name and value before the position is in a node or in the hands of a call
(`Covered`); an attempt at a cast remembers that what comes before its own position is in nodes it
would keep (`CastsCovered`); the hole that an expression leaves at the end of the file is inside a call that will
want a token and report its absence, with no cast between that could take the report for its own (`HolesSeen`);
an alias list is open only in an inheritance (`AliasesHeld`). Theorems: `TypeCorrect` (no look-ahead or recovery leaves
the tokens), `NamesAlwaysKept`.

**`ParserTree_proofs`**, on top of it and from the same assumption, has two more properties of accepted programs.

`LevelsNest` says of operators that group to the left less than the code does: the operators in a right operand are
more than one level tighter. For it, `LevelsInv` says of every call of
`_pratt` what the loop has let through: an operator that waits for its right operand has its left one just before it, and
that fits (`Waiting`); the call for the right operand has the operator's level plus one, and is the innermost of those
on its tree, so that a bracket between them shows in the tokens (`Nested`); operators come before what is inside of
them (`InOrder`); what a call has just gone on with went on at its level, and when its right operand has ended nothing
goes on there (`Ready`). Of the finished tree: the operands of every operator fit, or a bracket is next to the operator
(`Leveled`), and next to a plain one there is none. Theorem: `LevelsAlwaysNest`.

For `StructureKept`, `StructureInv` (defined, with what a step must see to, in the last part of `Parser_proofs`) keeps
two accounts, as long as nothing was reported. `x` says how many closing braces, and `y` how many loop nodes, each call
and those around it still owe (`Ledger`); what the whole stack owes is the braces that are open at the position, and
the words `while` that have no loop yet (the `while` that ends a `do` is owed with a minus sign). What is passed over on account of
a leading dot, of an alias or of a keyword that names a field does not count (`Hidden`), and only an open list of aliases passes over
what is still ahead (`NoneAhead`). Every keyword of a statement, `var` or beginning of a declaration before
the position (`Wanted`) has its node, or a call holds its position for one (`Stood`), but for the `var` a for loop has
just dropped. That no name at the beginning of a declaration is taken for anything else needs that calls for
statements and members are inside of braces, that a call for an expression, type or list, outside of all braces and at the top of the stack, follows a token
that ends no declaration, and further down waits for a call that expects a `(` (`Placed`). A cast remembers a position
where the accounts were what they are at its place in the stack, so that going back makes them right again
(`Resumes`); that the attempt opens braces, reads names and makes nodes in between is why the accounts have to be kept per call. At the end
of the file nothing is owed. Theorem: `StructureAlwaysKept`.

**`Types_proofs`**, for every set of programs that are trees: a type is inside of one other at most, those of
fields, parameters, results and statements are inside of none (`TreesAssumption`), the parts of an expression can be
numbered before it, and only methods have a `self` (`TypingAssumption`). The parser makes no others. `ResolvedOnce` is
not inductive: `_resolve_type` asks whether a type is in progress only on the way through a field, so for
pointers, arrays and what the analysis of the body asks for it must follow from where the calls came from. `Chained` says
that a call resolves what is inside of the type of the call before it, or what is `Safe`: inside of no type, or of one
that has been resolved before. Something in progress is then never met again but by a field. The rest keeps
what is asked for safe while the body is analysed: the types aggregates are to have (`TargetsSafe`), of which the
one in work is resolved before its values are looked at (`InitInWork`), which needs that the tasks in `todo` are ordered
from the inside outwards (`Precedes`). Theorem: `NeverResolvedTwice`.

The inductive invariants were checked by TLC on the instances of the runs before they were proved.

Model-checked only: liveness (`ResizeEnds`, `Terminates`, `GetsOn`, `Ends`) and `FollowsSource`, which needs the outcomes
of the machine; what compares with, or rests on, a recursive definition (`ResolvesLexically`, `ReportsExactly`,
`CutsLongest`, `TokensTile`, `LocationsRight`, `SizesRight`, `QbeAccepts`, `ValuesFollow`, and `SupportedCompiles`, whose
`StmtReturns` and `Exits` recur on the statements), which the provers can not unfold for every input;
and `CorrectAccepted`, which is about a list of programs.

## What is not modelled

- Inherited fields in expressions (`Inheritance` has their layout). A `self` that is no parameter and a field named
  without `self` (`ii_semantic_expr.c:196,348`, `iic_codegen_expr.c:221,260`) can not occur: the parser makes every
  `self` the first parameter, and no field is put in a scope.
- The types of a file as QBE types (`iic_codegen_types.c`): no function refers to them. How strings are
  escaped: they are numbered.
- The arrays of 32 arguments and 32 strings and of four fields of an anonymous type, which are written without
  a check: the programs stay below. Overflow of sizes and values.
- `Typing` and `CodegenExpr` have declarations, returns and expressions in a list, `Codegen` and `Bodies` the
  statements around them with expressions that matter only for their order: the two halves meet in the lines they
  emit, and no module has both, since the programs would be too many.
- Vectors, regions and memory: sequences without bounds. Running out of memory ends the program.
- The AST's constructors, lists and printing; the trace; the logger; colours and layout of output.
- The C stack: recursion is bounded by the input alone.
- Undefined behaviour that depends on the layout of nodes: `ii_parser_stmt.c:127` casts a body without braces
  to a block. The programs for `Codegen` have braces; in `Bodies` a body is a block.
- Characters outside ASCII (`isalpha` of a negative `char`), and a lone `-` as an argument.

## Plan

Done, in this order: `UfMap` with proofs; `Inheritance` with proofs; `Codegen` with `Structured`; `ExprParser` and
`Parser`; `Bodies`; `Lexer` and `Driver`; `Types`, `Typing` and `CodegenExpr` with `Qbe`. The order is that of what
everything else rests on and of what is hardest to test.

The proofs are those of `UfMap`, `Inheritance`, `Codegen`, `Bodies`, `Driver`, `Parser` and `Types`. What no theorem
states yet is what the provers can not do (above).

Left for models: vectors and regions with the finalization of the AST's lists (abstract specification: a
sequence), and the interner of the source on `UfDict` (equal texts are equal pointers).
