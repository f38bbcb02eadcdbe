# A verification of the L2 bootstrap compiler

L2 is a small programming language whose compiler lets a program preprocess
itself: functions of the program are loaded into the running compiler and used
as macros. This directory holds TLA+ models of the bootstrap compiler
(`src/bootstrap`, about 4100 lines of C), the TLC configurations that check
them on small instances and theorems that TLAPS has checked for all instances.
`PROJECT.json` maps every definition to the lines it models.

## 1. The system

`bootstrap/compile.c` runs everything in one thread, in this order:

1. `main` splits the arguments at two dashes into source files, intrinsics (none
   is supported) and object files.
2. `evaluate_files` loads the object files, reads the source files, turns
   their functions into *thunks*, loads the thunks and expands the
   meta-expressions found at top level, round after round, until a round
   produces nothing new.
3. `compile_files` reads the files to compile again, expands *all*
   meta-expressions in them with the program now in memory, links all files
   together for the constraint check (type inference), takes the links away
   again, and links, compiles and writes each file by itself.

Nothing is concurrent, and nothing is retried by a clock. What is hard here:

- **re-entrancy**: a thunk called by a macro calls `init_function`, which
  preprocesses, compiles, loads and links the function, and preprocessing calls
  macros again. The compiler is on its own stack many times over;
- **errors as jumps**: an error leaves any depth of calls by `longjump` to the
  handler it was given, which need not be the handler of the caller;
- **code that is left by jumps**: generated code stores continuations, and a
  jump restores the saved registers but not the stack pointer; half-evaluated
  expressions stay behind;
- **repeated linking**: an object is relocated in place, again and again, while
  the addresses of its symbols change;
- **hand-made memory**: everything is allocated from growing chains of pages
  and freed at once;
- **graph algorithms on cyclic data**: symbols and what they are bound to
  depend on each other; the traversal keeps its bookkeeping in the nodes, and
  unification assigns the variables that it follows;
- **two passes that must agree**: space is measured by one loop and filled by
  another, bindings are classified by one pass and laid out by another, and a
  name is looked up once for the check and once for the code;
- **shared cells**: lists share tails, and some operations write into cells.

### Components

| Component | State | Operations | Right when |
|---|---|---|---|
| Region allocator, `x86_64_linux_interface.c` 180-243 | chains of mapped segments with a header of five words | `create_region`, `region_alloc`, `destroy_region` | blocks never meet, are aligned and mapped; destroying a region gives back all of it, and ends |
| Lists, `list.c` | linked cells that lists share | `append`, `prepend`, `append_list`, `reverse`, `map`, `concat`, searches | lists behave as values |
| Lexer, `lexer.c` | position in the input | `read_fragment`, sugar for brackets and sigils | fragments are those of the grammar in the README |
| Expression builder, `expressions.c` | expression trees | `build_expression`, constructors | malformed fragments are refused |
| Symbol linking and analyses, `analysis.c` | bindings of symbols, flags in expressions | `visit_expressions`, `link_symbols`, dependencies, containment, escape and short-circuit analysis | every symbol is bound to what the scoping rules say; flags tell which expressions can be left or re-entered |
| Strongly connected components, `analysis.c` 250-280 | search stack, `lowlink`, `preorder` in expressions | `construct_sccs` | a partition into components, dependencies first |
| Type inference, `analysis.c` | signatures | `unify`, `occurs_in`, `scoped_signature`, `infer_types` | a most general typing; no cyclic signature; a call that passes has the right arguments |
| Code generator, `x86_64_generator.c` | offsets of slots, labels, lists of instructions | `layout_frames`, the `sgenerate_` functions | generated code does what the expression means |
| Assembler and ELF writer, `x86_64_assembler.c`, `elf.c` | bytes of an object file | `max_elf_size`, `assemble`, `write_elf`, `binding_aug_offsets_to_addresses` | the bytes decode to the instructions, tables and sections are where they are said to be and fit the space measured |
| Runtime intrinsics, `x86_64.s` | none | `get`, `set`, arithmetic | single instructions |
| Object loader, `x86_64_object.c` | sections in memory, symbols, relocation entries, addends put aside | `load`, `mutate_bindings`, `mutable_bindings`, `immutable_bindings` | every field holds what its relocation says, for the latest bindings |
| Evaluation and driver, `analysis.c` 525-632, `compile.c` | bindings, objects, caches of thunks, trees being expanded | `evaluate_files`, `try_generate_metas`, `init_function`, `compile_files`, `main` | only linked code is entered; output is the expansion of the input; an object file depends on its own source file only |
| Error handling, `errors.c`, `x86_64_linux_interface.s` | jump buffers | `setjump`, `longjump`, `throw_` functions | the right handler, nothing run after it that was abandoned |
| Self-hosted compiler | - | the same compiler written in L2 | not modelled |

### How they interact

All parts allocate from regions. `compile_program` runs linking, the analyses,
`layout_frames`, the generator and the assembler in a row, and gives the loader
the object in memory. The loader tells the evaluation which names an object
needs and gives. The evaluation hands generated code to the processor, and that
code calls back into the evaluation through thunks and through the compiler's
own functions that are in scope for macros.

## 2. The modules

| Module | Role |
|---|---|
| `Arena` | what an allocator promises: arenas that appear, hand out disjoint blocks and disappear with them |
| `Region` | the allocator; implements `Arena` |
| `RegionProofs` | theorems about `Region` |
| `Expressions` | expressions as records, their positions as paths, visiting order |
| `Analysis` | the passes that link symbols, collect dependencies and compute flags, as operators |
| `Sccs` | `construct_sccs`, one action per step of the search |
| `SccsProofs` | theorems about `Sccs` |
| `Generator` | `layout_frames` and the generator, from expressions to instructions |
| `Semantics` | reference: what the language's README says expressions mean, as a machine with an explicit context |
| `Machine` | a processor that runs the generated code; compares with `Semantics` |
| `Objects` | symbol tables: which symbols are given and which are needed |
| `Loader` | `load` and `mutate_bindings` |
| `LoaderProofs` | theorems about `Loader` |
| `Encoding` | one instruction as bytes, and the processor's decoding of them |
| `EncodingProofs` | theorem about `Encoding`: what is encoded is decoded |
| `Assembler` | `write_elf` |
| `AssemblerProofs` | theorems about `Assembler` |
| `Building` | composition: what `Assembler` writes is read, relocated and mutated by `Loader` |
| `Evaluation` | `evaluate_files`, `init_function`, `compile_files`, on `Objects` |
| `Preprocessing` | reference: what a program needs to be preprocessed; properties of `Evaluation` |
| `EvaluationProofs` | theorems about `Evaluation` |
| `Driver` | `main` and `compile_files`: one run of the compiler over several files, on the passes of `Analysis` and `Generator` |
| `Unification` | `unify` and `occurs_in` on a heap of fragments |
| `Unifiers` | reference: what fragments mean, and which meanings solve equations |
| `UnificationProofs` | theorems about `Unification` |
| `Inference` | composition: `infer_types`, from the search of `Sccs` through equations solved by `Unification` to the verdict |
| `Builder` | `build_expression`: which fragments are expressions |
| `Grammar` | reference: the grammar of fragments as a set of texts |
| `Lexer` | `read_expressions`: the recursive readers, with printing of fragments |
| `ListValues` | what lists promise: values |
| `Lists` | the operations of `list.c` on cells, and their refinement mapping to `ListValues` |
| `FileLists` | the lists of `compile.c`, from `main` to `compile_files`, on the cells of `Lists`; implements `ListValues` |
| `Induction` | induction over the natural numbers, as a lemma about sets, for the proofs |
| `MC...` | instances for TLC |

### Region

`segs` is the memory as far as headers are concerned: for each mapped segment
its `next`, `cur`, `ptr` and `end` words, and as history the region it was
mapped for. `mmap` chooses any free pages, so a later segment may lie before or
behind an earlier one, and addresses are used again after `munmap`.
`destroy_region` is a loop, so it is one action per turn (`destroy_region` for
the first, `DestroyNext` for the rest), which lets a property look at the moment
between reading a link and following it. `blocks` is history: what clients hold.

### Expressions, Analysis, Sccs

An expression is identified by its path from the list of top-level expressions;
a symbol is a node like any other because it has a signature. `Bindings` maps
symbols to their binder and place. `Dependencies` is `vfind_dependencies` on the
expressions in visiting order, with its lists built by prepending: their order
decides the course of the search. `Sccs` has the recursion of `construct_sccs`
as a stack of activations (`Start`, `Descend`, `Compare`, `Leave`). `UINT_MAX`
stands for the value that storing `-1` in the unsigned `lowlink` gives.

### Unification, Inference

`Unification` has the fragments in memory as a sequence `heap`, in which a
variable is the only cell that changes. The calls of `unify` still to be made
are the stack `todo`, and one turn of the loop in `evaluate`, one comparison,
one step of the occurs check and one assignment are a step each: a cyclic
fragment would keep the model busy for ever, as it would the program. The
history variable `asked` has all equations that have come up, and `seen` what
the occurs check has looked at; the properties and the proof rest on them.

`Unifiers` says what the result is worth. A *meaning* gives a tree to every
fragment; it `Respects` the heap when a variable means what its value means and
a list means the list of what its elements mean, and it `Solves` the problem
when the two sides of every equation mean the same. `MakesEqual` says that after
success every meaning that respects the heap solves the equations, and
`MostGeneral` that no step loses a solution and that failure comes only where
there is none.

`Inference` extends `Sccs` with the loop of `infer_types`: for each expression
of a component, in order, the equations that its kind has (`Equations`, on
signatures that `scoped_signature` shares within the component and copies
outside of it), then the steps of `unify`, and at the end of a component the
replacement of variables by their values. `recursive_evaluate` and
`copy_fragment` allocate on the same heap.

### Builder, Grammar, Lexer

`Lexer` reads a text character by character with one frame on `stack` for each
call of `read_fragment`, `read_fragment2` and `read_list` that has not returned.
Every fragment at top level goes to `build_expression` before the next one is
read. `Grammar` is the comment above `read_fragment`, as the set of all texts up
to a length with the fragments they stand for. A keyword is one character, a
literal has `WORD_BIN_LEN` digits. `print_fragment` gives the text of fragments
that are read back.

### Generator, Machine, Semantics

`Generator` translates an expression into a sequence of instructions exactly as
the `sgenerate_` functions do: where operands are kept (in temporary slots of
the frame when a sub-expression can be re-entered, on the stack otherwise), how
continuations are laid out, which jumps are direct. Slots of the frame have the
offsets `layout_frames` gives them, top-level expressions have them in the
static area. Addresses count words, and labels become instruction numbers.

`Machine` has a program counter, registers, a stack and the static area, and one
action for each kind of instruction. Code outside the compiler keeps to the
calling convention *and nothing more*: `put` and `put8` record their arguments,
give all caller-saved registers and everything below the stack pointer a junk
value, and `callback` uses a callee-saved register before it calls its
argument. The intrinsics `get`, `set` and `subtract` are the wrappers of the
compiler.

`Semantics` evaluates expressions by a context stack and activations, without
frames, registers or addresses. A continuation captures the context. It gives no
meaning to programs that jump to the continuation of a function that has
returned, use an unset variable or give the wrong number of arguments, and
`Machine` starts only on programs that have a meaning. Arguments are evaluated
in the order the generator uses, which the language leaves open.

### Objects, Loader

`Loader` is one object: its symbols, the relocation entries, the addends put
aside and the memory field each entry names. `load` is `offsets_to_addresses`,
`store_addends`, `do_relocations` in this order; `mutate_bindings` is one step
for each update and then `do_relocations`. Entries are of both kinds (addend in
the entry, or in the field that relocation overwrites). Numbers keep their
width: a field of n bytes holds a value below `Modulus[n]`.

### Encoding, Assembler, Building

`Encoding` gives the bytes of every instruction that the generator emits, by the
cases of `write_mr_instr`, `write_o_instr` and `write_static_value`, and
(external) how a processor decodes prefix, opcode, ModRM and SIB. `Assembler`
goes through `write_elf`: the five loops that number symbols and write names,
one step for each element (`write_symbol` for those the loop is for, `pass_over`
for the others) and `end_symbols`; `assemble`, one step for each instruction,
which gives labels their values and leaves relocation entries; the headers; the
sections. `image` has the parts of the file with the places they were written
to. The space is measured by the sums of `measure_strtab` and `measure_symtab`,
over the lists once, and filled by the loops, which go over two of the lists
twice.
`Building` lets `Loader` read the result: the loader sees the symbols, entries
and sections as the headers of the file delimit them. Then
`binding_aug_offsets_to_addresses` computes the addresses of bindings a second
time, and `mutate_bindings` relocates again and again. `CodeRefersRight` is about
numbers, not about numbers up to the width of a field: where the processor jumps
to when it adds the four bytes of a field, with their sign, is the address of
the label.

### Driver

`Driver` is a run of the compiler. Command lines have every mixture of dashes
and files. All files are linked together (`LinkAll`), the check passes or fails
(`Infer`, either way), `Unlink` goes expression by expression, and
`CompileExpression` runs the passes of `compile_program` on one expression:
classification of bindings, linking, escape analysis, layout. `WriteFile` ends a
file; an error in a later one leaves the earlier object files behind, through
`Throw` and `Handle` to the exit status. What `evaluate_files` and the
assembler do inside is modelled elsewhere.

### Lists

`Lists` has the operations of `list.c` on a heap of cells and variables that
hold lists. `prepend`, `lst` and assignment share cells, `reverse` copies, and
`append` and `append_list` write into the last cell of a list, whoever shares
it. The refinement mapping of `Values` reads off each variable the sequence its
cells hold, and `ImplementsValues` says that every step is one of `ListValues`: a
step on one variable is not seen through another. A circle has no value there,
so a step that makes one is none.

In general that is not so, and nothing in `Lists` makes it so. `FileLists` goes
through a run of the compiler, list operation by list operation: the bindings to
which the symbols of every object are linked in place while
`try_generate_metas` and the thunks hold them too, the expressions of the files
that become the end of those of all files, the objects, the thunks, what
`try_generate_metas` gives back, the symbols that `load_program_and_mutate`
compares with the bindings (`not_subset`), the lists of `compile_files`, and the
components that `infer_types` turns around. No action has a condition on shared
cells. What keeps the compiler from sharing at the wrong moment is where lists
begin and go out of scope (`Locals`, one step of `Drop` for each), and that this
is enough is what the run shows. When an expression is a thunk, has new symbols
or ends in an error is left open.

The callers of `append` in the lexer, the expressions, the analysis and the
generator start from `nil` and give the list away when it is complete; that is
read off the code.

### Evaluation, Preprocessing

Of an expression `Evaluation` keeps the meta-expressions in it, in the order in
which `pre_visit_expressions` meets them, and the functions it refers to. A
meta-expression carries the expression its macro returns. An address is the pair
of the number of an object among all that are loaded and of a function in it, so
whatever is loaded is given addresses of its own; the functions of the compiler
that `main` binds from the start (`Interface`, `static_bindings`) have the
number 0, and the address 0 is `NotFound`. `code` says what is at an
address: a thunk with its cache and its handler, a compiled body with the
addresses its names were linked to, a function of an object file, or one of the
compiler. `stack`
holds the calls under way: a tree being expanded, or a body that runs.

A function that is made of an expression in place of a macro's name
(`CallContainer`) refers to that name first, so the first of its links is the
macro that it returns. `Exprs`, `Names` and `Height` say which expressions there
are and that they are finite trees (`ExprsAssumption`); an instance names all
parts of the expressions in its programs. A constrain expression gets its
signature from a macro: where it stands by itself it is one of the type
`constrain`, whose first meta-expression is the call of that macro, and it is an
expression like any other once that has returned (`Constrained`);
`try_generate_metas` goes no further than that. Inside of another expression only
the call matters, and it is a meta-expression there. `Expansion` is the reference: every
meta-expression replaced by what comes out, without the order of the compiler.

A function that runs calls the functions it refers to, or does without some of
them (`CallFunction`, `SkipCall`), so all orders of first calls happen. `Throw`
is the `longjump`: it empties the stack and goes on after the `setjump` of the
handler the failing code was *built with*. In thunks that is the handler of the
whole run, even when `try_generate_metas` has one of its own.

Type inference may fail for any file (`InferTypes`), and compiling any body may
be refused, so errors come at every point where the code can have them.

## 3. The runs

| Run | Instance | States | Shows |
|---|---|---|---|
| `region` | pages of 4 bytes, headers of 2, 76 bytes, two regions, three blocks of 0, 3 or 12 bytes | 501,353 | all safety properties, refinement of `Arena`, and that `destroy_region` ends |
| `codegen` | 1368 programs | 250,700 | the code does what is meant, never faults, keeps registers and frames, and ends |
| `codegen_reference` | one program | - | *violation*: finding 1 |
| `loader` | 312 object files, two load addresses per section, five updates | 51,888 | fields right after every relocation |
| `evaluation` | 1496 programs of two source files and an object file | 99,319 | compiled code leads to code, and only an object file with a name nothing is bound to calls what is not there; one meaning for a name, right output, termination |
| `unification` | 11,440 heaps with two equations | 84,156 | no cyclic fragment, equations made equal, most general, failure only without a solution, termination |
| `inference` | 8 examples of the README and 450 programs of two functions | 42,196 | the search sound, its components strongly connected, dependencies first; verdicts as documented; all equations hold; accepted calls match; the recursions end |
| `inference_circle` | one program of three functions | - | *violation*: finding 2 |
| `building` | all instructions and registers, 3,159 programs | 223,721 | code decodes back, space and sections right, statics apart, references and exports right at every address |
| `lexer` | 55,580 texts, some 6,000 of them printed fragments | 520,764 | the grammar is read, forms are built, printing reads back, reading ends |
| `file_lists` | two source files of up to two expressions, an object file, two rounds | 80,838 | the lists of `compile.c` are values, although nothing keeps `append` and `append_list` from shared cells |
| `driver` | 92 command lines over five files | 3,460 | objects as if compiled alone, references placed, storage as classified |

### Bounds and why they are enough

- `region`: with `MaxAddr` 76 a chain grows to three segments (a middle one is
  where a wrong link shows), and two regions can lie in turn. The lengths are
  zero, one that is no multiple of the alignment, and one that fits no first
  segment. `MaxRegions`, `MaxBlocks` and `MaxAddr` limit the run only; the
  theorems hold for all values of them.
- `unification`: three variables (or two and a token), a token and two lists of
  up to two elements, which may be elements of one another: enough for a
  variable to be bound through another, for a failure in the second equation
  after assignments in the first, and for a circle through two lists.
  Solutions are looked for among six ground fragments, deep enough for these
  heaps.
- `inference`: bodies use every kind of expression that has equations or
  dependencies of its own, around self-reference, mutual reference, undefined
  names, functions passed as arguments and constrained signatures. `UINT_MAX`
  is 1000, above every depth.
- `building`: encodings depend on each register, displacement and immediate
  value by itself and on pairs of registers, and all of these are there;
  programs put the instruction between jumps in both directions. Statics come
  in every order and number. As in `loader`, widths are small enough to
  overflow.
- `lexer`: four characters are enough to nest a list in a sugared one in a list,
  and five (without braces, which are treated like brackets) to have separators
  on two levels. Longer texts come from printed fragments.
- `file_lists`: lists grow by linking at every place where the code does it, the
  bindings three times, one after another; two files and two rounds are what it
  takes for a list that was left behind to be linked or written to again.
  `MaxCells` is never reached. Symbols are of two kinds, so that one may be
  missing; elsewhere only the number of items matters, and there is one kind.
- `driver`: files define and use each other's functions, shadow and nest names,
  have statics of every kind; up to three of them in any order, repeated too.
- `codegen`: nine operands (evaluated to the end; left by a jump directly, from
  a called function, in one branch, from a callback through C, out of a loop),
  two at a time, in nine contexts that the generator treats differently, in a
  function and at top level. `StackSize` 200 and `Fuel` 400 (steps of the
  reference) are never reached: a program that needed more would end in a fault
  or be left out, and none is, which `NoFault` and `Halts` show for the first.
- `loader`: each type, kind, sort of symbol and sign of addend by itself, since
  entries do not influence one another, and updates in every order and number.
  A byte has two bits, so that addresses overflow fields of up to four bytes as
  real ones do.
- `evaluation`: macros that are written, made by macros, nested and computed;
  used at top level, inside functions and in what comes out of macros; present,
  made later in the same round, or never; in constrain expressions at top level
  and inside; using a function of the compiler. The object file refers to
  nothing, to a function that is written, or to one that is made in the first
  round or never. Programs are well-founded (no function
  needs itself in order to be preprocessed) and define no name twice.

### Fairness

The compiler is one thread that always takes its next step, so weak fairness of
the next step is all that is assumed: of `DestroyNext` in `Region` (callers of
the allocator need not call), of the steps of `construct_sccs` and of `unify` in
`Inference` and `Unification`, of the reader in `Lexer`, of the processor in
`Machine` and of `Next` in `Evaluation`. There a macro returns because the
bodies of the model call finitely many functions. `Loader`, `Building`,
`FileLists` and `Driver` state no liveness.

### Where stopping is allowed

`CHECK_DEADLOCK FALSE` is in the configurations of `Loader` (an object that
`store_addends` refuses is not used any further), `Evaluation`, `FileLists` and
`Driver` (the compiler ends) and `Lexer` (the file is read). `Building` goes on being told of
bindings. `Inference`, `Unification` and `Machine` stutter explicitly when they
have finished, so that a deadlock elsewhere is an error.

## 4. What is proved

### `RegionProofs`

For all page sizes, alignments, header sizes, address spaces and requests with
`SizesAssumption`, `AlignmentAssumption` (page and header are multiples of the
alignment, true of 4096, 40 and 8) and `RequestsAssumption`:

- `SpecIInv`: the inductive invariant holds;
- `AllocationSafe`: blocks do not overlap, are aligned, mapped and behind headers;
- `LinksSafe`: no link that is followed dangles, also in the midst of
  `destroy_region`;
- `DestroyComplete`: outside of `destroy_region` every mapped segment belongs to
  a region in use;
- `RegionImplementsArena`: every step is a step of `Arena` or a stutter.

That the chain reaches every segment is a statement about paths, which would
call for induction over the chain. The invariant avoids it: a new segment is
more than twice as long as the one before, so segments of one region differ in
length and each is linked to the *next longer* one (`LinksGrow`, `LinksCover`).
Unmapping the shortest one keeps that, and when no segment follows, none is
left. `Handles` and `Doomed` say where the chain starts; `SegmentShape` and
`SegmentsApart` keep blocks of different segments apart.

### `LoaderProofs`

For all object files, load addresses, word sizes and sequences of updates with
`FilesAssumption` (entries name symbols of the file) and `NumbersAssumption`
(the range of a wide field is a multiple of that of a narrow one):

- `TypeCorrect`: `TypeOK`;
- `RelocationCorrect`: `FieldsAsMeant`, that after `load` and after each
  `mutate_bindings` a field is what the ABI computes from the file, the load
  address and the latest updates.

`FieldsAsMeant` speaks of finished relocations only and is not inductive. The
invariant adds what holds between: fields are as in the file until the addends
have been put aside (`Unwritten`), offsets and symbols are what the meant values
say at each stage (`OffsetsRight`, `SymsRight`), and the addends are those of
the file however often fields have been overwritten (`AddendsRight`). The
history variable `latest` says what was most recently asked for. The arithmetic
is in `Truncate`: cutting a sum to the width of an address first and to the
width of the field then is the same as cutting it once.

### `UnificationProofs`

For every heap and list of equations with `ProblemAssumption` (elements and
values are fragments of the heap and no fragment is a part of itself: the
signatures that `infer_types` starts from are new variables and lists of them):

- `SpecIInv`: the inductive invariant;
- `NoCyclicFragment`: `Acyclic`, so that every later walk over a signature ends;
- `FindsUnifier`: `MakesEqual`;
- `FindsMostGeneral`: `MostGeneral`, in which failure without need is included.

`Acyclic` is not inductive, because it depends on what the occurs check has
excluded before the assignment. `CheckInv` has that: what is in `seen` is closed
under parts but for what is in `occurs.rest`, and the variable is not in it, so
when `rest` is empty, nothing leads from the value to the variable. Acyclicity is
stated as well-foundedness (every set of fragments has one with no part in it),
not with paths. For `MakesEqual` every equation ever asked is settled (equal
values, equal tokens, or lists whose elements were asked) or is still in `todo`;
that settled equations are equal follows from a wrong one with the lowest trees,
of these one whose left and then whose right side leads to no other. For failure
of the occurs check `DepthInv` says that in
each solution whatever `rest` has means a proper part of what the value means,
which therefore is not what the variable means.

### `SccsProofs`

For every list of expressions and graph of dependencies with `InputsAssumption`
(finitely many expressions that depend on one another) and `DepthAssumption`
(their number is below `UINT_MAX`, as it is in any memory):

- `TypeCorrect`: no depth reaches the `lowlink` that marks finished expressions;
- `SearchIsSound`: `SearchSound`. When the search has ended, everything that can
  be reached is in exactly one component, and the members of a component reach
  one another.

So components are never too *large*: no expression shares the variables of one
that does not depend on it. That they are not too *small* (`PartitionIntoSccs`)
is no theorem: finding 2 is a counterexample, and the run has it for the
programs of two functions. The invariant says where an expression is
(`OnePlaceEach`: on the search stack, under search, in a component or not met),
that what is on the stack can be reached from the activations it was pushed
under (`CallsInv`, `StackInv`) and leads back to one that is no deeper than its
`lowlink` (`StackInv`, `ActiveInv`), even where that number was of an activation
that is over, that what is finished depends only on what was met (`VisitedInv`),
that all that was met comes from the list (`OriginInv`), and that the members of
a finished component reach one another (`Connected`). `Reachable` is a recursive
function; that it is closed
follows by counting, because it grows at most as often as there are expressions.

### `EncodingProofs`, `AssemblerProofs`

- `DecodeEncode`: the bytes of an instruction, for all registers and values and
  at every place of any code, are decoded to that instruction and its length.
  No instruction can thus be read as part of another or across its end.

For every program with `ProgramsAssumption` (instructions of the kinds that the
generator emits, whose displacements and immediate values fit four bytes;
undefined bindings global, all others defined; labels are no statics):

- `SpecIInv`: `IInv == Control /\ Tables /\ Code /\ Bss /\ File`;
- `CodeIsDecoded`: `DecodesBack`, the whole of the code is the instructions one
  behind the other;
- `SpaceSuffices`: `FitsReserved`, nothing is written outside of the space that
  was measured, and the tables use it up, as their headers say;
- `StaticsHavePlaces`: `StaticsApart`;
- `SectionsAreFound`: `SectionsFound`.

`Tables` relates the lengths of the tables to sums over what each loop has
gone through, and `Measured` shows that the sums of the five loops make the
one measured: a static or a label is taken by exactly one of the two loops that
go over its list. `Code` says of each instruction done that its bytes start where
it was recorded and are followed by the next, `Bss` that the statics placed lie
below `bss_ptr`, apart, at multiples of eight, and `File` that the parts of the
file follow each other where the headers say.

### `EvaluationProofs`

For every set of programs with `ExprsAssumption` (expressions are finite trees,
of the kinds that `build_expression` makes), `NamesAssumption` and
`ProgramsAssumption`:

- `EvaluationInvariant`: the inductive invariant `IInv`;
- `NoWildCallAlways`: `NoWildCall`;
- `OneMeaningAlways`: `OneMeaning`;
- `WritesExpansionAlways`: `WritesExpansion`.

`ProgramsAssumption` says of object files only that they define and refer to
names, whatever these are. Objects of `evaluate_files` are linked with what is
known (`mutate_bindings`), and a name that is not keeps the address 0: code from
an object file that runs before the name is bound, or never has it bound, calls
that address. `NoWildCall` says that this is the only way (`Unresolved`), and
that every body that was compiled leads to code that is there, since
`load_program_and_mutate` refuses it otherwise.

None of the three is inductive. That no other call goes astray needs of each
frame that the calls still to come are of code that is there or, if they come
from an object, of the address 0 (`Callable`), hence of each body and object that
it is linked so (`CodeInv`, `ObjectsInv`, `LinksInv`). A frame that is going to
call the address 0 comes from an object that refers to a name without a binding
(`WildInv`), and stays so since bindings change only when nothing runs. A symbol
that waits has no address or one that its name has been given, and when
`link_objects` is through every
symbol whose name is bound has one (`Linked`), until more is bound. Thunks made during the expansion
of a meta-expression have the handler of `try_generate_metas`, to which nothing
may jump once that is over: such thunks are called only by the expansion they
were made for (`Public` leaves them out of all links, bindings and calls), which
is why an undefined symbol in `compile_files` always ends the run. The function
made of a container has been compiled when the frame that waits for it goes on,
since nothing but the frame above prepares it (`Awaits`, `Prepares`), and has a
first link because its references only grow (`replace`).

`OneMeaning` follows since links are addresses that the name *has been given*
and a name given once has one. For `WritesExpansion` the expression in a frame
of `compile_files` has, at every moment, the expansion of the expression it was
started with (`Expanded`): replacing the next meta-expression by what comes out
of its macro leaves the names of the whole the same, in the same order, which
rests on lemmas on joining sequences (`FlattenCat`). The files so far are those
expansions up to `pos` (`FilesInv`).

The model gives each call of a thunk under preparation a tree of its own, where
the code has one that all share. For programs in which a function is needed to
preprocess itself the theorems therefore speak of the model only; in all others
this does not happen.

### How the proofs do induction

Library theorems on induction have an operator parameter, which the provers here
cannot instantiate. `Induction` has the principle for a *set* of numbers, from
the theorem that relations on numbers are well-founded, and the lemmas
(`ReachedInDef`, `SumsDef` and those after them) use it with the set of numbers
that have the property. `IndexInduction` and `Greatest` are the same for numbers
up to a bound. `Iterate` gives for a sequence of steps the function of all
results in between; that the recursive functions of `Evaluation` and of the
library's folds are those functions (`FlattenSteps`, `RightExists`,
`ImmutableBindings`, `FunctionsFacts`) is where they are unfolded.

### What is only model-checked

- Liveness (`DestroyEnds`, the three `Terminates`, `RecursionsEnd`, `Halts`):
  fairness is beyond the proof system.
- All of `Analysis`, `Generator`, `Machine`, `Semantics`, `Driver`, `Builder`,
  `Grammar`, `Lexer` and `Inference`, and `OneRoundSuffices` of `Preprocessing`:
  they are, or use, recursive operators on trees and graphs.
- `CodeRefersRight` and `ExportsRight` of `Building` and `ImplementsValues` of
  `FileLists`: see section 7.
- `IInv` of the proof modules and `TypeOK` are proved and are in no
  configuration; the properties they serve are. TLC checked the invariants
  while they were being found.

## 5. Findings

1. **Arguments lost when the function of an invoke is re-entered**
   (`codegen_reference`, `x86_64_generator.c:373`). Arguments wait on the stack
   while the function is evaluated; if that is a `with` that a called function
   jumps to, the stack pointer has moved and the callee gets another word.
   Compiling the program and running it shows the same. Programs that evaluate
   such a `with` anywhere else, as in the arguments, are right (`codegen`).
2. **The constraint check accepts a call with a wrong number of arguments**
   (`inference_circle`, `analysis.c:262`). `construct_sccs` numbers nodes by the
   depth of the recursion, not by the order of discovery. For three functions in
   a circle with a short cut it puts some of the circle into a component before
   those it depends on, and `scoped_signature` copies a signature that is not
   inferred yet. With two functions the components are right (`inference`).

Modelling has shown more that no configuration here demonstrates. They are
stated as they can be read off the code:

- a round does not come back to what an earlier one left (`analysis.c:621`): a
  meta-expression whose macro is not there yet is not among the expressions of
  the next round, although the loop of `evaluate_files` is there to "expand
  top-level meta expressions in context of new bindings, and repeat loop in case
  new top-level functions were created" (`compile.c:105`). When `id` makes `foo`,
  `foo` makes `bar` and `bar` is used at top level, the compiler says that `bar`
  is undefined; running it shows the same. What holds is `OneRoundSuffices`, for
  programs that one round is enough for, and for all programs `WritesExpansion`:
  what is left either ends the run or is expanded by `compile_files`;
- a function of an object file that refers to a name without a binding is linked
  and called all the same, and calls the address 0 (`compile.c:115`); in
  `evaluation` that is the phase `crash`, which `NoWildCall` allows for such
  object files only;
- a relocation cuts a value that is out of reach of its field and does not report
  it (`x86_64_object.c:47`). In objects of this compiler that loses nothing, which
  `CodeRefersRight` shows with the numbers that the processor takes the fields
  for; object files of others are their maker's care;
- `vfind_dependencies` gives a continuation no dependency on its body
  (`analysis.c:231`): what only the body leads to is in no component and is not
  checked;
- the constraint check takes the first definition of a name on the command line
  and the code the last one of its own file (`compile.c:139`);
- `main` returns the number of an error as the exit status, and that of a failed
  constraint check is 0 (`compile.c:249`, `errors.c:1`);
- a jump from a function to a `with` at top level around it is short-circuited
  and restores no registers (`analysis.c:199`);
- bodies of polymorphic functions within one component share signatures, so
  that some programs are refused that could be typed;
- `ulong_to_str` makes an empty string of 0; `create` does not truncate an
  object file that exists, and the result of `write` is not looked at; the
  region made in `load_program_and_mutate` is lost when a symbol is undefined
  (`compile.c:55`); a source file name without a dot makes `strrchr` return
  NULL (`compile.c:156`).

## 6. What is not modelled

- The wording of messages and of what `print_expression` writes, the formatting
  of numbers, system calls other than `mmap` and `munmap`.
- Bytes of a source file that are no ASCII characters.
- `map` and `concat`, which nothing calls, and writing into the items of a list
  through `foreachaddress`.
- Failure of `mmap`: its result is not tested, the process faults.
- The registers that `setjump` saves, and the C compiler's use of the stack.
- The tree that is shared when a function is called while it is being
  preprocessed itself, and what names defined twice should mean: nothing says
  what should happen.
- Jumps to a continuation whose expression is evaluated again meanwhile (a
  generator built from continuations) are outside of the programs of `codegen`.
- The self-hosted compiler. It is the same design and the bootstrap compiler is
  the one that has to be right first.

`PROJECT.json` lists the hazards with the properties that cover them, and
for those without a property the reason.

## 7. Plan

Done, in the order of importance: allocator (all else stands on it), code
generation, loading, evaluation; then type inference with its search for
components, assembler and their composition with the loader, lexer and builder,
lists, and the driver.

Theorems, done in this order: `Region`, `Loader`, `Unification`, `Sccs`,
`Encoding`, `Assembler`, `Evaluation`. Next:

1. `Building`: `ExportsRight` and `CodeRefersRight`, which join the theorems of
   `Assembler` and `Loader`. `Loader` has its own program as an object file of
   any form, so what is missing is that the file read is the file written;
2. `Lists`: with `Walk` as a function, that cells only lead to cells, and the cases
   of `ImplementsValues` that need no induction over paths;
3. `OneRoundSuffices`, once `Closure` and `Macros` are written as functions: what
   is called in a round is in the closure of what the expression needs.

Models still to extend: re-entrant `init_function` with programs that are not
well-founded and the tree shared by the activations; generators and coroutines
in `codegen`; the remaining intrinsics, which have the shape of `subtract`.

## 8. Running it

    tlc -workers 2 -config MCRegion.cfg MCRegion
    tlapm RegionProofs.tla

and likewise for the other configurations and for `LoaderProofs.tla`,
`UnificationProofs.tla`, `SccsProofs.tla`, `EncodingProofs.tla`,
`AssemblerProofs.tla`, `EvaluationProofs.tla` and `Induction.tla`. The longest runs
(`inference`, `codegen`) take two to three minutes, the longest proofs some ten.
