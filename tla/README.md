# SeaScript in TLA+

SeaScript is a small interpreted language in C: a parser and a compiler that
turn a source into the instructions of a stack machine, the SeaVM, which
executes them, either for a file or, input by input, for an interactive shell.
This directory holds TLA+ modules translated from `src/`, the TLC runs that
check them on small instances, and theorems that TLAPS proves for every value
of the constants.

The program is sequential: one thread, no signals, nothing kept on disk while
it runs. What makes it hard is elsewhere. The machine checks nothing at run
time (no operand count, no jump target, no index, no call depth), so every run
rests on the shape of the code the compiler emits; comparisons and calls leave
residue on the stacks that later instructions must not take for operands; in
the shell one machine and one table of names outlive every input, the refused
ones too; the parser finds the end of everything it parsed a second time, by
other rules; and buffers are filled by routines that rely on each other's
margins.

## The system

| Part | Source | State | Operations |
|---|---|---|---|
| Lexer | `src/lex.c` | position, string under way, tokens | one branch of the loop of `lex` each, `scan_string` |
| Parser | `src/parser.c` | position, statements so far | `parse` and its `parse_*`, `skip_to_end`, `collect_tokens_from_scope` |
| Compiler | `src/compiler.c` | reference table: names, functions, string pool, instruction maps, labels | `push_*`, `compile_objects`, `translate_labels`, `compile`; `append_instruction`, `push_instructions`, `append_function` on growing buffers |
| Virtual machine | `src/seavm/vm.c` | ip, frames, operand stacks, globals, locals, labels | `vm_init`, one case of `vm_execute` per instruction |
| Operand stacks | `src/seavm/stack.c` | growing array of values | push, pop, top, create, terminate |
| C functions | `src/ssfunctions.c` | none of their own | print, input, exit, to_string, to_number, time |
| File runner | `src/seascript.c`, `ss_throw` of `src/debug.c` | none | `compile_and_run`, `execute_bytecode` |
| Shell | `src/shell/shell.c` | environment: machine, reference table, error flag | `execute_input`, `:killenv`, `:q` |
| Bytecode files | `src/seavm/bytecode.c` | file image | `save_to_file`, `read_from_file` |

Calls go one way: lexer, parser, compiler, machine; the machine calls the C
functions, which pop and push on the stack of the current frame. State is
shared in two places: the reference table, which nested compilations of
function bodies and branches write, and, in the shell, the machine and the
table that all inputs share. An error is `ss_throw`: the end of the process for
a file, a flag that keeps the input from being executed in the shell.

What makes each part correct:

- lexer: it stays in the text, ends, and gives the tokens that were written
  whatever the spaces, line breaks, comments and quotes around them;
- parser: its tree is that of the source, each statement ends where it should,
  and it stays within its tokens;
- buffers: each routine leaves the others the room they rely on;
- bytecode files: what is loaded is what was saved and does the same;
- machine: calls nest; it returns after the call that was made, leaves callers' frames
  alone, and on sound code never takes an operand, address or cell that is not
  there;
- compiler: the code it emits is sound in that sense, jumps forward only, and
  prints what the source means;
- shell: a session means what the same lines mean as one file; each input ends
  with the machine in its main frame.

## Modules

| Module | What it is |
|---|---|
| `SeaVM` | The machine: state of `VirtualMachine`, one action per instruction or family of instructions, one per way a run ends |
| `MCSeaVM` | Every program of four instructions over a small alphabet, and programs for the rest |
| `Verifier` | The shape of code the machine can be trusted with, as conditions on each instruction and its successors |
| `CallStack` | What calls promise, without frames: the abstract specification of CALL and RET |
| `SeaVMCalls` | The refinement mapping from SeaVM's frames to `CallStack` |
| `VerifiedCode`, `MCVerifiedCode` | The machine on verified images and what then holds |
| `Lexer` | `lex`, one action per branch of its loop, `scan_string` piece by piece |
| `Parser` | `parse`, from tokens to statements, with the flags of the first and last token |
| `Reading`, `MCReading` | Lexer and parser composed, on sources written out in several layouts |
| `InstructionMaps` | Lengths and sizes of the compiler's buffers, filled by any statements |
| `ShellMachine` | The machine of a shell: any inputs one after the other on one machine, `:killenv` between them |
| `BytecodeFile` | The bytecode file, for any images: `save_to_file`, `read_from_file`, and the run of what was loaded |
| `SeaVMProofs`, `VerifiedCodeProofs`, `SessionProofs`, `CompilationProofs`, `BytecodeFileProofs`, `SavedCodeProofs`, `InstructionMapsProofs`, `LexerProofs` | Theorems |
| `Assembly` | Builtins, the instructions of an operator, labels and their translation: what both forms of the compiler write code with |
| `Compilation` | The compiler step by step, for any sources, with the machine that executes what it makes, for a file or in the shell |
| `Compiler` | What the parser makes of statements, and the compiler, as functions from statements and a table to a table |
| `CompilationSteps`, `MCCompilation` | The two forms of the compiler side by side: the steps end in what the function says |
| `Semantics` | What a source means, without stacks, slots or labels; the abstract specification of the compiler |
| `RunFile`, `MCRunFile` | `seascript file`: compiler composed with machine |
| `Bytecode`, `MCBytecode` | `--preserve`, then the saved file loaded and executed: the compiler composed with `BytecodeFile` |
| `Shell`, `MCShell` | The shell: many inputs and one table: the compiler composed with `ShellMachine` |
| `MCRunFileFindings`, `MCShellFindings` | The inputs of the runs that expect a violation |

`EXTENDS` goes SeaVM, Verifier, VerifiedCode for what is proved of the
machine, and SeaVM, ShellMachine and SeaVM, BytecodeFile for what surrounds it;
ShellMachine + Verifier + Assembly, Compilation for what is proved of the
compiler; Compiler + Verifier, Semantics, RunFile or Shell for what is checked.
Shell adds the compiler to ShellMachine, Bytecode adds it to BytecodeFile: each
step of the one is a step of the other with an image that the compiler made.
Reading extends Lexer and Parser, which extends Compiler for the form of
statements. Compiler and Parser use `RECURSIVE` operators, which TLAPS cannot go
through, so nothing that is proved extends them: Compilation is the compiler in
a form that can be proved about, and CompilationSteps compares the two. Lexer,
InstructionMaps, CallStack stand alone. The proofs compose as the modules do:
SessionProofs and SavedCodeProofs use what VerifiedCodeProofs says of one step
of the machine, CompilationProofs what SessionProofs says of one input.

A source goes through the modules as it goes through the program: text,
`Reading` to the tree; tree, `RunFile` to the output, or `Bytecode` by way of a
file. `Reading` shows that what `RunFile` and `Shell` start from, Compiler's
`parse` of the statements, is what the lexer and the parser make of the text.

### State and actions

`SeaVM`. `ip`, `sp`, `stack`, `return_addresses`, `globals`, `locals` and their
sizes are the fields of the same name; a frame's `Stack` is a sequence, cells
are a function on the ids that were written, so that a read of any other
allocated cell is a read of memory nobody wrote (`Garbage`). `prog` is the
image, `status` tells whether and how `vm_execute` ended, `out` is what print
wrote. An action is the whole `case`: operands, pushes, and ip. Where the C
code would touch memory it does not own the run ends in a status that names the
mistake (`underflow`, `frame_overflow`, `frame_underflow`, `wild_jump`,
`bad_address`, `bad_pointer`): this is where the model stops following the
program, and what the properties exclude. Reads through the wrong member of the
union are what the bits read as, in the build of the Makefile: the low byte of
a small number is 0, so a number is false as a condition; `true` is a denormal
double; pointers are either.

`Compiler`. A table record holds the instruction map, its counter of globals,
the references, the pool, the functions and the labels; each `push_*` is an
operator from a table to a table. A source is a sequence of statements, not of
characters. The shell is the same compiler with `shell_env` set, which matters
in two places: `ss_throw` goes on, and `compile_objects` empties the map.
`push_function_call` also looks at one argument slot beyond those parsed, which
the parser never wrote. In the builds looked at its length is 0 or a pointer,
so nothing is emitted for it and the model has no such slot. The scope of a
clause is a pointer: `<<>>` is NULL, of a branch `{}`, whose clause is dropped
with all behind it; `<<scope>>` points to a scope, which has no statements when
nothing but line breaks or stray marks are between the braces (`BlankClause`),
and is compiled with its condition, jump and label all the same.

`Compilation`. The C functions of the compiler call each other down the tree of
the parser. What they have still to do is `todo`, a list of tasks (push this
expression, this term, this scope, emit this instruction); a step takes the
first and puts its parts in its place, in the order of the code. `maps` are the
instruction maps, the program's first and then one for each function, with
`code` and `counter`; `functions`, `refs` and `pool` are the rest of the table,
`labels` counts labels. `Begin_input` starts `compile` on a source, the
`Compile_step`s are `compile_objects` and the `push_*`, `Push_exit` and
`Link_function` are the rest of `compile`, `Finish_compile` translates the labels
and begins to execute, and `Execute`, `Kill_environment` and `Quit` are those of
ShellMachine. `shell_env` is chosen at the start: for a file there is one input
and `ss_throw` ends the process, in the shell it sets `err` and goes on. Five
things are not in the code and decide no step: `base` of a task and `depth` of a
map count the operands that are there when an instruction is reached; `sound`
says of a map that each of its expressions has a value and nothing was left out
for an error; `owner` says which map a label is put in; `trusted`, that all the
code executed so far was sound, and its variables in memory of the first size.

`CallStack` and `SeaVMCalls`. An activation that waits is its call site, its
operands and its locals; a call appends it, a return takes the last one and
goes on after the site with the rest as it was. Everything else the machine
does is `Work` of the current activation. The mapping takes the frames below
`sp` as callers, each with the address saved in it.

`Lexer`. `text` is a sequence of pieces: marks are characters, and a name is
made of pieces that nothing tells apart. `mode` is where the program is: in the
loop of `lex`, in that of `scan_string`, done, or reading memory `outside` the
text. A string is scanned piece by piece, for its buffer; the switch of
`scan_string` looks at the backslash itself, so that every escape becomes a
backslash and the next character is dropped. Names and numbers have buffers of
fixed size that nothing checks; they are not modelled.

`Parser`. A position stands for `current_token`. A scope is its tokens and how
many are used: the body of an `if` has one more token than is used, and both
its last two have `is_end`. Each operator returns what it parsed and its fate:
`thrown` if `ss_throw` ends the program, `outside` if a token beyond the scope
is read or written. `skip_to_end` goes on over a line break that is the last
token, as the code does, which looks at `is_end` only of other tokens. `Reading` starts from a file's text with the closing space
of `read_file`, lexes it in steps and parses it in one. `Written` and `TextOf`
are the other direction, from statements to text, and model no code.

`InstructionMaps`. Maps are `[length, size]`; statements push any number of
instructions, open functions and branches at any time. A write past the end of
a buffer ends the run in `overrun`, with the name of the routine.

`BytecodeFile`. `bytes` is the file from `instr_addr` on. An instruction is its
opcode and the lowest `bytes_to_read` bytes of its argument; a string is its
characters and a byte that `append_string` passes over, which holds any of
`Leftovers`. Loading reads byte by byte as the code does, stops where it stops,
and ends in `past_end` or `past_string` where it would leave the file or a
string's buffer. Arguments are natural numbers that fit their bytes, those of
eight bytes up to 2^31 - 1 (no negative numbers, no fractions:
`push_constant` truncates to an integer). `Saved` is the machine of SeaVM on the
image itself, as if there were no file: the abstract specification of saving
and loading, with `prog` mapped to the image. `Bytecode` takes the image from the
compiler and adds the buffer that the file is built in.

`RunFile`. `compile_and_run` is the initial state, then the machine runs.

`ShellMachine`. `BeginInput` starts `vm_execute` on the code of an input: only
`ip` is set, everything else is as the last input left it. `RunInput` is a step
of the machine, which gives the prompt back at the end of the code and closes
the shell with `exit` or a fault; `NewMachine` is what `:killenv` does to the
machine.

`Shell`. `execute_input` compiles into the table and either begins the input
or, on an error, does nothing to the machine; `Execute`, `KillEnv` and `Quit`
are the steps of ShellMachine with what they do to the table.

## Runs

| Run | Shows | Bounds |
|---|---|---|
| `programs` | Whatever the code: well-formed state, returns after calls, callers' frames untouched | 4096 programs of 2 + 4 instructions, 15 others; 3 frames, 2 cells |
| `verified` | Verified code: position and depth invariants, no fault, frames enough when calls have an order, control moves on, termination | every verified program of 3 + 2 instructions, main and function, and of two functions that call each other or not; 3 frames |
| `reading` | Lexing stays in the text, reads on with each turn, ends, and gives the tokens that were written; the tree is that of the source, or, where the last `;` is left out, which scopes the parser runs out of | 290 sources in 5 layouts: spaces or comments, line breaks or one line, and line breaks with the last `;` of each scope left out; 18 texts written without care; strings of 2, tokens of 3 at first |
| `compilation` | The compiler step by step makes what the compiler as a function makes; sound sources become code that verifies; what executes it is safe and moves on, input by input | 8 sources with every statement and every kind of error, one in a file or up to 3 in every order in the shell, with `:killenv`; 2 cells |
| `buffers` | Which writes can be past the end of a buffer | maps of 2 instructions at first, 4 at most; 3 functions, 2 references, 2 inputs |
| `saved` | Saved code comes back, runs step by step as what was saved, as safely, and does the same; the buffer it is saved in is large enough | 14 sources with every kind of argument; passed bytes 0 or a letter; strings of 4 at first; 2 versions |
| `files` | Compiled sources print what they mean, verify and end | 2568 sources: 5 function bodies, every three of 8 statements, and the programs under `tests/` that compile; 4 frames |
| `sessions` | Shell sessions mean what one file means, return to the main frame and end | up to 4 inputs out of 8 in every order, with errors and `:killenv` |
| `returned_value`, `global_ids` | Where files do not do what the repository says | two sources |
| `references`, `branch_taken` | The same of the shell | two inputs out of three |

Why the bounds are enough. A program's instructions interact through the stack
of one frame, the frame below it and the jump targets: four instructions after
two operands include call, overwrite, return, underflow in each frame, jump
over and jump onto a call, recursion to the frame limit and falling off the
end. Three frames give a caller that is itself called. In `files` the three
statements give calls before and after branches, labels in use around labels of
the function, a variable read after a branch that may not have declared it, and
exit in the middle. Four inputs are a declaration, a function, a refused or
killed environment and a use. In `reading` each
statement is followed by each of 40, with functions, branches and chains around
nine scopes (empty, with a return, with functions and branches in them), and
strings that look like marks and quotes are among the others; each buffer fills
and doubles. In `buffers` each map doubles, the table of functions twice, and
links of empty, short and full functions start at each place of the map; the
program's 1000 and 5 are larger instances of the same loops, which
`BuffersHold` covers. In `saved` the first string of 3 characters and its byte
fill the buffer of 4 that stands for 100. In `compilation` three inputs are one that
defines names and functions, one that fails in the middle and one that uses what
they left; the sources have branches in branches and in functions, a function
that calls itself, calls of functions that are not there, more variables than
cells, and every disjunct of each step is taken. Numbers beyond `MaxNumber` become `Opaque`,
compared as anything; `LabelLimit` bounds how often `:killenv` can be repeated,
since labels are never reused.

`CHECK_DEADLOCK FALSE` in every configuration: a run of the program ends.

Fairness. `vm_execute` is one loop in one thread without waiting: while it can
take a step it takes it. So `FairSpec` and `RunFileSpec` have weak fairness of
their next-state action, as have `LexSpec`, `ReadingSpec` (of the lexer's steps)
and `BytecodeSpec`, and `ShellSpec` of `Execute` only: what a user types,
and whether, is up to the user. `input` waits for a line, which the model gives
at once; with a user who never answers, termination is not claimed.

### What reading does not promise

`LinesReadAsWritten` holds of every source of the run with a line break, and
where a statement needs one a `;`, behind each statement, but for strings that are spelled `(`, `)`, `{`, `}`, `,` or
`;`: the parser compares values only and takes them for marks (`parser.c:107`).
`OneLineReadAsWritten` leaves out what a file without line breaks loses. The
body of an `if` drops the token collected last (`parser.c:400`), for it should
be the brace; when the brace is the last token of its scope, it was not
collected (`parser.c:169`), and the last token of the body goes. So an `if`, or
a function with no statement, or `return;` must not be the last thing in a file
or branch on one line; with an empty body the parser writes to `tokens[-1]`
(`parser.c:192`). `tests/language/whitespace.ssc:1` says "you can fit
everything in 1 line"; its own line ends in an `if`, whose body loses the last
parenthesis but is read as meant, because the parser of a call looks at one
token more than it is given.

With the `;` of the last statement left out but a line break behind it,
`OpenReadBeyond` says when the parser runs beyond its tokens. `skip_to_end`
looks whether a token is the last only when it is no line break
(`parser.c:85`): the last statement of a file or of a branch is skipped over its
line break and on, and in a branch the brace then stands where the parser no
longer looks for an end. In a function the brace is the last token, and the
statement reads as written. A return is not skipped (`parser.c:444`), so that it
runs out of a branch only when the parser then skips a call in it. A declaration, an assignment or a return that ends
the text this way is read too far even before (`parser.c:312`). What
a quote without a partner makes the lexer do, `OutsideOnlyOpenString` says.

`PoolKept`, `LoadedIsSafe` and `LoadedMatches` hold when the bytes that `append_string` passes
over are zero, which `malloc` does not promise (`PoolKept` and `LoadedIsSafe`
also leave out strings that fill their buffer to the last byte); `InstructionsKept` and
`LoadedRunEnds` hold whatever they are, the second with an end beyond the file
only when one of them is not zero. `BufferHolds` holds for calls of up to
three arguments; with five constants the file is longer than what was allocated.

### What Semantics leaves undefined

`OutputMatches` and `SessionMatches` speak of sources with a meaning. There is
none for: a returned value, a call of a user's function as a value, a
declaration in a function, two things with one name, expressions of more than
one operator, a branch `{}` (with the branches after it it is dropped; a branch
of line breaks has a meaning), a condition that is no Boolean, a variable that was not declared on the way, text
that is not a number as a number, more calls than frames, and what depends on
the clock or the user. Most of these are known not to work (see the findings
and hazards), and the others have no answer in the repository. Of the 2568
sources of `files` 1723 compile and 1594 of these have a meaning. `Verified` is
asked of more: of each well-formed source, with returns and declarations
anywhere.

## Findings

- The value a function returns is left on its own stack, which RET frees: a
  declaration with a call takes its value from the caller's empty stack
  (`compiler.c:392`; `tests/language/function_call.ssc:13-15` calls it ok).
- A variable declared in a function gets the cell of the program's first
  variable (`compiler.c:324`).
- A declaration that fails in the shell leaves its name with no value
  (`compiler.c:383`; `shell.h:9-12`).
- In the shell an `if` loses its condition and the branches before the last
  (`compiler.c:371`; `tests/language/conditional2.ssc:2-3`).

Without a run of its own, because one look at one line shows it: parameters are
parsed and never used, so a body that reads one does not compile
(`compiler.c:140`; `tests/language/whitespace.ssc:3`).

## Proofs

`SeaVMProofs`, for every set of images and every bound, from the assumptions
SeaVM names (limits are positive, symbols are not numbers, images are
sequences of instructions):

- `TypeCorrect`. TypeOK is inductive; a lemma for each family of actions says
  that values produced are values. It includes that cells are written in
  allocated memory only.
- `CallersAreKept`. Under TypeOK each action leaves stacks and locals below
  `sp` as they were: Enter writes above, Return frees `sp` itself, the others
  write `sp`.
- `ActivationsNest`, for any code: SeaVM implements CallStack. Initial states map
  to initial states; for a step, a lemma for each of three kinds: Enter appends
  the current frame to the callers, Return is the inverse, and every other
  action writes nothing below `sp`, which makes it Work. The invariant it needs
  is TypeOK.
- `ReturnsGoAfterCalls`. Inductive with TypeOK: Enter is the only writer of a
  return address and its ip holds a call, entries below `sp` stay.

`VerifiedCodeProofs`, from one more assumption, `ImagesVerified`: each image
has depths that verify it.

- `ControlHolds`, `DepthHolds`, `VerifiedCodeIsSafe`. None of ControlInv,
  DepthInv and NoFault is inductive alone: a return is in the code because
  control says who called, has its operands because depth says what the caller
  had, and neither survives a step into a fault. The induction is over
  `SafeInv`, their conjunction with TypeOK and StorageInv (globals and locals
  never have fewer cells than the first allocation). For each action: the
  instruction's own operands are there by DepthInv and `Verified`, so it is not
  the fault; its successor is a position of the code with at most the depth
  left; and frames below keep theirs by `CallersAreKept`'s argument. Return
  takes the depth of the frame below at its call site.
- `FramesAreEnough`. CALL does not count frames. When functions call each other
  in an order (`Nested`: a level below the frame limit for each position, which
  a call raises and no other step lowers), they do not run out. Not inductive
  alone; `LevelInv` adds that no more calls are open than the level of the
  current instruction, and that each caller's level is at least its frame: a
  return needs the caller's level again, and SafeInv for where it goes on.
- `ControlMovesOn`. In code that only jumps forward, each step that goes on
  makes the list of places (of the open calls, then ip) later in lexicographic
  order, or adds a call. Every successor of an instruction that is no call or
  return is ahead of it; a return drops the current place and moves the
  caller's on. Code and frames being finite, this is the argument for
  termination; that it ends is checked, not proved.

`SessionProofs`, for ShellMachine, from `ImagesVerified` alone, so for any
inputs in any order:

- `PromptIsAtTop`, `SessionIsSafe`. vm_execute clears nothing between inputs, so
  an input runs on what the last one left, and its depths count from nothing.
  `SessionInv` is SafeInv without the assumption that the code is the one the
  machine started with: while executing, control and depths hold of the current
  input; at the prompt no call is open, because control ends only in the main
  program; and frames above `sp` are empty (`AboveEmpty`), since a return frees
  its frame. What is left on the main frame's stack does no harm: depths are
  lower bounds.

`CompilationProofs`, for any sources built of the terms and statements that the
parser makes, in a file or typed one after the other with errors and
`:killenv` between them; from Compilation's assumptions on the form of sources
and, for the first theorem, nothing about images:

- `CompiledCodeIsVerified`. `Verified` speaks of positions of the finished code,
  the compiler of one instruction at a time, of several maps and of labels that
  are not there yet. `CompilationInv` is what joins them, a conjunction of parts
  none of which is inductive alone:
  - `TodoOK`: each task finds the operands it counts on where the one before it
    is done, names functions, strings and variables that are there, and starts
    scopes and statements without operands to count on; `Reached`: and the first
    task finds them where the map ends now. With them `MapsOK`: in each map each
    instruction has its operands and leaves the next its own.
  - `OwedOK`, `PlacedOK` and `HeadsOK`: a label is put once, in the map it belongs
    to, and is either there or still owed by one task; the labels at the heads of
    functions are in no map until the functions are linked. `JumpsOK`: the label
    of each jump is further on in its map, or owed by a task of that map. Without
    the owner of a label a branch of a function might jump into the program; the
    uniqueness is what makes get_label_address, which takes the first, right.
  - `LinkedOK`: the program ends in the one EXIT, behind it each function linked
    so far begins with its label, the code ends in EXIT or RET, and no RET is
    before the EXIT: that is where `Verified`'s main program ends.
  - In the shell a nested scope empties the map and leaves tasks behind that owe
    labels to jumps that are gone; the parts are stated so that this keeps them
    (a branch that loses its condition is wrong, but verifies).

  At `Finish_compile` no task is left, so each jump lands ahead in its own part
  of the code, each call on the label of a function, and translate_labels turns
  that into `Verified` of the image with the map's `depth` and JumpsForward of its
  code, the premise of `ControlMovesOn`.
- `CompiledCodeIsSafe`: the composition with `SessionProofs`, by the invariant
  CompilationInv and, while `trusted`, SessionInv. It supposes that `Images`, for
  which `SessionProofs` has its result, holds each image that some depths verify.
  That is no restriction on the code: with `Images` that set, and `DepthAt` depths
  that verify each, every assumption is met.
- `CompiledCodeMovesOn`, under the same supposition: `ControlMovesOn` for what the
  compiler emits, over any number of inputs. Besides the invariant above it needs
  `AheadInv`, that trusted code which executes jumps forward only. Execution begins
  in `Finish_compile` alone, where CompilationInv says so of the finished code, and
  no step of the machine changes the code. So each input of a sound source gets
  on, whatever the inputs before it left in the machine.

What `sound` and `CellsSuffice` leave out, because the code of the program may
not be safe there: an expression that is neither one term nor two with an
operator between them; the value of a user's function; a builtin without the
arguments it reads; an input with an error, and the inputs that a function of it
is linked to; an id beyond the first allocation of globals and locals.
`returned_value` shows one of them underflow.

`BytecodeFileProofs`, for every set of images whose arguments fit and whose
strings are sequences of bytes from 1 to 255, any leftover bytes and any size of
a string's first buffer:

- `InstructionsAreKept`, `PoolIsKept`. The loader does not know how many
  instructions there are: it reads until a position that the saver wrote down.
  `FileInv` says, phase by phase, that `bytes` is the encoding of the
  instructions saved so far followed by the strings with a byte behind each,
  where each instruction and string begins (functions on the naturals), and
  that the loader's cursor is at one of these places with exactly what is
  before it read. Then the bytes at the cursor are those of one instruction
  (`Argument` undoes `write_bytes`), and the first zero byte from a string's
  place on is the one behind it, when that one is zero.

- `SavedCodeRunsOn`: the refinement, for any code, verified or not. The machine
  that loaded a file implements the machine on the image that was saved. While
  the file is written and read this one waits at its start; then each action of
  the loaded machine is the same action there. The images differ: NOP, which the
  compiler leaves where a label was, keeps an argument that the file drops. A
  lemma for each family of actions says that it looks at the argument only of an
  instruction that has bytes for one, and at the pool where it is the same.
  `ExecutionInv` is the invariant: FileInv, and the machine is as `vm_init` left
  it until it executes, and what it executes is what FileInv says was loaded.
  Clean files only, as for `PoolIsKept`.

`SavedCodeProofs`, from the assumptions of the two above:

- `SavedCodeIsSafe`: the composition, by ExecutionInv and SafeInv. The refinement
  does not give it, for it speaks of clean files and of the behaviour, and
  SafeInv of depths in the code that is executed, which is `KeptImage` of what was
  saved.
  `KeptIsVerified` shows that this loses no verification, for the argument of an
  instruction that has no bytes for one is never looked at; from there on
  SafeInv holds as before. The theorem supposes that `Images` is closed under
  KeptImage. That is no restriction on the code: the kept image of a verified
  one is verified, with the same depths, and fits, so it can always be added.

`InstructionMapsProofs`, for any sizes of buffers that are not empty:

- `RoomIsKept`, `BuffersHold`. RoomKept is inductive with the types. The part
  that is needed and easily missed: while a function is copied, after its first
  instruction, the map has room for one more, because `push_instructions` grows
  after it writes; `append_instruction` does not leave that behind, so the
  first copy has nothing to rely on. That write is the one that can go wrong,
  besides the reference nobody makes room for.

`LexerProofs`, for any texts, from the assumptions that pieces of words, digits
and marks are different and a string's first buffer has two bytes:

- `LexerStaysInText`. The induction is over where the lexer is: in the loop of
  `lex` it is in the text or at its terminator; in a string it may step over
  the terminator (as a character, or behind a backslash), and then no quote
  between the opening one and the end was read as a closing one, which is what
  `NeverCloses` says of `opened`. The runs of words and numbers, chosen as
  least positions, exist by well-founded induction over the naturals.
- `BuffersSuffice`. The array of tokens and a string's buffer grow in time; for
  the string it is inductive only with one byte more than is claimed, the one
  for its end.
- `LexerReadsOn`. Each turn of either loop ends or moves `current_token` on, and
  the tokens there are stay, from the same invariant, which says that the text is
  not at its end: the runs of a word, a number and a comment then end behind
  the place where they begin.

Checked only, and why:

- `OutputMatches`, `CompiledCodeVerifies`, `SessionMatches`,
  `SessionCodeVerifies`, `LoadedMatches`, `LinesReadAsWritten`,
  `OneLineReadAsWritten` and `OpenReadBeyond`: what the compiler or the parser makes of every
  source is induction over its syntax, and `Compiler` and `Parser` are
  recursive operators, which TLAPS does not go through. What
  `CompiledCodeVerifies` and `SessionCodeVerifies` say of them is proved of the
  compiler step by step (`CompiledCodeIsVerified`), for sound sources; that the
  steps end in what the function gives, `StepsCompile`, is checked for the same
  reason. Of `LoadedMatches` the part that is about the file is proved
  (`SavedCodeRunsOn`); that what was saved prints what the source means is
  checked. `TokensAsWritten` compares with a text that is written by the same recursion.
- `BufferHolds`: the size of the file as a sum over instructions and terms.
- `Termination`, `RunEnds`, `InputEnds`, `LexingEnds`, `LoadedRunEnds`:
  liveness under fairness. The step arguments are proved of the first and the
  fourth (`ControlMovesOn`, `LexerReadsOn`), and of the second and third for sound
  sources (`CompiledCodeMovesOn`).

## Not modelled, and the plan

Not modelled, because nothing but output depends on it: printing of trees,
tokens and bytecode (`--view`), the other flags, benchmark, names of
instructions, line numbers of messages. Because nothing uses it: `ast.c`
(empty), `vm_clear`, `vm_raise`, `copy_to`, `is_array`,
`is_natural_identifier`, the heap table's contents. Because it is a constant
limit that one input exceeds by itself, whatever the state: names of 31 bytes,
tokens of 85 and 22, 255 terms, 253 arguments. Arrays are parsed and never
compiled; `while` is a keyword that the parser passes.

Done: SeaVM with CallStack, Verifier, VerifiedCode, Compiler, Compilation,
Semantics, RunFile, ShellMachine, Shell, InstructionMaps, BytecodeFile, Bytecode, Lexer,
Parser, Reading and the eight proof modules. Left, in this order:

1. `set_global`'s one doubling: the bound on the order of ids under which it is
   enough, with declarations in branches that are not taken, and `LOAD` of ids
   beyond the array; then proved with VerifiedCode's StorageInv.
2. `Conversions`: to_number and to_string by digit and with their widths (32
   and 64 bits), checked against a reference over bounded texts.
3. `Memory`: who owns strings of the pool, of to_string and of the tree across
   inputs and `:killenv`.
4. The shell from its characters: parsing that goes on after `ss_throw`.
