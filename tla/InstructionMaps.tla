--------------------------- MODULE InstructionMaps ---------------------------
(***************************************************************************)
(* The buffers that the compiler fills (src/compiler.c): the instruction    *)
(* maps of the program and of its functions, the table of functions and the *)
(* variable references.  Only lengths and sizes are kept; which instruction *)
(* comes next is any, so that every source is covered.                      *)
(*                                                                         *)
(* Two routines fill a map: append_instruction grows it before it writes,   *)
(* push_instructions after.  Each is right for maps that the other leaves   *)
(* with room to spare.  A write past the end of a buffer ends the run in    *)
(* overrun: nothing is known after it.                                      *)
(***************************************************************************)
EXTENDS Integers, Sequences

CONSTANTS
    MapSize,        \* instructions a new map has room for: 1000 in init_map
    ReferenceSize,  \* variable references: 1000 in init_reftable
    FunctionsSize,  \* functions a new table has room for: 5
    MaxLength,      \* instructions compiled into one map, at most
    MaxFunctions,   \* functions, at most
    MaxInputs       \* inputs of a shell, at most

ASSUME SizesAssumption ==
    MapSize \in Nat \ {0} /\ ReferenceSize \in Nat /\ FunctionsSize \in Nat \ {0}
ASSUME MapBoundsAssumption == MaxLength \in Nat /\ MaxFunctions \in Nat /\ MaxInputs \in Nat

VARIABLES
    shell_env,      \* compiling for the shell
    map,            \* the program's map, [length, size]
    bodies,         \* the functions' maps, in the order their names come
    open,           \* the functions being compiled, the innermost last
    functions_size, \* functions the table has room for
    references,     \* var_reference_length
    linking,        \* the function being linked, 0 while compiling
    copied,         \* its instructions copied, -1 before its label
    inputs,         \* inputs begun
    overrun         \* the routine that wrote past the end of a buffer

linker == <<linking, copied>>
vars == <<shell_env, map, bodies, open, functions_size, references, linker, inputs, overrun>>

Routines == {"append_instruction", "push_instructions", "append_function", "compile_objects"}

init_map == [length |-> 0, size |-> MapSize]

Init ==
    /\ shell_env \in BOOLEAN
    /\ map = init_map
    /\ bodies = <<>>
    /\ open = <<>>
    /\ functions_size = FunctionsSize
    /\ references = 0
    /\ linking = 0
    /\ copied = -1
    /\ inputs = 1
    /\ overrun = "none"
-----------------------------------------------------------------------------
(* Writing.                                                                  *)

\* Mutant of Grown: it is never time to grow.
NeverGrown(m) == m
Grown(m) == IF m.length = m.size THEN [m EXCEPT !.size = 2 * @] ELSE m
Longer(m) == [m EXCEPT !.length = @ + 1]
Fits(m) == m.length < m.size

\* append_instruction: where the entry goes, and the map with it.
append_instruction(m) == Longer(Grown(m))

Overrun(routine) ==
    /\ overrun' = routine
    /\ UNCHANGED <<shell_env, map, bodies, open, functions_size, references, linker, inputs>>

Compiling == overrun = "none" /\ linking = 0
Linking(i) == overrun = "none" /\ linking = i /\ i \in DOMAIN bodies

\* reftable->map: that of the innermost function being compiled.
innermost == open[Len(open)]
current == IF open = <<>> THEN map ELSE bodies[innermost]
SetCurrent(m) ==
    IF open = <<>> THEN map' = m /\ UNCHANGED bodies
    ELSE bodies' = [bodies EXCEPT ![innermost] = m] /\ UNCHANGED map
-----------------------------------------------------------------------------
(* compile_objects.                                                          *)

\* Any instruction of a statement.
PushInstruction ==
    /\ Compiling
    /\ current.length < MaxLength
    /\ IF Fits(Grown(current))
       THEN /\ SetCurrent(append_instruction(current))
            /\ UNCHANGED <<shell_env, open, functions_size, references, linker, inputs, overrun>>
       ELSE Overrun("append_instruction")

\* A declaration ends in STORE and takes a reference, which nothing makes room for.
PushVariable ==
    /\ Compiling
    /\ current.length < MaxLength
    /\ CASE ~Fits(Grown(current)) -> Overrun("append_instruction")
         [] Fits(Grown(current)) /\ references >= ReferenceSize -> Overrun("compile_objects")
         [] OTHER ->
              /\ SetCurrent(append_instruction(current))
              /\ references' = references + 1
              /\ UNCHANGED <<shell_env, open, functions_size, linker, inputs, overrun>>

\* Mutant of GrownTable: one entry late.
GrownTableLate == IF Len(bodies) > functions_size THEN 2 * functions_size ELSE functions_size

\* The size of the table that append_function writes to.
GrownTable == IF Len(bodies) = functions_size THEN 2 * functions_size ELSE functions_size

\* push_function up to the compilation of the body.
OpenFunction ==
    /\ Compiling
    /\ Len(bodies) < MaxFunctions
    /\ IF Len(bodies) < GrownTable
       THEN /\ functions_size' = GrownTable
            /\ bodies' = Append(bodies, init_map)
            /\ open' = Append(open, Len(bodies) + 1)
            /\ UNCHANGED <<shell_env, map, references, linker, inputs, overrun>>
       ELSE Overrun("append_function")

CloseFunction ==
    /\ Compiling
    /\ open # <<>>
    /\ open' = SubSeq(open, 1, Len(open) - 1)
    /\ UNCHANGED <<shell_env, map, bodies, functions_size, references, linker, inputs, overrun>>

\* In the shell every scope, an if's too, starts its map over; the room stays.
OpenScope ==
    /\ Compiling
    /\ shell_env
    /\ SetCurrent([current EXCEPT !.length = 0])
    /\ UNCHANGED <<shell_env, open, functions_size, references, linker, inputs, overrun>>
-----------------------------------------------------------------------------
(* compile: EXIT, then the functions, each between LBL and RET.              *)

\* Append to the program's map and go on at a place of the link.
LinkAppend(i, n) ==
    IF Fits(Grown(map))
    THEN /\ map' = append_instruction(map)
         /\ linking' = i
         /\ copied' = n
         /\ UNCHANGED <<shell_env, bodies, open, functions_size, references, inputs, overrun>>
    ELSE Overrun("append_instruction")

PushExit ==
    /\ Compiling
    /\ open = <<>>
    /\ LinkAppend(1, -1)

PushLabel(i) ==
    /\ Linking(i)
    /\ copied = -1
    /\ LinkAppend(i, 0)

Copying(i) == Linking(i) /\ copied >= 0 /\ copied < bodies[i].length

\* Mutant of push_instructions: no growth.
push_instructions_fixed(i) ==
    /\ Copying(i)
    /\ IF Fits(map)
       THEN /\ map' = Longer(map)
            /\ copied' = copied + 1
            /\ UNCHANGED <<shell_env, bodies, open, functions_size, references, linking, inputs,
                           overrun>>
       ELSE Overrun("push_instructions")

\* One turn of the loop: it writes, then grows.
push_instructions(i) ==
    /\ Copying(i)
    /\ IF Fits(map)
       THEN /\ map' = Grown(Longer(map))
            /\ copied' = copied + 1
            /\ UNCHANGED <<shell_env, bodies, open, functions_size, references, linking, inputs,
                           overrun>>
       ELSE Overrun("push_instructions")

PushReturn(i) ==
    /\ Linking(i)
    /\ copied = bodies[i].length
    /\ LinkAppend(i + 1, -1)

\* The next input of a shell is compiled into the same table: its map starts
\* over with the room it has, the functions are linked again.
NextInput ==
    /\ overrun = "none"
    /\ shell_env
    /\ linking > Len(bodies)
    /\ inputs < MaxInputs
    /\ inputs' = inputs + 1
    /\ map' = [map EXCEPT !.length = 0]
    /\ linking' = 0
    /\ UNCHANGED <<shell_env, bodies, open, functions_size, references, copied, overrun>>

Next ==
    \/ PushInstruction \/ PushVariable \/ OpenFunction \/ CloseFunction \/ OpenScope
    \/ PushExit
    \/ \E i \in DOMAIN bodies : PushLabel(i) \/ push_instructions(i) \/ PushReturn(i)
    \/ NextInput

Spec == Init /\ [][Next]_vars
-----------------------------------------------------------------------------
(* Properties of every compilation.                                          *)

Map == [length : Nat, size : Nat \ {0}]
Within(m) == m.length <= m.size

(* The type invariant, with the room that each routine leaves to the other:  *)
(* no map is longer than its block, and once push_instructions has copied an *)
(* instruction there is room for one more.                                   *)
RoomKept ==
    /\ shell_env \in BOOLEAN
    /\ map \in Map /\ Within(map)
    /\ bodies \in Seq(Map)
    /\ \A i \in DOMAIN bodies : Within(bodies[i])
    /\ open \in Seq(DOMAIN bodies)
    /\ functions_size \in Nat \ {0}
    /\ Len(bodies) <= functions_size
    /\ references \in 0..ReferenceSize
    /\ linking \in Nat
    /\ copied \in Nat \cup {-1}
    /\ copied > 0 => Fits(map)
    /\ linking \notin DOMAIN bodies => copied = -1
    /\ inputs \in Nat
    /\ overrun \in Routines \cup {"none"}

(* Only two writes can go wrong, whatever is compiled: the reference of one  *)
(* declaration too many, in a shell counted over all of its inputs, and the  *)
(* first instruction of a function whose label fills the map to the last     *)
(* entry (compiler.c: append_instruction, push_instructions,                 *)
(* append_function, compile_objects).                                        *)
OverrunOnlyAtLabel ==
    /\ overrun \notin {"append_instruction", "append_function"}
    /\ overrun = "compile_objects" => references = ReferenceSize
    /\ overrun = "push_instructions" => copied = 0 /\ map.length = map.size
=============================================================================
