-------------------------------- MODULE SeaVM --------------------------------
(***************************************************************************)
(* The SeaVM: the stack machine of src/seavm/vm.c, its operand stacks       *)
(* (src/seavm/stack.c) and the C functions that bytecode calls              *)
(* (src/ssfunctions.c).  One action is one iteration of the loop of         *)
(* vm_execute, that is one instruction.                                     *)
(*                                                                         *)
(* What the C code leaves undefined is modelled in two ways.  A step that   *)
(* touches memory it does not own (pop of an empty stack, a call with every *)
(* frame in use, a jump out of the code) ends the run in a status named     *)
(* after the mistake.  A read of bits that mean nothing as the type they    *)
(* are read as is a choice among the values they can be read as.            *)
(***************************************************************************)
EXTENDS Integers, Sequences

CONSTANTS
    Images,         \* the programs: records [code, pool]
    Text,           \* non-numeric strings that programs and users write
    Opaque,         \* stands for any double, or text, that is not tracked
    Null,           \* the NULL that readline returns at end of input
    MaxNumber,      \* integers beyond +-MaxNumber become Opaque
    FrameLimit,     \* entries of vm->stack and vm->locals: 256 in vm.h
    CellLimit       \* globals, and locals of a frame, allocated: 50 in vm.c

Opcodes == { "NOP", "EXIT", "LOADBOOL", "LOADC", "LOADPOOL", "POP", "INC", "DEC",
             "EQ", "LT", "GT", "JUMP", "JUMPIF", "NOT", "ADD", "SUB", "MUL", "DIV",
             "CALL", "RET", "CALLC", "STORE", "LOAD", "LBL", "LBLJMP", "LBLJMPIF",
             "LBLCALL", "LSTORE", "LLOAD" }

\* Indices into ss_functions, the table that CALLC goes through.
ss_f_print     == 0
ss_f_input     == 1
ss_f_exit      == 2
ss_f_to_string == 3
ss_f_to_number == 4
ss_f_time      == 5
ss_functions   == 0..5

Instr == [op : STRING, arg : Int]

ASSUME FrameLimitAssumption == FrameLimit \in Nat \ {0}
ASSUME CellLimitAssumption == CellLimit \in Nat \ {0}
ASSUME MaxNumberAssumption == MaxNumber \in Nat
ASSUME SymbolsAssumption == Opaque \notin Int /\ Null \notin Int \cup Text \cup {Opaque}
ASSUME ImagesAssumption ==
    \A image \in Images : /\ image.code \in Seq(Instr)
                          /\ image.pool \in Seq(Int \cup Text)
-----------------------------------------------------------------------------
(* Values (StackObject): a type tag and a union.                            *)

Data == Int \cup Text \cup {Opaque, Null}
Value == [type : {"BOOL", "NUMBER", "STRING", "GARBAGE"}, data : Data]

Bool(b)   == [type |-> "BOOL", data |-> IF b THEN 1 ELSE 0]
Number(n) == [type |-> "NUMBER",
              data |-> IF n \in -MaxNumber..MaxNumber THEN n ELSE Opaque]
String(t) == [type |-> "STRING", data |-> t]  \* an integer t is its decimal text
Unknown   == [type |-> "NUMBER", data |-> Opaque]
Garbage   == [type |-> "GARBAGE", data |-> Opaque]  \* memory nobody wrote

\* What object.m_bool, the low byte of the union, reads as.  The low byte of a
\* small integer in a double is zero, whatever the integer.
Truth(v) ==
    CASE v.data = Null -> {FALSE}
      [] v.data \in Text \cup {Opaque} -> BOOLEAN
      [] v.type = "BOOL"   -> {v.data # 0}
      [] v.type = "NUMBER" -> {FALSE}
      [] OTHER             -> BOOLEAN

\* What object.m_number reads as, doubled: the bits of `true' are a denormal
\* double, greater than 0 and less than 1.
Magnitude(v) ==
    CASE v.data \notin Int -> Opaque
      [] v.type = "BOOL"   -> v.data
      [] v.type = "NUMBER" -> 2 * v.data
      [] OTHER             -> Opaque

\* m_number as an operand of arithmetic; `true' adds or multiplies to a double
\* that is not tracked.
Operand(v) == IF v.type = "NUMBER" \/ (v.type = "BOOL" /\ v.data = 0)
              THEN v.data ELSE Opaque

Equal(a, b) ==
    CASE a.type = "GARBAGE" \/ b.type = "GARBAGE" -> BOOLEAN
      [] a.type = "STRING" /\ b.type = "STRING" ->
            IF Opaque \in {a.data, b.data} THEN BOOLEAN ELSE {a.data = b.data}
      [] a.type = "STRING" \/ b.type = "STRING" -> {FALSE}
      [] OTHER -> IF Opaque \in {Magnitude(a), Magnitude(b)} THEN BOOLEAN
                  ELSE {Magnitude(a) = Magnitude(b)}

Less(a, b) == IF Opaque \in {Magnitude(a), Magnitude(b)} THEN BOOLEAN
              ELSE {Magnitude(a) < Magnitude(b)}

Arith(op, a, b) ==
    LET x == Operand(a)
        y == Operand(b)
    IN  IF x \notin Int \/ y \notin Int THEN Unknown
        ELSE CASE op = "ADD" -> Number(x + y)
               [] op = "SUB" -> Number(x - y)
               [] op = "MUL" -> Number(x * y)
               [] op = "DIV" /\ y > 0 /\ x % y = 0 -> Number(x \div y)
               [] op = "DIV" /\ y < 0 /\ (-x) % (-y) = 0 -> Number((-x) \div (-y))
               [] OTHER -> Unknown           \* a fraction, inf or nan

\* m_number++ and m_number-- leave the type tag alone.
Bump(v, n) ==
    CASE v.type = "NUMBER" /\ v.data \in Int -> Number(v.data + n)
      [] v.type \in {"NUMBER", "BOOL"}       -> [v EXCEPT !.data = Opaque]
      [] OTHER                               -> Garbage

\* to_string formats (int32_t)m_number; `true' and pointers are denormals: 0.
TextOf(v) ==
    CASE v.type = "NUMBER"  -> String(v.data)
      [] v.type = "GARBAGE" -> String(Opaque)
      [] OTHER              -> IF v.data = Opaque THEN String(Opaque) ELSE String(0)

\* to_number folds every character as a digit: '-' counts as the digit -3.
PowerAbove[m \in Nat] == IF m < 10 THEN 10 ELSE 10 * PowerAbove[m \div 10]
NumberOf(v) ==
    CASE v.type = "NUMBER"                    -> v
      [] v.type = "BOOL"                      -> Bool(FALSE)
      [] v.type = "STRING" /\ v.data \in Nat  -> Number(v.data)
      [] v.type = "STRING" /\ v.data \in Int \ Nat ->
            Number(-3 * PowerAbove[-v.data] - v.data)
      [] OTHER                                -> Unknown

\* The texts print may write for a value.
Shown(v) ==
    CASE v.type = "BOOL"    -> {Bool(b) : b \in Truth(v)}
      [] v.type = "NUMBER"  -> {String(v.data)}
      [] v.type = "STRING"  -> {v}
      [] v.type = "GARBAGE" -> {String(Opaque)}

\* exit((unsigned char)m_number) or exit(m_bool).
ExitCode(v) ==
    CASE v.type = "NUMBER" /\ v.data \in Int -> v.data % 256
      [] v.type = "BOOL"                     -> v.data
      [] OTHER                               -> Opaque
-----------------------------------------------------------------------------
VARIABLES
    prog,               \* the image being executed
    ip,                 \* instruction pointer, from 0
    sp,                 \* the current frame
    stack,              \* the operand stack of every frame
    return_addresses,   \* where each caller was
    globals,            \* the global cells written so far
    global_size,        \* the global cells allocated
    locals,             \* per frame, the local cells written so far
    local_size,         \* per frame, the local cells allocated
    status,             \* running, or how vm_execute ended
    exit_code,          \* the code it ended with
    out                 \* the texts printed

callframes == <<sp, return_addresses>>
memory     == <<globals, global_size, locals, local_size>>
outcome    == <<status, exit_code, out>>
vars == <<prog, ip, stack, callframes, memory, outcome>>

Frames == 0..FrameLimit - 1

Faults == { "underflow", "frame_overflow", "frame_underflow", "bad_address",
            "bad_pointer", "wild_jump" }
Statuses == Faults \cup { "running", "success", "end_of_code",
                          "invalid_instruction", "exit" }

NoCells == [id \in {} |-> Garbage]

\* Mutant of vm_init: no cell is allocated for globals.
vm_init_unallocated ==
    /\ sp = 0
    /\ stack = [k \in Frames |-> <<>>]
    /\ return_addresses = [k \in 0..FrameLimit - 2 |-> 0]
    /\ globals = NoCells
    /\ global_size = 0
    /\ locals = [k \in Frames |-> NoCells]
    /\ local_size = [k \in Frames |-> CellLimit]

\* What vm_init sets up.
vm_init ==
    /\ sp = 0
    /\ stack = [k \in Frames |-> <<>>]
    /\ return_addresses = [k \in 0..FrameLimit - 2 |-> 0]
    /\ globals = NoCells
    /\ global_size = CellLimit
    /\ locals = [k \in Frames |-> NoCells]
    /\ local_size = [k \in Frames |-> CellLimit]

Init ==
    /\ prog \in Images
    /\ ip = 0
    /\ vm_init
    /\ status = "running"
    /\ exit_code = 0
    /\ out = <<>>
-----------------------------------------------------------------------------
(* The current instruction, its operands, and the ways on.                   *)

cinstr == prog.code[ip + 1]
frame  == stack[sp]

\* Operands an instruction takes for granted on the current stack.
Operands(i) ==
    CASE i.op \in {"EQ", "LT", "GT", "ADD", "SUB", "MUL", "DIV"} -> 2
      [] i.op \in {"POP", "INC", "DEC", "JUMPIF", "NOT", "LBLJMPIF", "STORE", "LSTORE"} -> 1
      [] i.op = "CALLC" /\ i.arg \in {ss_f_print, ss_f_exit, ss_f_to_string, ss_f_to_number} -> 1
      [] OTHER -> 0

Fetching == status = "running" /\ ip \in 0..Len(prog.code) - 1
Executing(op) == Fetching /\ cinstr.op = op /\ Len(frame) >= Operands(cinstr)
Calling(f) == Executing("CALLC") /\ cinstr.arg = f

top  == frame[Len(frame)]
top2 == frame[Len(frame) - 1]
Popped(n) == SubSeq(frame, 1, Len(frame) - n)

\* Go on with the next instruction, the current operand stack becoming s.
Continue(s) ==
    /\ stack' = [stack EXCEPT ![sp] = s]
    /\ ip' = ip + 1
    /\ UNCHANGED <<prog, callframes>>

\* The vector that resolve_labels fills: the last LBL with that label.  A label
\* that no LBL sets is an address outside of the code.
LabelAddress(label) ==
    LET Sets(i) == prog.code[i] = [op |-> "LBL", arg |-> label]
        last == {i \in 1..Len(prog.code) :
                    Sets(i) /\ \A j \in i + 1..Len(prog.code) : ~Sets(j)}
    IN  IF last = {} THEN -1 ELSE (CHOOSE i \in last : TRUE) - 1

\* set_global and LSTORE double the array once when the cell is beyond its end.
Grown(size, id) == IF id \in 0..size - 1 THEN size ELSE 2 * size

\* The cell, or what lies in allocated memory that nobody wrote.
Cell(cells, id) == IF id \in DOMAIN cells THEN cells[id] ELSE Garbage
WithCell(cells, id, v) ==
    [i \in DOMAIN cells \cup {id} |-> IF i = id THEN v ELSE cells[i]]
-----------------------------------------------------------------------------
(* Instructions that only move ip and the operand stack.                     *)

Nop ==
    /\ Executing("NOP") \/ Executing("LBL")
    /\ Continue(frame)
    /\ UNCHANGED <<memory, outcome>>

LoadConstant ==
    /\ \/ Executing("LOADBOOL") /\ Continue(Append(frame, Bool(cinstr.arg # 0)))
       \/ Executing("LOADC") /\ Continue(Append(frame, Number(cinstr.arg)))
       \/ /\ Executing("LOADPOOL")
          /\ cinstr.arg + 1 \in DOMAIN prog.pool
          /\ Continue(Append(frame, String(prog.pool[cinstr.arg + 1])))
    /\ UNCHANGED <<memory, outcome>>

Pop ==
    /\ Executing("POP")
    /\ Continue(Popped(1))
    /\ UNCHANGED <<memory, outcome>>

Increment ==
    /\ \/ Executing("INC") /\ Continue(Append(Popped(1), Bump(top, 1)))
       \/ Executing("DEC") /\ Continue(Append(Popped(1), Bump(top, -1)))
    /\ UNCHANGED <<memory, outcome>>

\* Mutant of Compare: the operands are popped, as arithmetic pops its own.
ComparePopping ==
    /\ \/ Executing("EQ") /\ \E b \in Equal(top2, top) : Continue(Append(Popped(2), Bool(b)))
       \/ Executing("LT") /\ \E b \in Less(top2, top) : Continue(Append(Popped(2), Bool(b)))
       \/ Executing("GT") /\ \E b \in Less(top, top2) : Continue(Append(Popped(2), Bool(b)))
       \/ Executing("NOT") /\ \E b \in Truth(top) : Continue(Append(Popped(1), Bool(~b)))
    /\ UNCHANGED <<memory, outcome>>

\* Comparisons and NOT read their operands and leave them on the stack.
Compare ==
    /\ \/ /\ Executing("EQ")
          /\ ~ (top.type = "STRING" /\ top2.type = "STRING" /\ Null \in {top.data, top2.data})
          /\ \E b \in Equal(top2, top) : Continue(Append(frame, Bool(b)))
       \/ Executing("LT") /\ \E b \in Less(top2, top) : Continue(Append(frame, Bool(b)))
       \/ Executing("GT") /\ \E b \in Less(top, top2) : Continue(Append(frame, Bool(b)))
       \/ Executing("NOT") /\ \E b \in Truth(top) : Continue(Append(frame, Bool(~b)))
    /\ UNCHANGED <<memory, outcome>>

Arithmetic ==
    /\ \E op \in {"ADD", "SUB", "MUL", "DIV"} :
          Executing(op) /\ Continue(Append(Popped(2), Arith(op, top2, top)))
    /\ UNCHANGED <<memory, outcome>>
-----------------------------------------------------------------------------
(* Control flow.                                                             *)

JumpTo(address) == ip' = address /\ UNCHANGED <<prog, stack, callframes, memory, outcome>>

Jump ==
    \/ Executing("JUMP") /\ JumpTo(cinstr.arg)
    \/ Executing("LBLJMP") /\ JumpTo(LabelAddress(cinstr.arg))

\* The condition stays on the stack.
JumpIf ==
    \E taken \in BOOLEAN :
        \/ /\ Executing("JUMPIF")
           /\ taken \in Truth(top)
           /\ JumpTo(IF taken THEN cinstr.arg ELSE ip + 1)
        \/ /\ Executing("LBLJMPIF")
           /\ taken \in Truth(top)
           /\ JumpTo(IF taken THEN LabelAddress(cinstr.arg) ELSE ip + 1)

\* Mutants of Enter: frames are not counted, and the address saved is that of the
\* next instruction although RET adds one to it.
EnterUnguarded(address) ==
    /\ return_addresses' = [return_addresses EXCEPT ![sp] = ip]
    /\ sp' = sp + 1
    /\ ip' = address
    /\ stack' = [stack EXCEPT ![sp + 1] = <<>>]
    /\ locals' = [locals EXCEPT ![sp + 1] = NoCells]
    /\ local_size' = [local_size EXCEPT ![sp + 1] = CellLimit]
    /\ UNCHANGED <<prog, globals, global_size, outcome>>

EnterSavingNext(address) ==
    /\ sp < FrameLimit - 1
    /\ return_addresses' = [return_addresses EXCEPT ![sp] = ip + 1]
    /\ sp' = sp + 1
    /\ ip' = address
    /\ stack' = [stack EXCEPT ![sp + 1] = <<>>]
    /\ locals' = [locals EXCEPT ![sp + 1] = NoCells]
    /\ local_size' = [local_size EXCEPT ![sp + 1] = CellLimit]
    /\ UNCHANGED <<prog, globals, global_size, outcome>>

\* A call opens a frame with a stack and locals of its own; the operands the
\* caller pushed stay in the caller's frame.
Enter(address) ==
    /\ sp < FrameLimit - 1
    /\ return_addresses' = [return_addresses EXCEPT ![sp] = ip]
    /\ sp' = sp + 1
    /\ ip' = address
    /\ stack' = [stack EXCEPT ![sp + 1] = <<>>]
    /\ locals' = [locals EXCEPT ![sp + 1] = NoCells]
    /\ local_size' = [local_size EXCEPT ![sp + 1] = CellLimit]
    /\ UNCHANGED <<prog, globals, global_size, outcome>>

Call ==
    \/ Executing("CALL") /\ Enter(cinstr.arg)
    \/ Executing("LBLCALL") /\ Enter(LabelAddress(cinstr.arg))

\* Mutants of Return: the result is handed to the caller, the frame stays the
\* callee's, the call is made again.
Returning(stacks, frames, address) ==
    /\ Executing("RET")
    /\ sp > 0
    /\ stack' = stacks
    /\ locals' = [locals EXCEPT ![sp] = NoCells]
    /\ sp' = frames
    /\ ip' = address
    /\ UNCHANGED <<prog, return_addresses, globals, global_size, local_size, outcome>>
Freed == [stack EXCEPT ![sp] = <<>>]
CallSiteOfCaller == return_addresses[sp - 1]
ReturnWithResult ==
    Returning(IF frame = <<>> THEN Freed ELSE [Freed EXCEPT ![sp - 1] = Append(@, top)],
              sp - 1, CallSiteOfCaller + 1)
ReturnInPlace == Returning(Freed, sp, CallSiteOfCaller + 1)
ReturnToCall == Returning(Freed, sp - 1, CallSiteOfCaller)

\* The callee's stack and locals are freed with whatever they hold.
Return ==
    /\ Executing("RET")
    /\ sp > 0
    /\ stack' = [stack EXCEPT ![sp] = <<>>]
    /\ locals' = [locals EXCEPT ![sp] = NoCells]
    /\ sp' = sp - 1
    /\ ip' = return_addresses[sp - 1] + 1
    /\ UNCHANGED <<prog, return_addresses, globals, global_size, local_size, outcome>>
-----------------------------------------------------------------------------
(* Globals and locals.                                                       *)

Store ==
    /\ Executing("STORE")
    /\ cinstr.arg \in 0..Grown(global_size, cinstr.arg) - 1
    /\ global_size' = Grown(global_size, cinstr.arg)
    /\ globals' = WithCell(globals, cinstr.arg, top)
    /\ Continue(Popped(1))
    /\ UNCHANGED <<locals, local_size, outcome>>

Load ==
    /\ Executing("LOAD")
    /\ cinstr.arg \in 0..global_size - 1
    /\ Continue(Append(frame, Cell(globals, cinstr.arg)))
    /\ UNCHANGED <<memory, outcome>>

StoreLocal ==
    /\ Executing("LSTORE")
    /\ cinstr.arg \in 0..Grown(local_size[sp], cinstr.arg) - 1
    /\ local_size' = [local_size EXCEPT ![sp] = Grown(@, cinstr.arg)]
    /\ locals' = [locals EXCEPT ![sp] = WithCell(@, cinstr.arg, top)]
    /\ Continue(Popped(1))
    /\ UNCHANGED <<globals, global_size, outcome>>

LoadLocal ==
    /\ Executing("LLOAD")
    /\ cinstr.arg \in 0..local_size[sp] - 1
    /\ Continue(Append(frame, Cell(locals[sp], cinstr.arg)))
    /\ UNCHANGED <<memory, outcome>>
-----------------------------------------------------------------------------
(* The C functions.                                                          *)

CallPrint ==
    /\ Calling(ss_f_print)
    /\ \E text \in Shown(top) : out' = Append(out, text)
    /\ Continue(Append(Popped(1), Bool(FALSE)))
    /\ UNCHANGED <<memory, status, exit_code>>

CallInput ==
    /\ Calling(ss_f_input)
    /\ \E line \in Text \cup {Null} : Continue(Append(frame, String(line)))
    /\ UNCHANGED <<memory, outcome>>

CallConversion ==
    /\ \/ Calling(ss_f_to_string) /\ Continue(Append(Popped(1), TextOf(top)))
       \/ /\ Calling(ss_f_to_number)
          /\ ~ (top.type = "STRING" /\ top.data = Null)
          /\ Continue(Append(Popped(1), NumberOf(top)))
    /\ UNCHANGED <<memory, outcome>>

CallTime ==
    /\ Calling(ss_f_time)
    /\ Continue(Append(frame, Unknown))
    /\ UNCHANGED <<memory, outcome>>
-----------------------------------------------------------------------------
(* The ends of a run.                                                        *)

End(s, code) ==
    /\ status' = s
    /\ exit_code' = code
    /\ UNCHANGED <<prog, stack, callframes, memory, out>>

ExitInstruction ==
    /\ Executing("EXIT")
    /\ ip' = 0
    /\ End("success", cinstr.arg)

CallExit ==
    /\ Calling(ss_f_exit)
    /\ End("exit", ExitCode(top))
    /\ UNCHANGED ip

\* print calls exit(-1) for a value of no known type.
PrintUnknownType ==
    /\ Calling(ss_f_print)
    /\ top.type = "GARBAGE"
    /\ End("exit", 255)
    /\ UNCHANGED ip

\* The loop of vm_execute ends at the end of the code: VM_EXIT_FAILURE.
EndOfCode ==
    /\ status = "running"
    /\ ip = Len(prog.code)
    /\ End("end_of_code", 1)
    /\ UNCHANGED ip

\* The default of the switch: VM_INVALID_INSTRUCTION.
InvalidInstruction ==
    /\ Fetching
    /\ cinstr.op \notin Opcodes
    /\ End("invalid_instruction", 2)
    /\ UNCHANGED ip

Fault(s) == End(s, Opaque) /\ UNCHANGED ip

WildJump ==
    /\ status = "running"
    /\ ip \notin 0..Len(prog.code)
    /\ Fault("wild_jump")

Underflow ==
    /\ Fetching
    /\ Len(frame) < Operands(cinstr)
    /\ Fault("underflow")

FrameOverflow ==
    /\ Executing("CALL") \/ Executing("LBLCALL")
    /\ sp = FrameLimit - 1
    /\ Fault("frame_overflow")

FrameUnderflow ==
    /\ Executing("RET")
    /\ sp = 0
    /\ Fault("frame_underflow")

BadAddress ==
    /\ \/ Executing("LOADPOOL") /\ cinstr.arg + 1 \notin DOMAIN prog.pool
       \/ Executing("STORE") /\ cinstr.arg \notin 0..Grown(global_size, cinstr.arg) - 1
       \/ Executing("LOAD") /\ cinstr.arg \notin 0..global_size - 1
       \/ Executing("LSTORE") /\ cinstr.arg \notin 0..Grown(local_size[sp], cinstr.arg) - 1
       \/ Executing("LLOAD") /\ cinstr.arg \notin 0..local_size[sp] - 1
       \/ Executing("CALLC") /\ cinstr.arg \notin ss_functions
    /\ Fault("bad_address")

\* A string that is read through NULL, or through bits that are no pointer.
MayBeText(v) == v.type \in {"STRING", "GARBAGE"}
BadText(v)   == v.type = "GARBAGE" \/ (v.type = "STRING" /\ v.data = Null)

BadPointer ==
    /\ \/ /\ Executing("EQ")
          /\ MayBeText(top) /\ MayBeText(top2)
          /\ BadText(top) \/ BadText(top2)
       \/ Calling(ss_f_print) /\ top.type = "GARBAGE"
       \/ Calling(ss_f_to_number) /\ BadText(top)
    /\ Fault("bad_pointer")
-----------------------------------------------------------------------------
Next ==
    \/ Nop \/ LoadConstant \/ Pop \/ Increment \/ Compare \/ Arithmetic
    \/ Jump \/ JumpIf \/ Call \/ Return
    \/ Store \/ Load \/ StoreLocal \/ LoadLocal
    \/ CallPrint \/ CallInput \/ CallConversion \/ CallTime
    \/ ExitInstruction \/ CallExit \/ PrintUnknownType
    \/ EndOfCode \/ InvalidInstruction
    \/ WildJump \/ Underflow \/ FrameOverflow \/ FrameUnderflow
    \/ BadAddress \/ BadPointer

Spec == Init /\ [][Next]_vars

\* vm_execute is one loop in one thread: while it can go on it does.
FairSpec == Spec /\ WF_vars(Next)
-----------------------------------------------------------------------------
(* Properties of every program.                                              *)

CellsOK(cells, size) == /\ DOMAIN cells \subseteq 0..size - 1
                        /\ \A id \in DOMAIN cells : cells[id] \in Value

(* The type invariant; cells are written only in memory that is allocated.   *)
TypeOK ==
    /\ prog \in Images
    /\ ip \in Int
    /\ sp \in Frames
    /\ stack \in [Frames -> Seq(Value)]
    /\ return_addresses \in [0..FrameLimit - 2 -> Int]
    /\ global_size \in Nat
    /\ CellsOK(globals, global_size)
    /\ local_size \in [Frames -> Nat]
    /\ DOMAIN locals = Frames
    /\ \A k \in Frames : CellsOK(locals[k], local_size[k])
    /\ status \in Statuses
    /\ exit_code \in Data
    /\ out \in Seq(Value)

\* The instruction a frame in use will return to, counted from 1.
CallSite(k) == return_addresses[k] + 1

(* Whatever the code and wherever it jumps, each frame below the current one *)
(* remembers a call instruction of the code, so that RET goes on after a     *)
(* call (vm.c: CALL, LBLCALL and RET).                                       *)
ReturnsAfterCall ==
    \A k \in 0..sp - 1 : /\ CallSite(k) \in DOMAIN prog.code
                         /\ prog.code[CallSite(k)].op \in {"CALL", "LBLCALL"}

(* Nothing a callee does, its return included, changes the operands or the   *)
(* locals of its callers: arguments and results cannot travel between        *)
(* frames.                                                                   *)
CallerFramesKept ==
    [][\A k \in Frames : k < sp => stack'[k] = stack[k] /\ locals'[k] = locals[k]]_vars
=============================================================================
