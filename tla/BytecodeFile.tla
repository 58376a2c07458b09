----------------------------- MODULE BytecodeFile -----------------------------
(***************************************************************************)
(* The bytecode file: save_to_file and read_from_file of                    *)
(* src/seavm/bytecode.c, and execute_bytecode, which runs on the SeaVM what *)
(* was loaded.  One action is one turn of a loop of the two.  The image     *)
(* that is saved is any of Images; Bytecode takes it from the compiler.     *)
(*                                                                         *)
(* append_string leaves one byte of each string unwritten.  That byte is    *)
(* any of Leftovers: what malloc'd memory happens to hold.                  *)
(***************************************************************************)
EXTENDS SeaVM, SequencesExt

CONSTANTS
    Bytes,          \* the characters of each text
    Leftovers,      \* bytes that memory nobody wrote may hold
    StringSize,     \* what read_from_file allocates for a string: 100
    Readers         \* versions of seascript that may open the file

\* opcodes.h: the code of an instruction is its place in this list, from 0.
opcodes == << "NOP", "EXIT", "LOADBOOL", "LOADC", "LOADPOOL", "POP", "INC", "DEC", "EQ", "LT",
              "GT", "JUMP", "JUMPIF", "NOT", "ADD", "SUB", "MUL", "DIV", "CALL", "RET", "CALLC",
              "STORE", "LOAD", "LBL", "LBLJMP", "LBLJMPIF", "LBLCALL", "LSTORE", "LLOAD" >>
OpcodeOf == [op \in Opcodes |-> CHOOSE n \in 0..Len(opcodes) - 1 : opcodes[n + 1] = op]

\* Mutant of bytes_to_read: no reader for the argument of JUMPIF.
bytes_to_read_no_jumpif == [op \in Opcodes |->
    CASE op = "LOADBOOL" -> 1
      [] op = "LOADC" -> 8
      [] op \in { "EXIT", "LOADPOOL", "JUMP", "CALL", "CALLC", "STORE", "LOAD", "LBL",
                  "LBLJMP", "LBLJMPIF", "LBLCALL", "LSTORE", "LLOAD" } -> 4
      [] OTHER -> 0]

\* reader_map: how many bytes of the argument are kept.
bytes_to_read == [op \in Opcodes |->
    CASE op = "LOADBOOL" -> 1
      [] op = "LOADC" -> 8
      [] op \in { "EXIT", "LOADPOOL", "JUMP", "JUMPIF", "CALL", "CALLC", "STORE", "LOAD", "LBL",
                  "LBLJMP", "LBLJMPIF", "LBLCALL", "LSTORE", "LLOAD" } -> 4
      [] OTHER -> 0]

\* Arguments fit in the bytes kept for them; those of eight bytes are tracked
\* as far as four bytes go.
MaxArgument == 2147483647
Fits(i) == /\ i.op \in Opcodes
           /\ bytes_to_read[i.op] = 1 => i.arg \in 0..255
           /\ bytes_to_read[i.op] > 1 => i.arg \in 0..MaxArgument

ASSUME LeftoversAssumption == Leftovers \subseteq 0..255 /\ Leftovers # {}
ASSUME StringSizeAssumption == StringSize \in Nat \ {0}
ASSUME BytesAssumption ==
    \A text \in DOMAIN Bytes : /\ Bytes[text] \in Seq(1..255)
                               /\ \A t \in DOMAIN Bytes : Bytes[t] = Bytes[text] => t = text
ASSUME SavedAssumption ==
    \A i \in Images : /\ \A k \in DOMAIN i.code : Fits(i.code[k])
                      /\ \A k \in DOMAIN i.pool : i.pool[k] \in DOMAIN Bytes

VARIABLES
    image,          \* the instructions and the pool handed to save_to_file
    phase,          \* saving, pooling, saved, reading, strings, executing or an end
    at,             \* the next instruction or string to be saved
    bytes,          \* bytecode[instr_addr] and on, as far as the cursor
    terminated,     \* the byte at the cursor is the '\0' of append_string
    pool_addr,      \* where the strings begin, 0 for none
    cursor,         \* of read_from_file
    holder,         \* the instructions read
    strings,        \* the texts read
    dirty           \* history: a byte left unwritten was not zero

saver  == <<image, bytes, at, terminated, pool_addr, dirty>>
loader == <<cursor, holder, strings>>
fileVars == <<phase, saver, loader, vars>>
-----------------------------------------------------------------------------
(* The format.                                                               *)

VERSION == "1.0.0"
instr_addr == 42

\* The lowest n bytes of an argument, and the argument with these bytes.
Place == <<1, 256, 65536, 16777216>>
ByteOf(arg, k) == IF k > 4 THEN 0 ELSE (arg \div Place[k]) % 256
write_bytes(arg, n) == [k \in 1..n |-> ByteOf(arg, k)]
Argument(s) ==
    CASE Len(s) = 0 -> 0
      [] Len(s) = 1 -> s[1]
      [] OTHER -> s[1] + 256 * s[2] + 65536 * s[3] + 16777216 * s[4]

\* Mutant of Encoded: the argument is cut to one byte where four are read.
EncodedShort(i) == <<OpcodeOf[i.op]>> \o write_bytes(i.arg, IF bytes_to_read[i.op] = 4 THEN 1
                                                            ELSE bytes_to_read[i.op])
Encoded(i) == <<OpcodeOf[i.op]>> \o write_bytes(i.arg, bytes_to_read[i.op])

Code == image.code
Pool == image.pool

\* Where save_to_file writes next, and, in the end, the length of the file.
write_cursor == instr_addr + Len(bytes)
-----------------------------------------------------------------------------
Nothing == [code |-> <<>>, pool |-> <<>>]

Init_File(start) ==
    /\ phase = start
    /\ at = 1
    /\ bytes = <<>>
    /\ terminated = FALSE
    /\ pool_addr = 0
    /\ cursor = 0
    /\ holder = <<>>
    /\ strings = <<>>
    /\ dirty = FALSE
    /\ prog = Nothing
    /\ ip = 0
    /\ vm_init
    /\ status = "loading"
    /\ exit_code = 0
    /\ out = <<>>

SaveInstruction ==
    /\ phase = "saving"
    /\ at <= Len(Code)
    /\ bytes' = bytes \o Encoded(Code[at])
    /\ at' = at + 1
    /\ UNCHANGED <<phase, image, terminated, pool_addr, dirty, loader, vars>>

BeginPool ==
    /\ phase = "saving"
    /\ at > Len(Code)
    /\ phase' = "pooling"
    /\ at' = 1
    /\ pool_addr' = IF Pool = <<>> THEN 0 ELSE write_cursor
    /\ UNCHANGED <<image, bytes, terminated, dirty, loader, vars>>

\* append_string: the text, a byte passed over, and '\0' where the cursor stops.
\* The next string is written over it, or, when it is empty, passes over it.
append_string ==
    /\ phase = "pooling"
    /\ at <= Len(Pool)
    /\ \E skipped \in IF terminated /\ Bytes[Pool[at]] = <<>> THEN {0} ELSE Leftovers :
          /\ bytes' = bytes \o Bytes[Pool[at]] \o <<skipped>>
          /\ dirty' = (dirty \/ skipped # 0)
    /\ terminated' = TRUE
    /\ at' = at + 1
    /\ UNCHANGED <<phase, image, pool_addr, loader, vars>>

\* The header and the bytes as far as the cursor are the file.
CloseFile ==
    /\ phase = "pooling"
    /\ at > Len(Pool)
    /\ phase' = "saved"
    /\ UNCHANGED <<saver, loader, vars>>
-----------------------------------------------------------------------------
(* read_from_file, in a process of its own.                                  *)

byte_size == instr_addr + Len(bytes)
ByteAt(address) == bytes[address - instr_addr + 1]

OpenFile(version) ==
    /\ phase = "saved"
    /\ IF version = VERSION
       THEN phase' = "reading" /\ cursor' = instr_addr
       ELSE phase' = "halted" /\ UNCHANGED cursor
    /\ UNCHANGED <<saver, holder, strings, vars>>

\* Mutant of AtPool: one byte late.
AtPoolLate == cursor > pool_addr /\ pool_addr # 0
AtPool == cursor >= pool_addr /\ pool_addr # 0

\* Mutant of Decoded: the argument is read from where the opcode is.
DecodedAtOpcode(op, first) ==
    [op |-> op,
     arg |-> Argument([k \in 1..bytes_to_read[op] |-> ByteAt(first + k - 2)])]
Decoded(op, first) ==
    [op |-> op,
     arg |-> Argument([k \in 1..bytes_to_read[op] |-> ByteAt(first + k - 1)])]

\* An opcode without a reader, and an argument beyond the file, are what
\* read_from_file does not look for.
ReadInstruction ==
    /\ phase = "reading"
    /\ cursor # byte_size
    /\ ~AtPool
    /\ IF ByteAt(cursor) >= Len(opcodes)
          \/ cursor + bytes_to_read[opcodes[ByteAt(cursor) + 1]] >= byte_size
       THEN phase' = "past_end" /\ UNCHANGED <<holder, cursor>>
       ELSE LET op == opcodes[ByteAt(cursor) + 1]
            IN  /\ holder' = Append(holder, Decoded(op, cursor + 1))
                /\ cursor' = cursor + 1 + bytes_to_read[op]
                /\ UNCHANGED phase
    /\ UNCHANGED <<saver, strings, vars>>

ReadPool ==
    /\ phase = "reading"
    /\ cursor = byte_size \/ AtPool
    /\ phase' = "strings"
    /\ cursor' = IF pool_addr = 0 THEN byte_size ELSE pool_addr
    /\ UNCHANGED <<saver, holder, strings, vars>>

\* The text whose characters these are; strings that ran together are none.
TextWith(s) == IF \E text \in DOMAIN Bytes : Bytes[text] = s
               THEN CHOOSE text \in DOMAIN Bytes : Bytes[text] = s ELSE Opaque

\* The buffer for a string doubles: so many bytes fill it to the last.
FillsBuffer(n) == \E k \in 0..n : StringSize * 2^k = n

\* A string goes on to a zero byte, wherever that is.
Zeros(from) == {address \in from..byte_size - 1 : ByteAt(address) = 0}
StringEnd(from) == CHOOSE z \in Zeros(from) : \A address \in Zeros(from) : z <= address

\* A second '\0' is written after the first, without a look at the room left.
ReadString ==
    /\ phase = "strings"
    /\ cursor # byte_size
    /\ IF Zeros(cursor) = {}
       THEN phase' = "past_end" /\ UNCHANGED <<strings, cursor>>
       ELSE LET length == StringEnd(cursor) - cursor
            IN  IF FillsBuffer(length + 1)
                THEN phase' = "past_string" /\ UNCHANGED <<strings, cursor>>
                ELSE /\ strings' = Append(strings,
                                          TextWith([k \in 1..length |-> ByteAt(cursor + k - 1)]))
                     /\ cursor' = cursor + length + 1
                     /\ UNCHANGED phase
    /\ UNCHANGED <<saver, holder, vars>>

\* vm_execute on what was loaded.
BeginExecution ==
    /\ phase = "strings"
    /\ cursor = byte_size
    /\ phase' = "executing"
    /\ prog' = [code |-> holder, pool |-> strings]
    /\ status' = "running"
    /\ UNCHANGED <<saver, loader, ip, stack, callframes, memory, exit_code, out>>

Execute ==
    /\ phase = "executing"
    /\ Next
    /\ UNCHANGED <<phase, saver, loader>>

Next_File ==
    \/ SaveInstruction \/ BeginPool \/ append_string \/ CloseFile
    \/ \E version \in Readers : OpenFile(version)
    \/ ReadInstruction \/ ReadPool \/ ReadString \/ BeginExecution \/ Execute

FileSpec == image \in Images /\ Init_File("saving") /\ [][Next_File]_fileVars
-----------------------------------------------------------------------------
(* The argument of an instruction that has no bytes for one is not saved.    *)
Kept(code) == [i \in DOMAIN code |->
                  IF bytes_to_read[code[i].op] = 0 THEN [code[i] EXCEPT !.arg = 0] ELSE code[i]]

(* The two loops agree on the layout: the instructions are read back one by  *)
(* one and all of them, and no string is taken for one, whatever the bytes   *)
(* left unwritten (bytecode.c: save_to_file, read_from_file).                *)
InstructionsKept ==
    /\ IsPrefix(holder, Kept(Code))
    /\ phase \in {"strings", "executing"} => holder = Kept(Code)
    /\ phase = "past_end" => holder = Kept(Code)

\* The bytes that reading would count for a string, its '\0' included, do not
\* fill the buffer to the last byte.
Avoids(texts) == \A i \in DOMAIN texts : ~FillsBuffer(Len(Bytes[texts[i]]) + 1)

(* The pool is read back when the bytes left unwritten happen to be zero,    *)
(* empty strings included, and no string fills its buffer exactly.  (When    *)
(* they are not, strings run together, or past the end of the file: the run  *)
(* saved reaches both.)                                                      *)
PoolKept ==
    ~dirty /\ Avoids(Pool) =>
        /\ IsPrefix(strings, Pool)
        /\ phase = "executing" => strings = Pool
        /\ phase \notin {"past_end", "past_string"}

(* execute_bytecode hands to vm_execute, which checks nothing, what was in a  *)
(* file, and read_from_file checks nothing either: still the instructions    *)
(* that were saved find their operands, cells, strings and targets when they *)
(* are loaded, unless bytes left unwritten ran strings together.             *)
LoadedIsSafe ==
    ~dirty /\ Avoids(Pool) /\ phase = "executing" =>
        status \in {"running", "success", "exit", "frame_overflow", "bad_pointer"}

\* The machine that executes the saved image itself; it waits at its start for
\* the loaded one to begin.
Saved == INSTANCE SeaVM WITH
    prog   <- image,
    status <- IF phase = "executing" THEN status ELSE "running"

(* Whatever was saved, the machine that loaded it implements the machine     *)
(* that executes it without a file, step by step: the same calls, cells,     *)
(* operands, output and end, although the file drops what it has no bytes    *)
(* for (reader_map, execute_bytecode).                                       *)
LoadedRunsAsSaved ==
    Saved!Init /\ [][~dirty /\ Avoids(Pool) => Saved!Next]_(Saved!vars)
=============================================================================
