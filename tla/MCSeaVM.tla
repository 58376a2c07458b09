------------------------------- MODULE MCSeaVM -------------------------------
(* Every program of four instructions over an alphabet that exercises the    *)
(* stack, the frames and the jumps, and longer programs for the rest.        *)
EXTENDS SeaVMCalls

CONSTANT hello      \* a string

Op(op, arg) == [op |-> op, arg |-> arg]
Image(code) == [code |-> code, pool |-> <<hello>>]

\* Every program starts with two operands on the main stack.  Targets are chosen
\* so that no loop pushes: the only backward jump is to itself.
Prologue == << Op("LOADBOOL", 1), Op("LOADBOOL", 1) >>
Alphabet == { Op("LOADBOOL", 1), Op("ADD", 0), Op("NOT", 0), Op("POP", 0),
              Op("JUMPIF", 5), Op("CALL", 4), Op("RET", 0), Op("EXIT", 7) }

ShortPrograms == {Image(Prologue \o code) : code \in [1..4 -> Alphabet]}

Numbers == << Op("LOADC", 2), Op("INC", 0), Op("LSTORE", 1), Op("LLOAD", 1),
              Op("LOADC", 4), Op("LT", 0), Op("POP", 0), Op("GT", 0), Op("POP", 0),
              Op("DIV", 0), Op("DEC", 0), Op("STORE", 2), Op("LOAD", 2),
              Op("CALLC", ss_f_exit) >>

Strings == << Op("CALLC", ss_f_input), Op("LOADPOOL", 0), Op("EQ", 0),
              Op("CALLC", ss_f_print), Op("POP", 0), Op("CALLC", ss_f_to_number),
              Op("CALLC", ss_f_to_string), Op("EQ", 0), Op("CALLC", ss_f_time),
              Op("SUB", 0), Op("CALLC", ss_f_print), Op("EXIT", 0) >>

Labels == << Op("LBLCALL", 1), Op("LOADBOOL", 0), Op("LBLJMPIF", 2), Op("NOT", 0),
             Op("LBLJMPIF", 2), Op("NOP", 0), Op("LBL", 2), Op("LBLJMP", 3),
             Op("LBL", 1), Op("LOADC", 3), Op("LSTORE", 0), Op("RET", 0) >>

Unwritten == << Op("LOAD", 1), Op("LLOAD", 0), Op("EQ", 0), Op("NOT", 0), Op("POP", 0),
                Op("CALLC", ss_f_print), Op("DEC", 0), Op("CALLC", ss_f_to_number),
                Op("CALLC", ss_f_exit) >>

PrintsGarbage == << Op("LOAD", 0), Op("CALLC", ss_f_print), Op("CALLC", ss_f_exit) >>

\* One instruction each, in a frame that has one operand.
Beyond == {Image(<<Op("LOADC", 1), instr>>) :
             instr \in { Op("STORE", 4), Op("LOAD", 2), Op("LSTORE", 4), Op("LLOAD", 2),
                         Op("LOADPOOL", 1), Op("CALLC", 6), Op("JUMP", 9),
                         Op("HALT", 0), Op("STORE", 3), Op("LSTORE", 3) }}

MCImages == ShortPrograms \cup Beyond
            \cup {Image(code) : code \in {Numbers, Strings, Labels, Unwritten, PrintsGarbage}}
=============================================================================
