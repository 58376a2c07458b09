------------------------------- MODULE Assembly -------------------------------
(***************************************************************************)
(* What code is made of, for the compiler (src/compiler.c): the C functions *)
(* it knows by name, the instructions of an operator, and labels, which are *)
(* addresses in the code it hands over.                                     *)
(***************************************************************************)
EXTENDS Integers, Sequences

builtins == << "print", "input", "exit", "to_string", "to_number", "time" >>

Instruction(op, arg) == [op |-> op, arg |-> arg]

\* The operators that have a meaning, and what push_math and push_comparison write.
MeantOps == {"+", "-", "*", "/", ">", "<", "==", "!="}
Operation(op) ==
    CASE op = "+" -> <<Instruction("ADD", 0)>>
      [] op = "-" -> <<Instruction("SUB", 0)>>
      [] op = "*" -> <<Instruction("MUL", 0)>>
      [] op = "/" -> <<Instruction("DIV", 0)>>
      [] op = ">" -> <<Instruction("GT", 0)>>
      [] op = "<" -> <<Instruction("LT", 0)>>
      [] op = "==" -> <<Instruction("EQ", 0)>>
      [] op = "!=" -> <<Instruction("EQ", 0), Instruction("NOT", 0)>>
-----------------------------------------------------------------------------
(* Labels.                                                                   *)

Labelled(code, label) == {i \in DOMAIN code : code[i] = [op |-> "LBL", arg |-> label]}

\* Mutant of get_label_address: any instruction with that argument is taken.
get_label_address_any_op(code, label) ==
    LET at == {i \in DOMAIN code : code[i].arg = label}
    IN  IF at = {} THEN Len(code) ELSE (CHOOSE i \in at : \A j \in at : i <= j) - 1

\* The first LBL with that label; without one, the end of the code.
get_label_address(code, label) ==
    LET at == Labelled(code, label)
    IN  IF at = {} THEN Len(code) ELSE (CHOOSE i \in at : \A j \in at : i <= j) - 1

Plain(op) == CASE op = "LBLJMP"   -> "JUMP"
               [] op = "LBLJMPIF" -> "JUMPIF"
               [] op = "LBLCALL"  -> "CALL"

translate_labels(code) ==
    [i \in DOMAIN code |->
        CASE code[i].op \in {"LBLJMP", "LBLJMPIF", "LBLCALL"} ->
                [op |-> Plain(code[i].op), arg |-> get_label_address(code, code[i].arg)]
          [] code[i].op = "LBL" -> [code[i] EXCEPT !.op = "NOP"]
          [] OTHER -> code[i]]
=============================================================================
