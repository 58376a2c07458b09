------------------------------ MODULE Verifier ------------------------------
(***************************************************************************)
(* The code the VM can be trusted with.  vm_execute checks nothing: not the *)
(* operands on the stack, not a jump's target, not a cell's index.  What    *)
(* makes a run safe is the shape of the code, and the compiler is the only  *)
(* place that could see to it.  Verified(image, depth) states the shape by  *)
(* a condition on each instruction and its successors, as a bytecode        *)
(* verifier would.  The layout it asks for is the one compile               *)
(* (src/compiler.c) produces: the main program, EXIT, then the functions,   *)
(* each ended by RET.                                                       *)
(***************************************************************************)
EXTENDS SeaVM

LOCAL INSTANCE SequencesExt

\* Positions count from 1: the instruction at position i has address i - 1.
InMain(code, i) == \A j \in 1..i - 1 : code[j].op # "EXIT"

\* Operands added by an instruction (taken away when negative).
Growth(i) ==
    CASE i.op \in {"LOADBOOL", "LOADC", "LOADPOOL", "LOAD", "EQ", "LT", "GT", "NOT"} -> 1
      [] i.op = "CALLC" /\ i.arg \in {ss_f_input, ss_f_time} -> 1
      [] i.op \in {"POP", "STORE", "ADD", "SUB", "MUL", "DIV"} -> -1
      [] OTHER -> 0

\* Where the frame goes on after position i, calls being stepped over.
Successors(code, i) ==
    CASE code[i].op \in {"EXIT", "RET"} -> {}
      [] code[i].op = "CALLC" /\ code[i].arg = ss_f_exit -> {}
      [] code[i].op = "JUMP"   -> {code[i].arg + 1}
      [] code[i].op = "JUMPIF" -> {code[i].arg + 1, i + 1}
      [] OTHER -> {i + 1}

\* The instructions that compile leaves in its output.
CompiledOps == Opcodes \ {"LBL", "LBLJMP", "LBLJMPIF", "LBLCALL", "LSTORE", "LLOAD"}

ArgumentOK(image, depth, i) ==
    LET instr == image.code[i]
    IN  CASE instr.op = "CALL" ->
                /\ instr.arg + 1 \in DOMAIN image.code
                /\ ~InMain(image.code, instr.arg + 1)
                /\ depth[instr.arg + 1] = 0
          [] instr.op = "RET" -> ~InMain(image.code, i)
          [] instr.op = "EXIT" -> InMain(image.code, i)
          [] instr.op = "LOADPOOL" -> instr.arg + 1 \in DOMAIN image.pool
          [] instr.op \in {"STORE", "LOAD"} -> instr.arg \in 0..CellLimit - 1
          [] instr.op = "CALLC" -> instr.arg \in ss_functions
          [] OTHER -> instr.op \in CompiledOps

Verified(image, depth) ==
    LET code == image.code
    IN  /\ code # <<>>
        /\ depth \in [DOMAIN code -> Nat]
        /\ depth[1] = 0
        /\ \A i \in DOMAIN code :
              /\ Operands(code[i]) <= depth[i]
              /\ ArgumentOK(image, depth, i)
              /\ \A j \in Successors(code, i) :
                    /\ j \in DOMAIN code
                    /\ InMain(code, j) <=> InMain(code, i)
                    /\ depth[j] <= depth[i] + Growth(code[i])

\* The depths a verifier computes for code that jumps forward only: the least
\* over the ways to get to a position, none at the start of a function.
MinDepth(code) ==
    LET called == {code[j].arg + 1 : j \in {i \in DOMAIN code : code[i].op = "CALL"}}
        next == [j \in DOMAIN code |-> Successors(code, j)]
        Least(arrived) == IF arrived = {} THEN 0 ELSE Min(arrived)
        At(depth, i) == IF i \in called THEN 0
                        ELSE Least({depth[j] + Growth(code[j]) : j \in {k \in 1..i - 1 : i \in next[k]}})
    IN  FoldLeftDomain(LAMBDA depth, i : Append(depth, At(depth, i)), <<>>, code)

\* The language has no loop that compiles: if only jumps forward.
JumpsForward(code) ==
    \A i \in DOMAIN code : code[i].op \in {"JUMP", "JUMPIF"} => code[i].arg + 1 > i
-----------------------------------------------------------------------------
(* Getting on in such code.                                                  *)

\* Where frame k is: at the call it has made, and the current one at ip.
PlaceOf(k) == IF k < sp THEN return_addresses[k] ELSE ip

\* A step at frame k: the callers stay where they are, and k gets on.
AdvanceAt(k) ==
    /\ \A j \in 0..k - 1 : PlaceOf(j)' = PlaceOf(j)
    /\ \/ k <= sp' /\ PlaceOf(k)' > PlaceOf(k)
       \/ k = sp /\ sp' = sp + 1 /\ PlaceOf(k)' = PlaceOf(k)
=============================================================================
