--------------------------- MODULE CompilationSteps ---------------------------
(***************************************************************************)
(* The compiler step by step (Compilation) against the compiler as a        *)
(* function from a tree and a table to a table (Compiler).                  *)
(***************************************************************************)
EXTENDS Compilation

C == INSTANCE Compiler

VARIABLES
    input,      \* the last input begun
    before      \* the table that it found

stepsVars == <<compilationVars, input, before>>

Table == [code |-> maps[1].code, global_counter |-> maps[1].counter, refs |-> refs, pool |-> pool,
          functions |-> [k \in DOMAIN functions |->
                            [name |-> functions[k].name, reference |-> functions[k].reference,
                             code |-> maps[k + 1].code]],
          labels |-> labels, err |-> err, shell_env |-> shell_env]

Init_Steps == Init_Compilation /\ input = 0 /\ before = Table
Next_Steps ==
    \/ Going_on /\ UNCHANGED <<input, before>>
    \/ \E n \in Inputs : Begin_input(n) /\ input' = n /\ before' = Table

StepsSpec == Init_Steps /\ [][Next_Steps]_stepsVars
-----------------------------------------------------------------------------
(* Step by step the compiler makes what it makes as a function: the same     *)
(* code, names, strings, functions and labels, from whatever inputs before,  *)
(* with the same errors, and what is executed is that code (compile,         *)
(* execute_input, compile_and_run).                                          *)
StepsCompile ==
    stage = "idle" /\ inputs > 0 /\ input # 0 =>
        LET t == C!compile(ObjectsOf[input], [before EXCEPT !.err = input \in Refused])
        IN  /\ t.err => shell_env
            /\ Table = [t EXCEPT !.err = FALSE]
            /\ ~t.err => prog = C!ImageOf(t)
=============================================================================
