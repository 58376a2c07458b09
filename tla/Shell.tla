-------------------------------- MODULE Shell --------------------------------
(***************************************************************************)
(* The interactive shell (src/shell/shell.c): one ShellEnvironment, whose   *)
(* machine and reference table outlive the inputs.  Each input is parsed,   *)
(* compiled into the same table and executed on the same machine.           *)
(***************************************************************************)
EXTENDS Semantics, ShellMachine

CONSTANTS
    Inputs,         \* what a user may type, numbered from 1
    InputOf,        \* the statements of each
    MaxInputs,      \* inputs in one environment, at most
    LabelLimit      \* labels used up when :killenv is typed, at most

ASSUME BoundsAssumption == MaxInputs \in Nat /\ LabelLimit \in Nat

VARIABLES
    table,          \* env->reftable, with the label counter and shell_err
    entered         \* the inputs given to this environment, [input, err]

shellVars == <<table, entered, machineVars>>

Init_Shell ==
    /\ table = init_reftable(TRUE)
    /\ Init_Machine(ImageOf(table))
    /\ entered = <<>>

\* An input with an error is compiled to its end and what it declared stays in
\* the table; it is only not executed.
take_input(n, compiled) ==
    /\ mode = "prompt"
    /\ Len(entered) < MaxInputs
    /\ table' = [compiled EXCEPT !.err = FALSE]
    /\ entered' = Append(entered, [input |-> n, err |-> compiled.err])
    /\ \/ compiled.err /\ UNCHANGED machineVars
       \/ ~compiled.err /\ BeginInput(ImageOf(compiled))
execute_input(n) == take_input(n, CompileSource(InputOf[n], table))

Execute == RunInput /\ UNCHANGED <<table, entered>>

\* :killenv frees the environment and sets up another.
\* label_length is a variable of the compiler and goes on counting.
KillEnv ==
    /\ NewMachine
    /\ table.labels <= LabelLimit
    /\ table' = [init_reftable(TRUE) EXCEPT !.labels = table.labels]
    /\ entered' = <<>>

Quit == Close /\ UNCHANGED <<table, entered>>

Next_Shell == (\E n \in Inputs : execute_input(n)) \/ Execute \/ KillEnv \/ Quit

\* The loop of vm_execute goes on by itself; what is typed is up to the user.
ShellSpec == Init_Shell /\ [][Next_Shell]_shellVars /\ WF_shellVars(Execute)
-----------------------------------------------------------------------------
(* The session so far, as one source.                                        *)

Session == FlattenSeq([i \in DOMAIN entered |->
                          IF entered[i].err THEN <<>> ELSE InputOf[entered[i].input]])

RECURSIVE Branches(_)
Branches(source) ==
    \E i \in DOMAIN source : \/ source[i].type = "IFSTATEMENT"
                             \/ source[i].type = "FUNCTION" /\ Branches(source[i].scope)

\* No input with an error has left a name or a function in the table.
CleanErrors == \A i \in DOMAIN entered : entered[i].err => Declared(InputOf[entered[i].input]) = <<>>

(* Typing a program line by line prints what running it as one file means,   *)
(* whatever the lines refused in between: the table and the machine carry    *)
(* names, functions, strings and values from one input to the next, and the  *)
(* operands that an input leaves behind disturb none after it.  (Not with if *)
(* or else: see BranchTaken.)                                                *)
SessionMatches ==
    CleanErrors /\ ~Branches(Session) =>
        LET m == Meaning(Session)
        IN  m.ok => /\ IsPrefix(out, m.out)
                    /\ mode = "prompt" => out = m.out /\ m.end = "running"
                    /\ status = "exit" => out = m.out /\ m.end = "exit" /\ exit_code = m.code
                    /\ status \notin Faults

(* Every input whose code is executed has code the machine can be trusted    *)
(* with, the functions of earlier inputs that are linked into it again       *)
(* included, when all inputs are well formed.                                *)
SessionCodeVerifies ==
    CleanErrors /\ mode = "executing" /\ WellFormed(Session) =>
        JumpsForward(prog.code) /\ Verified(prog, MinDepth(prog.code))

(* Each input is executed to an end: back to the prompt, or the end of the   *)
(* process.                                                                  *)
InputEnds == mode = "executing" ~> mode # "executing"
-----------------------------------------------------------------------------
(* What the repository says of the shell.                                    *)

(* "A shell environment stores data such as previous variable/function       *)
(* references.  These references should be available on the virtual          *)
(* machine's memory" (include/shell/shell.h:9-12).                           *)
ReferencesAvailable ==
    mode = "prompt" => \A i \in DOMAIN table.refs : table.refs[i].ref \in DOMAIN globals

(* tests/language/conditional2.ssc:2-3, typed as one line, prints what its   *)
(* comment expects: an if prints its own branch.                             *)
BranchTaken ==
    LET m == Meaning(Session)
    IN  CleanErrors /\ m.ok /\ mode = "prompt" => out = m.out
=============================================================================
