----------------------------- MODULE ShellMachine -----------------------------
(***************************************************************************)
(* The machine of a ShellEnvironment (src/shell/shell.c): vm_execute runs   *)
(* the code of one input after the other on it, and clears nothing in       *)
(* between.  The code is any of Images here; Shell takes it from the        *)
(* compiler and the reference table.                                        *)
(***************************************************************************)
EXTENDS SeaVM

VARIABLE mode       \* at the prompt, executing, or closed

machineVars == <<mode, vars>>

Init_Machine(image) ==
    /\ vm_init
    /\ prog = image
    /\ ip = 0
    /\ status = "success"
    /\ exit_code = 0
    /\ out = <<>>
    /\ mode = "prompt"

\* vm_execute sets ip, and finds the rest of the machine as the last input left it.
BeginInput(image) ==
    /\ mode = "prompt"
    /\ prog' = image
    /\ ip' = 0
    /\ status' = "running"
    /\ mode' = "executing"
    /\ UNCHANGED <<stack, callframes, memory, exit_code, out>>

\* exit() in the input, and a fault, end the shell's own process.
RunInput ==
    /\ mode = "executing"
    /\ Next
    /\ mode' = CASE status' = "running" -> "executing"
                 [] status' \in {"success", "end_of_code", "invalid_instruction"} -> "prompt"
                 [] OTHER -> "closed"

\* :killenv frees the machine; another is set up as vm_init does.
NewMachine ==
    /\ mode = "prompt"
    /\ sp' = 0
    /\ stack' = [k \in Frames |-> <<>>]
    /\ return_addresses' = [k \in 0..FrameLimit - 2 |-> 0]
    /\ globals' = NoCells
    /\ global_size' = CellLimit
    /\ locals' = [k \in Frames |-> NoCells]
    /\ local_size' = [k \in Frames |-> CellLimit]
    /\ out' = <<>>               \* what this environment printed
    /\ UNCHANGED <<prog, ip, status, exit_code, mode>>

Close ==
    /\ mode = "prompt"
    /\ mode' = "closed"
    /\ UNCHANGED vars

Next_Machine == (\E image \in Images : BeginInput(image)) \/ RunInput \/ NewMachine \/ Close

MachineSpec ==
    Init_Machine([code |-> <<>>, pool |-> <<>>]) /\ [][Next_Machine]_machineVars
-----------------------------------------------------------------------------
(* At the prompt every call made by the inputs has returned, so that the next*)
(* one starts in the main frame, and no frame above holds operands or locals.*)
PromptAtTop ==
    mode = "prompt" => /\ sp = 0
                       /\ \A k \in 1..FrameLimit - 1 : stack[k] = <<>> /\ locals[k] = NoCells
=============================================================================
