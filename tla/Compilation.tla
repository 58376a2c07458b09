----------------------------- MODULE Compilation -----------------------------
(***************************************************************************)
(* The compiler of src/compiler.c step by step, for any sources, and the    *)
(* machine that executes what it makes of them, for a file or in the shell. *)
(*                                                                         *)
(* The C functions call each other down the tree of the parser.  What they  *)
(* have still to do is a list of tasks here; a step takes the first one and *)
(* puts those it consists of in its place.  A task is a record:             *)
(*   do     what it is                                                      *)
(*   in     the map it writes to, reftable->map: 1 the program's, k + 1     *)
(*          that of the k-th function                                       *)
(*   base   operands that are on the frame's stack when its code begins     *)
(*   what   the piece of source, or the instruction, it is about            *)
(*                                                                         *)
(* base, depth, sound, owner and trusted are not in the code: they record   *)
(* what the source lets one count on, and decide about no step.             *)
(***************************************************************************)
EXTENDS ShellMachine, Verifier, Assembly

CONSTANTS
    Terms,          \* operands, operators and calls in the sources
    Statements,     \* statements in the sources
    Inputs,         \* the sources: inputs of a shell, or files
    ObjectsOf,      \* what the parser makes of each of them
    Refused,        \* those in which it finds an error
    MaxInputs,      \* inputs of a shell, at most
    LabelLimit      \* labels used up when :killenv is typed, at most

Expressions == Seq(Terms)
Scopes == Seq(Statements)
Clauses == [condition : Expressions, scope : {<<>>} \cup [1..1 -> Scopes]]

\* Every part of a term or a statement is among the terms and the statements.
ASSUME TermsAssumption ==
    \A t \in Terms :
        /\ t.type \in {"NUMBER", "STRING", "IDENTIFIER", "OPERATOR", "FUNCTIONCALL"}
        /\ t.type = "NUMBER" => t.value \in Int
        /\ t.type = "STRING" => t.value \in Int \cup Text
        /\ t.type = "OPERATOR" => t.value \in MeantOps
        /\ t.type = "FUNCTIONCALL" => t.name \in STRING /\ t.args \in Seq(Expressions)
ASSUME StatementsAssumption ==
    \A s \in Statements :
        /\ s.type \in {"VARIABLE", "REASSIGN", "FUNCTIONCALL", "RETURN", "FUNCTION", "IFSTATEMENT"}
        /\ s.type \in {"VARIABLE", "REASSIGN", "RETURN"} => s.states \in Expressions
        /\ s.type \in {"VARIABLE", "FUNCTION", "FUNCTIONCALL"} => s.name \in STRING
        /\ s.type = "FUNCTIONCALL" => s.args \in Seq(Expressions)
        /\ s.type = "FUNCTION" => s.scope \in Scopes
        /\ s.type = "IFSTATEMENT" => s.clauses \in Seq(Clauses) /\ s.clauses # <<>>
ASSUME InputsAssumption == \A n \in Inputs : ObjectsOf[n] \in Scopes
ASSUME CompilationBounds == MaxInputs \in Nat /\ LabelLimit \in Nat

VARIABLES
    shell_env,      \* compiling for the shell
    maps,           \* instruction maps: code, counter (global_counter); depth, sound
    functions,      \* the table's functions, [name, reference]
    refs,           \* its variable references, [name, ref]
    pool,           \* its string pool
    labels,         \* label_length
    err,            \* shell_err
    todo,           \* the tasks left of compile_objects
    stage,          \* idle, compiling, or linking the functions
    linked,         \* functions linked behind the program
    inputs,         \* inputs begun in this environment
    owner,          \* of each label, the map it is put in; 0: at the head of a function
    trusted         \* all code executed so far was sound

table == <<functions, refs, pool>>
counters == <<labels, owner>>
session == <<shell_env, stage, linked, inputs, trusted>>
compilationVars == <<maps, table, counters, err, todo, session, machineVars>>

\* depth: of each instruction, the base it was written at.  sound: nothing in
\* the map lacks a value or was left out for an error.
new_map == [code |-> <<>>, counter |-> 0, depth |-> <<>>, sound |-> TRUE]

Init_Compilation ==
    /\ shell_env \in BOOLEAN
    /\ maps = <<new_map>>
    /\ functions = <<>> /\ refs = <<>> /\ pool = <<>>
    /\ labels = 0 /\ owner = <<>>
    /\ err = FALSE
    /\ todo = <<>> /\ stage = "idle" /\ linked = 0
    /\ inputs = 0
    /\ trusted = TRUE
    /\ Init_Machine([code |-> <<>>, pool |-> <<>>])
-----------------------------------------------------------------------------
(* Tasks.                                                                    *)

Task(do, m, base, what) == [do |-> do, in |-> m, base |-> base, what |-> what]
task == Head(todo)
Doing(do) == mode = "prompt" /\ stage = "compiling" /\ todo # <<>> /\ task.do = do

\* The task is done, or has these left.
Then(tasks) == todo' = tasks \o Tail(todo)

Longer(map, instr, base) == [map EXCEPT !.code = Append(@, instr), !.depth = Append(@, base)]
Emptied(map) == [map EXCEPT !.code = <<>>, !.depth = <<>>]

\* append_instruction to the task's map.
Append_instruction(instr) ==
    /\ maps' = [maps EXCEPT ![task.in] = Longer(@, instr, task.base)]
    /\ Then(<<>>)

\* The task's parts; when not all is well with it, the map is not sound.
Parts(tasks, well) ==
    /\ maps' = [maps EXCEPT ![task.in].sound = @ /\ well]
    /\ Then(tasks)

NoNames == UNCHANGED <<table, counters, err, machineVars>>

\* Outside of the shell the process ends.
ss_throw ==
    \/ /\ shell_env
       /\ err' = TRUE
       /\ Parts(<<>>, FALSE)
       /\ UNCHANGED <<table, counters, machineVars>>
    \/ /\ ~shell_env
       /\ mode' = "closed" /\ status' = "exit" /\ exit_code' = 1
       /\ UNCHANGED <<maps, table, counters, err, todo, prog, ip, stack, callframes, memory, out>>

\* The first entry of a list that fits, if any does.
First(i, fitting) == i \in fitting /\ \A j \in fitting : i <= j
Named(list, name) == {i \in DOMAIN list : list[i].name = name}
-----------------------------------------------------------------------------
(* Expressions.  Each leaves one operand more than there was, if it is sound.*)

\* Mutant of Emission: a condition jumps to the label that was taken before its own.
Emission_label_before(m, base, op, arg) ==
    Task("emit", m, base, Instruction(op, IF op = "LBLJMPIF" THEN arg - 1 ELSE arg))

Emission(m, base, op, arg) == Task("emit", m, base, Instruction(op, arg))
ValueOf(e, m, base) == Task("value", m, base, e)

Emit ==
    /\ Doing("emit")
    /\ Append_instruction(task.what)
    /\ NoNames

push_expression ==
    /\ Doing("value")
    /\ LET e == task.what
           m == task.in
           b == task.base
           TermAt(i, base) == Task("term", m, base, e[i])
       IN  \/ Len(e) = 1 /\ Parts(<<TermAt(1, b)>>, TRUE)
           \/ /\ Len(e) = 3 /\ e[2].type = "OPERATOR"
              /\ LET code == Operation(e[2].value)
                 IN  Parts(<<TermAt(1, b), TermAt(3, b + 1)>>
                              \o [i \in DOMAIN code |-> Task("emit", m, b + 2, code[i])], TRUE)
           \* A longer expression is silently none.
           \/ Len(e) # 1 /\ ~(Len(e) = 3 /\ e[2].type = "OPERATOR") /\ Parts(<<>>, FALSE)
    /\ NoNames

Pushing(type) == Doing("term") /\ task.what.type = type

push_number ==
    /\ Pushing("NUMBER")
    /\ Append_instruction(Instruction("LOADC", task.what.value))
    /\ NoNames

push_string ==
    /\ Pushing("STRING")
    /\ LET text == task.what.value
       IN  \/ /\ \E i \in DOMAIN pool : /\ First(i, {j \in DOMAIN pool : pool[j] = text})
                                        /\ Append_instruction(Instruction("LOADPOOL", i - 1))
              /\ UNCHANGED pool
           \/ /\ \A i \in DOMAIN pool : pool[i] # text
              /\ Append_instruction(Instruction("LOADPOOL", Len(pool)))
              /\ pool' = Append(pool, text)
    /\ UNCHANGED <<functions, refs, counters, err, machineVars>>

push_identifier ==
    /\ Pushing("IDENTIFIER")
    /\ LET name == task.what.value
       IN  \/ name = "true" /\ Append_instruction(Instruction("LOADBOOL", 1)) /\ NoNames
           \/ /\ name \in {"false", "_env"}             \* _env: debug_env
              /\ Append_instruction(Instruction("LOADBOOL", 0))
              /\ NoNames
           \/ /\ name \notin {"true", "false", "_env"}
              /\ \E i \in DOMAIN refs : /\ First(i, Named(refs, name))
                                        /\ Append_instruction(Instruction("LOAD", refs[i].ref))
              /\ NoNames
           \/ /\ name \notin {"true", "false", "_env"}
              /\ Named(refs, name) = {}
              /\ ss_throw

\* push_singular_state has no case for an operator.
push_no_operand == Pushing("OPERATOR") /\ ss_throw

IsBuiltin(name) == \E i \in DOMAIN builtins : builtins[i] = name
Arity(name) == IF name \in {"input", "time"} THEN 0 ELSE 1

\* A call without arguments has one, with no terms, that nothing is pushed for.
Given(call) == IF call.args = << <<>> >> THEN 0 ELSE Len(call.args)

\* The last argument is pushed first.
CallTasks(call, m, base) ==
    LET n == Given(call)
    IN  [i \in 1..n |-> ValueOf(call.args[n + 1 - i], m, base + i - 1)]
           \o <<Task("call", m, base + n, call.name)>>

\* A call has a value when it is a builtin's, with the arguments that it reads.
push_function_call ==
    /\ Pushing("FUNCTIONCALL")
    /\ LET call == task.what
       IN  Parts(CallTasks(call, task.in, task.base),
                 IsBuiltin(call.name) /\ Given(call) = Arity(call.name))
    /\ NoNames

push_call ==
    /\ Doing("call")
    /\ LET name == task.what
       IN  \/ \E i \in DOMAIN builtins : /\ builtins[i] = name
                                         /\ Append_instruction(Instruction("CALLC", i - 1))
                                         /\ NoNames
           \/ /\ ~IsBuiltin(name)
              /\ \E i \in DOMAIN functions :
                    /\ First(i, Named(functions, name))
                    /\ Append_instruction(Instruction("LBLCALL", functions[i].reference))
              /\ NoNames
           \/ ~IsBuiltin(name) /\ Named(functions, name) = {} /\ ss_throw
-----------------------------------------------------------------------------
(* Statements.  Each starts without an operand to count on.                  *)

compile_statement ==
    /\ Doing("objects")
    /\ \/ /\ task.what # <<>>
          /\ Parts(<<Task("statement", task.in, 0, Head(task.what)),
                     Task("objects", task.in, 0, Tail(task.what))>>, TRUE)
       \/ task.what = <<>> /\ Parts(<<>>, TRUE)
    /\ NoNames

\* In the shell the code of the map is dropped where a nested scope begins.
compile_objects ==
    /\ Doing("scope")
    /\ Then(<<Task("objects", task.in, 0, task.what)>>)
    /\ maps' = IF shell_env THEN [maps EXCEPT ![task.in] = Emptied(@)] ELSE maps
    /\ NoNames

Stating(type) == Doing("statement") /\ task.what.type = type

push_variable ==
    /\ Stating("VARIABLE")
    /\ LET s == task.what
       IN  Parts(<<IF s.initialized THEN ValueOf(s.states, task.in, 0)
                                    ELSE Emission(task.in, 0, "LOADBOOL", 0),
                   Task("declare", task.in, 1, s.name)>>, TRUE)
    /\ NoNames

\* Mutant of declare: the map's next id stays what it was.
declare_same_id ==
    /\ Doing("declare")
    /\ LET id == maps[task.in].counter
       IN  /\ maps' = [maps EXCEPT ![task.in] = Longer(@, Instruction("STORE", id), task.base)]
           /\ refs' = Append(refs, [name |-> task.what, ref |-> id])
    /\ Then(<<>>)
    /\ UNCHANGED <<functions, pool, counters, err, machineVars>>

\* Its id is the map's next one; the name leads to it from now on.
declare ==
    /\ Doing("declare")
    /\ LET id == maps[task.in].counter
       IN  /\ maps' = [maps EXCEPT ![task.in] =
                          [Longer(@, Instruction("STORE", id), task.base) EXCEPT !.counter = id + 1]]
           /\ refs' = Append(refs, [name |-> task.what, ref |-> id])
    /\ Then(<<>>)
    /\ UNCHANGED <<functions, pool, counters, err, machineVars>>

push_reassignment ==
    /\ Stating("REASSIGN")
    /\ LET s == task.what
       IN  \/ /\ \E i \in DOMAIN refs :
                    /\ First(i, Named(refs, s.name))
                    /\ Parts(<<ValueOf(s.states, task.in, 0),
                               Emission(task.in, 1, "STORE", refs[i].ref)>>, TRUE)
              /\ NoNames
           \/ Named(refs, s.name) = {} /\ ss_throw

call_statement ==
    /\ Stating("FUNCTIONCALL")
    /\ LET call == task.what
       IN  Parts(CallTasks(call, task.in, 0),
                 IsBuiltin(call.name) => Given(call) = Arity(call.name))
    /\ NoNames

return_statement ==
    /\ Stating("RETURN")
    /\ Parts(<<ValueOf(task.what.states, task.in, 0)>>, TRUE)
    /\ NoNames

\* The function gets a label and a map of its own, and has its name in its body.
push_function ==
    /\ Stating("FUNCTION")
    /\ functions' = Append(functions, [name |-> task.what.name, reference |-> labels])
    /\ labels' = labels + 1
    /\ owner' = Append(owner, 0)
    /\ maps' = Append(maps, new_map)
    /\ Then(<<Task("scope", Len(maps) + 1, 0, task.what.scope)>>)
    /\ UNCHANGED <<refs, pool, err, machineVars>>

if_statement ==
    /\ Stating("IFSTATEMENT")
    /\ Parts(<<Task("if", task.in, 0, task.what.clauses)>>, TRUE)
    /\ NoNames

\* Without a scope, which is <<>> for NULL, the clause and those after it are
\* dropped.  Each clause but the last takes two labels.
push_if_statement ==
    /\ Doing("if")
    /\ LET m == task.in
           this == Head(task.what)
           exit_label == labels
           conditional_label == labels + 1
           tested == << IF this.condition = <<>> THEN Emission(m, 0, "LOADBOOL", 1)
                                                 ELSE ValueOf(this.condition, m, 0),
                        Emission(m, 1, "NOT", 0),
                        Emission(m, 1, "LBLJMPIF", exit_label),
                        Task("scope", m, 0, this.scope[1]) >>
       IN  \/ this.scope = <<>> /\ Parts(<<>>, TRUE) /\ UNCHANGED counters
           \/ /\ this.scope # <<>> /\ Len(task.what) = 1
              /\ Parts(tested \o <<Emission(m, 0, "LBL", exit_label)>>, TRUE)
              /\ labels' = labels + 1 /\ owner' = Append(owner, m)
           \/ /\ this.scope # <<>> /\ Len(task.what) # 1
              /\ Parts(tested \o << Emission(m, 0, "LBLJMP", conditional_label),
                                    Emission(m, 0, "LBL", exit_label),
                                    Task("if", m, 0, Tail(task.what)),
                                    Emission(m, 0, "LBL", conditional_label) >>, TRUE)
              /\ labels' = labels + 2 /\ owner' = owner \o <<m, m>>
    /\ UNCHANGED <<table, err, machineVars>>

Compile_step ==
    /\ \/ Emit \/ push_expression \/ push_number \/ push_string \/ push_identifier
       \/ push_no_operand \/ push_function_call \/ push_call
       \/ compile_statement \/ compile_objects \/ push_variable \/ declare
       \/ push_reassignment \/ call_statement \/ return_statement \/ push_function
       \/ if_statement \/ push_if_statement
    /\ UNCHANGED session
-----------------------------------------------------------------------------
(* compile, and what is done with its code.                                  *)

\* A source with an error in it ends the process, or is compiled to its end.
\* compile_objects starts the map over in the shell; a file's is empty.
Begin_input(n) ==
    /\ mode = "prompt" /\ stage = "idle"
    /\ inputs < (IF shell_env THEN MaxInputs ELSE 1)
    /\ shell_env \/ n \notin Refused
    /\ stage' = "compiling"
    /\ inputs' = inputs + 1
    /\ err' = (n \in Refused)
    /\ maps' = [maps EXCEPT ![1] = [Emptied(@) EXCEPT !.sound = n \notin Refused]]
    /\ todo' = <<Task("objects", 1, 0, ObjectsOf[n])>>
    /\ UNCHANGED <<table, counters, shell_env, linked, trusted, machineVars>>

\* Mutant of Push_exit: the program goes on into the code of the first function.
Push_exit_none ==
    /\ mode = "prompt" /\ stage = "compiling" /\ todo = <<>>
    /\ stage' = "linking"
    /\ linked' = 0
    /\ UNCHANGED <<maps, table, counters, err, todo, shell_env, inputs, trusted, machineVars>>

Push_exit ==
    /\ mode = "prompt" /\ stage = "compiling" /\ todo = <<>>
    /\ maps' = [maps EXCEPT ![1] = Longer(@, Instruction("EXIT", 0), 0)]
    /\ stage' = "linking"
    /\ linked' = 0
    /\ UNCHANGED <<table, counters, err, todo, shell_env, inputs, trusted, machineVars>>

\* Mutant of With_function: no RET behind the code of a function.
With_function_no_return(map, reference, body) ==
    [map EXCEPT !.code = @ \o <<Instruction("LBL", reference)>> \o body.code,
                !.depth = @ \o <<0>> \o body.depth,
                !.sound = @ /\ body.sound]

\* The code of a function follows that of the program, with its label and RET.
With_function(map, reference, body) ==
    [map EXCEPT !.code = @ \o <<Instruction("LBL", reference)>> \o body.code
                           \o <<Instruction("RET", 0)>>,
                !.depth = @ \o <<0>> \o body.depth \o <<0>>,
                !.sound = @ /\ body.sound]

Link_function ==
    /\ mode = "prompt" /\ stage = "linking" /\ linked < Len(functions)
    /\ linked' = linked + 1
    /\ maps' = [maps EXCEPT ![1] =
                   With_function(@, functions[linked + 1].reference, maps[linked + 2])]
    /\ UNCHANGED <<table, counters, err, todo, shell_env, stage, inputs, trusted, machineVars>>

CellsSuffice == \A i \in DOMAIN refs : refs[i].ref < CellLimit

\* Code with an error in it is not executed.
Finish_compile ==
    /\ mode = "prompt" /\ stage = "linking" /\ linked = Len(functions)
    /\ maps' = [maps EXCEPT ![1].code = translate_labels(@)]
    /\ stage' = "idle"
    /\ err' = FALSE
    /\ IF err THEN UNCHANGED <<trusted, machineVars>>
       ELSE /\ BeginInput([code |-> translate_labels(maps[1].code), pool |-> pool])
            /\ trusted' = (trusted /\ maps[1].sound /\ CellsSuffice)
    /\ UNCHANGED <<table, counters, todo, shell_env, linked, inputs>>

\* ss_throw of the parser in a file.
Refuse_file ==
    /\ mode = "prompt" /\ stage = "idle" /\ ~shell_env /\ inputs = 0 /\ Refused # {}
    /\ mode' = "closed" /\ status' = "exit" /\ exit_code' = 1
    /\ inputs' = 1
    /\ UNCHANGED <<maps, table, counters, err, todo, shell_env, stage, linked, trusted,
                   prog, ip, stack, callframes, memory, out>>

Execute ==
    /\ RunInput
    /\ UNCHANGED <<maps, table, counters, err, todo, session>>

Kill_environment ==
    /\ shell_env /\ stage = "idle" /\ labels <= LabelLimit
    /\ NewMachine
    /\ maps' = <<new_map>>
    /\ functions' = <<>> /\ refs' = <<>> /\ pool' = <<>>
    /\ inputs' = 0
    /\ UNCHANGED <<counters, err, todo, shell_env, stage, linked, trusted>>

Quit ==
    /\ shell_env /\ stage = "idle"
    /\ Close
    /\ UNCHANGED <<maps, table, counters, err, todo, session>>

Going_on ==
    \/ Compile_step \/ Push_exit \/ Link_function \/ Finish_compile
    \/ Refuse_file \/ Execute \/ Kill_environment \/ Quit
Next_Compilation == Going_on \/ \E n \in Inputs : Begin_input(n)

CompilationSpec == Init_Compilation /\ [][Next_Compilation]_compilationVars
-----------------------------------------------------------------------------
(* Whatever the source, code in which every expression has a value and whose *)
(* cells there are is code the machine can be trusted with, and jumps        *)
(* forward only: with calls, branches in branches and functions of earlier   *)
(* inputs, with the labels, and with the code that the shell drops (compile).*)
CodeVerifies ==
    mode = "executing" /\ maps[1].sound /\ CellsSuffice =>
        Verified(prog, maps[1].depth) /\ JumpsForward(prog.code)

(* A process that has executed sound code only, in one input or in many on   *)
(* one machine, never takes an operand, an address or a cell that is not     *)
(* there, and never runs out of its code (compile, vm_execute).              *)
CompiledIsSafe ==
    trusted => status \in {"running", "success", "exit", "frame_overflow", "bad_pointer"}

(* No input made of sound sources gets stuck: with each step the places of   *)
(* the open calls, read from the program's own on, get later, or one call is *)
(* added; not even what earlier inputs left on the machine can take it back  *)
(* (push_if_statement, translate_labels, vm_execute).                        *)
InputsAdvance ==
    [][trusted /\ mode = "executing" /\ status' = "running" =>
          \E k \in 0..sp : AdvanceAt(k)]_compilationVars
=============================================================================
