------------------------------ MODULE Compiler ------------------------------
(***************************************************************************)
(* The parser's tree (src/parser.c) and the compiler (src/compiler.c): from *)
(* the statements of a source to the code and the string pool of an image.  *)
(* The parser is what it does to whole statements; Reading compares that    *)
(* with what it makes of the characters and tokens of a file.               *)
(*                                                                         *)
(* The compiler's state is a record, the ReferenceTable of compiler.h with  *)
(* the instructions of the map being written, the label counter and the     *)
(* error flag of the shell:                                                 *)
(*   code, global_counter   the InstructionMap                              *)
(*   refs                   the variable references, [name, ref]            *)
(*   pool                   the string pool                                 *)
(*   functions              [name, reference, code]                         *)
(*   labels                 label_length                                    *)
(*   err                    ss_throw has been called                        *)
(*   shell_env              compiling for the shell                         *)
(***************************************************************************)
EXTENDS Assembly, SequencesExt

-----------------------------------------------------------------------------
(* Sources.  An expression is a sequence of terms; a statement is a record.  *)

Term(type, value)  == [type |-> type, value |-> value]
Num(n)             == Term("NUMBER", n)
Str(t)             == Term("STRING", t)
Id(name)           == Term("IDENTIFIER", name)
Oper(op)           == Term("OPERATOR", op)
CallTo(name, args) == [type |-> "FUNCTIONCALL", name |-> name, args |-> args]

Decl(name, e)      == [type |-> "VARIABLE", name |-> name, initialized |-> TRUE, states |-> e]
DeclOnly(name)     == [type |-> "VARIABLE", name |-> name, initialized |-> FALSE, states |-> <<>>]
Assign(name, e)    == [type |-> "REASSIGN", name |-> name, states |-> e]
\* Nothing reads the parameters that a function names.
Function(name, arguments, scope) ==
    [type |-> "FUNCTION", name |-> name, arguments |-> arguments, scope |-> scope]
Give(e)            == [type |-> "RETURN", states |-> e]
\* An if, its elseifs and its else: clauses [condition, scope], no condition for else.
\* scope points to what is between the braces: <<>> is NULL, for `{}', and << <<>> >>
\* a scope without statements, for braces around line breaks or stray marks.
If(clauses)        == [type |-> "IFSTATEMENT", clauses |-> clauses]
ClauseTo(e, scope) == [condition |-> e, scope |-> scope]
Clause(e, scope)   == ClauseTo(e, IF scope = <<>> THEN <<>> ELSE <<scope>>)
BlankClause(e)     == ClauseTo(e, << <<>> >>)
-----------------------------------------------------------------------------
(* Parsing.                                                                  *)

\* A call without arguments has one argument, with no terms.
RECURSIVE ParseTerm(_)
ParseTerms(e) == [i \in DOMAIN e |-> ParseTerm(e[i])]
ParseTerm(term) ==
    IF term.type # "FUNCTIONCALL" THEN term
    ELSE [term EXCEPT !.args = IF @ = <<>> THEN << <<>> >>
                               ELSE [i \in DOMAIN @ |-> ParseTerms(@[i])]]

\* After a return statement the parser does not skip to the end of it: it goes on
\* with the next token and finds the first call of the expression again.
ReparsedCall(e) == LET calls == SelectSeq(e, LAMBDA term : term.type = "FUNCTIONCALL")
                   IN  IF calls = <<>> THEN <<>> ELSE <<Head(calls)>>

RECURSIVE parse(_)
ParseStatement(s) ==
    CASE s.type \in {"VARIABLE", "REASSIGN"} ->
            <<[s EXCEPT !.states = ParseTerms(@)]>>
      [] s.type = "FUNCTIONCALL" -> <<ParseTerm(s)>>
      [] s.type = "RETURN" ->
            LET e == ParseTerms(s.states)
            IN  <<Give(e)>> \o ReparsedCall(e)
      [] s.type = "FUNCTION" -> <<[s EXCEPT !.scope = parse(@)]>>
      [] s.type = "IFSTATEMENT" ->
            <<If([i \in DOMAIN s.clauses |->
                    [condition |-> ParseTerms(s.clauses[i].condition),
                     scope     |-> [k \in DOMAIN s.clauses[i].scope |->
                                      parse(s.clauses[i].scope[k])]]])>>
parse(source) == IF source = <<>> THEN <<>>
                 ELSE ParseStatement(Head(source)) \o parse(Tail(source))

\* variable_declared looks at the declarations before it in the same scope.
RECURSIVE Redeclares(_)
Redeclares(source) ==
    \/ \E i, j \in DOMAIN source :
          /\ i < j /\ source[i].type = "VARIABLE" /\ source[j].type = "VARIABLE"
          /\ source[i].name = source[j].name
    \/ \E i \in DOMAIN source :
          \/ source[i].type = "FUNCTION" /\ Redeclares(source[i].scope)
          \/ /\ source[i].type = "IFSTATEMENT"
             /\ \E c \in DOMAIN source[i].clauses :
                   LET scope == source[i].clauses[c].scope
                   IN  \E k \in DOMAIN scope : Redeclares(scope[k])
-----------------------------------------------------------------------------
(* Emitting code.                                                            *)

init_reftable(shell_env) ==
    [code |-> <<>>, global_counter |-> 0, refs |-> <<>>, pool |-> <<>>,
     functions |-> <<>>, labels |-> 0, err |-> FALSE, shell_env |-> shell_env]

Emit(t, op, arg) == [t EXCEPT !.code = Append(@, [op |-> op, arg |-> arg])]
ss_throw(t) == [t EXCEPT !.err = TRUE]

\* The first entry of a table with that name, or 0.
Lookup(table, name) == SelectInSeq(table, LAMBDA entry : entry.name = name)

get_reference_by_name(t, name) ==
    LET i == Lookup(t.refs, name) IN IF i = 0 THEN -1 ELSE t.refs[i].ref

push_operator(t, op) == [t EXCEPT !.code = @ \o Operation(op)]

push_string(t, text) ==
    LET i == SelectInSeq(t.pool, LAMBDA s : s = text)
    IN  IF i # 0 THEN Emit(t, "LOADPOOL", i - 1)
        ELSE [Emit(t, "LOADPOOL", Len(t.pool)) EXCEPT !.pool = Append(@, text)]

push_identifier(t, name) ==
    LET ref == get_reference_by_name(t, name)
    IN  CASE name = "true"  -> Emit(t, "LOADBOOL", 1)
          [] name \in {"false", "_env"} -> Emit(t, "LOADBOOL", 0)  \* _env: debug_env
          [] OTHER -> IF ref # -1 THEN Emit(t, "LOAD", ref) ELSE ss_throw(t)

RECURSIVE push_function_call(_, _)

push_singular_state(t, term) ==
    CASE term.type = "NUMBER"       -> Emit(t, "LOADC", term.value)
      [] term.type = "STRING"       -> push_string(t, term.value)
      [] term.type = "IDENTIFIER"   -> push_identifier(t, term.value)
      [] term.type = "FUNCTIONCALL" -> push_function_call(t, term)
      [] OTHER                      -> ss_throw(t)

\* Mutant of push_expression: the right operand is pushed first.
push_expression_swapped(t, e) ==
    IF Len(e) = 3 /\ e[2].type = "OPERATOR"
    THEN push_operator(FoldLeft(push_singular_state, t, <<e[3], e[1]>>), e[2].value)
    ELSE t

\* Only `x op y' is code; a longer expression is silently none.
push_expression(t, e) ==
    IF Len(e) = 3 /\ e[2].type = "OPERATOR"
    THEN push_operator(FoldLeft(push_singular_state, t, <<e[1], e[3]>>), e[2].value)
    ELSE t

PushOperand(t, e) == IF Len(e) = 1 THEN push_singular_state(t, e[1]) ELSE push_expression(t, e)

PushCall(t, name) ==
    LET builtin == SelectInSeq(builtins, LAMBDA b : b = name)
        local   == Lookup(t.functions, name)
    IN  CASE builtin # 0 -> Emit(t, "CALLC", builtin - 1)
          [] builtin = 0 /\ local # 0 -> Emit(t, "LBLCALL", t.functions[local].reference)
          [] OTHER -> ss_throw(t)

\* The last argument is pushed first, on the stack of the caller.
push_function_call(t, call) ==
    PushCall(FoldRight(LAMBDA e, u : PushOperand(u, e), call.args, t), call.name)
-----------------------------------------------------------------------------
(* Statements.                                                               *)

\* The value is stored under an id of its own, the map's counter of globals.
StoreNew(t, name) ==
    [Emit(t, "STORE", t.global_counter) EXCEPT
        !.global_counter = @ + 1,
        !.refs = Append(@, [name |-> name, ref |-> t.global_counter])]

\* Mutant of push_variable: a variable without a value pushes none.
push_variable_unset(t, s) ==
    StoreNew(IF s.initialized THEN PushOperand(t, s.states) ELSE t, s.name)

push_variable(t, s) ==
    StoreNew(IF s.initialized THEN PushOperand(t, s.states) ELSE Emit(t, "LOADBOOL", 0), s.name)

push_reassignment(t, s) ==
    LET ref == get_reference_by_name(t, s.name)
    IN  IF ref = -1 THEN ss_throw(t) ELSE Emit(PushOperand(t, s.states), "STORE", ref)

RECURSIVE compile_objects(_, _)

\* The function is known by name in its own body; the body gets a map of its
\* own, whose counter of globals starts from 0 again.
Named(t, name) == [t EXCEPT !.functions = Append(@, [name |-> name, reference |-> t.labels,
                                                    code |-> <<>>]),
                            !.labels = @ + 1]
Bodied(t, body) == [body EXCEPT !.code = t.code, !.global_counter = t.global_counter,
                                !.functions[Len(t.functions) + 1].code = body.code]
push_function(t, s) ==
    Bodied(t, compile_objects([Named(t, s.name) EXCEPT !.code = <<>>, !.global_counter = 0],
                              s.scope))

push_condition(t, e) == Emit(IF e = <<>> THEN Emit(t, "LOADBOOL", 1) ELSE PushOperand(t, e),
                             "NOT", 0)

\* A clause without a scope, and the rest behind it, are dropped.
\* Each clause but the last takes two labels.
RECURSIVE push_if_statement(_, _)
push_if_statement(t, clauses) ==
    LET this == Head(clauses)
        last == Len(clauses) = 1
        exit_label == t.labels
        conditional_label == t.labels + 1
        NewLabels(u) == [u EXCEPT !.labels = @ + (IF last THEN 1 ELSE 2)]
        Closed(u) == Emit(IF last THEN u ELSE Emit(u, "LBLJMP", conditional_label),
                          "LBL", exit_label)
        Else(u) == IF last THEN u
                   ELSE Emit(push_if_statement(u, Tail(clauses)), "LBL", conditional_label)
        tested == Emit(NewLabels(push_condition(t, this.condition)), "LBLJMPIF", exit_label)
    IN  IF this.scope = <<>> THEN t ELSE Else(Closed(compile_objects(tested, this.scope[1])))

CompileStatement(t, s) ==
    CASE s.type = "VARIABLE"     -> push_variable(t, s)
      [] s.type = "FUNCTIONCALL" -> push_function_call(t, s)
      [] s.type = "REASSIGN"     -> push_reassignment(t, s)
      [] s.type = "FUNCTION"     -> push_function(t, s)
      [] s.type = "IFSTATEMENT"  -> push_if_statement(t, s.clauses)
      [] s.type = "RETURN"       -> PushOperand(t, s.states)

\* Mutant of compile_objects: the shell starts the map over with its counter too.
compile_objects_renumbering(t, objects) ==
    FoldLeft(LAMBDA u, s : IF u.err /\ ~u.shell_env THEN u ELSE CompileStatement(u, s),
             IF t.shell_env THEN [t EXCEPT !.code = <<>>, !.global_counter = 0] ELSE t, objects)

\* Outside of the shell ss_throw ends the program.  In the shell every scope, a
\* nested one too, starts the map's code over.
compile_objects(t, objects) ==
    FoldLeft(LAMBDA u, s : IF u.err /\ ~u.shell_env THEN u ELSE CompileStatement(u, s),
             IF t.shell_env THEN [t EXCEPT !.code = <<>>] ELSE t, objects)

\* Mutant of Linked: the function is not ended by RET.
Linked_without_ret(t, f) == [Emit(t, "LBL", f.reference) EXCEPT !.code = @ \o f.code]

\* The code of each function follows that of the program.
Linked(t, f) == Emit([Emit(t, "LBL", f.reference) EXCEPT !.code = @ \o f.code], "RET", 0)
compile_functions(t) == FoldLeft(Linked, t, t.functions)

compile(objects, t) ==
    [compile_functions(Emit(compile_objects(t, objects), "EXIT", 0)) EXCEPT
        !.code = translate_labels(@)]

\* A source that is parsed, then compiled.
CompileSource(source, t) ==
    compile(parse(source), IF Redeclares(source) THEN ss_throw(t) ELSE t)
ImageOf(t) == [code |-> t.code, pool |-> t.pool]
=============================================================================
