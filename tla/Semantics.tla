------------------------------ MODULE Semantics ------------------------------
(***************************************************************************)
(* What a source means, said without stacks, slots, labels or addresses:    *)
(* the reference that compiled code is compared with.  It follows the       *)
(* language of the programs under tests/, and says nothing (ok is FALSE)    *)
(* where the repository's own tests and README have no answer, or where the *)
(* compiler is known not to follow them.                                    *)
(***************************************************************************)
EXTENDS Compiler, Verifier

-----------------------------------------------------------------------------
(* Well-formed sources.                                                      *)

IsBuiltin(name) == \E i \in DOMAIN builtins : builtins[i] = name
Arity(name) == IF name \in {"input", "time"} THEN 0 ELSE 1

\* An operand, or `x op y'.  A call has a value when it is a builtin's, with as
\* many arguments as the builtin reads.
RECURSIVE HasValue(_)
TermHasValue(term) ==
    CASE term.type = "OPERATOR"     -> FALSE
      [] term.type = "FUNCTIONCALL" -> /\ IsBuiltin(term.name)
                                       /\ Len(term.args) = Arity(term.name)
                                       /\ \A i \in DOMAIN term.args : HasValue(term.args[i])
      [] OTHER -> TRUE
HasValue(e) ==
    \/ Len(e) = 1 /\ TermHasValue(e[1])
    \/ /\ Len(e) = 3 /\ e[2].type = "OPERATOR"
       /\ TermHasValue(e[1]) /\ TermHasValue(e[3])

\* Every expression has a value.  (A branch {} drops the branches after it.)
RECURSIVE WellFormed(_)
WellFormed(source) ==
    \A i \in DOMAIN source :
        LET s == source[i]
        IN  CASE s.type = "VARIABLE" -> s.initialized => HasValue(s.states)
              [] s.type \in {"REASSIGN", "RETURN"} -> HasValue(s.states)
              [] s.type = "FUNCTIONCALL" ->
                    IF IsBuiltin(s.name) THEN TermHasValue(s)
                    ELSE \A a \in DOMAIN s.args : HasValue(s.args[a])
              [] s.type = "FUNCTION" -> WellFormed(s.scope)
              [] s.type = "IFSTATEMENT" ->
                    \A c \in DOMAIN s.clauses :
                        /\ s.clauses[c].scope # <<>>
                        /\ WellFormed(s.clauses[c].scope[1])
                        /\ s.clauses[c].condition = <<>> \/ HasValue(s.clauses[c].condition)

\* The names a source declares, in the order of the text.
RECURSIVE Declared(_)
Declared(source) ==
    FoldLeft(LAMBDA names, s :
                 CASE s.type = "VARIABLE" -> Append(names, s.name)
                   [] s.type = "FUNCTION" -> Append(names, s.name) \o Declared(s.scope)
                   [] s.type = "IFSTATEMENT" ->
                        names \o FlattenSeq([c \in DOMAIN s.clauses |->
                                                FlattenSeq([k \in DOMAIN s.clauses[c].scope |->
                                                    Declared(s.clauses[c].scope[k])])])
                   [] OTHER -> names,
             <<>>, source)

\* One thing per name.  Names have no scope: a second declaration, wherever it
\* is, gets a slot that the name does not lead to.
NamesUnique(source) ==
    LET names == Declared(source) \o builtins
    IN  \A i, j \in DOMAIN names : names[i] = names[j] => i = j
-----------------------------------------------------------------------------
(* Evaluation.  A run r of the program so far is a record:                   *)
(*   env     the value of each variable declared                             *)
(*   out     what was printed                                                *)
(*   end     "running", or "exit" when exit() was called                     *)
(*   code    its argument                                                    *)
(*   ok      the meaning is defined                                          *)

Start == [env |-> [n \in {} |-> Garbage], out |-> <<>>, end |-> "running", code |-> 0, ok |-> TRUE]
Wrong(r) == [r EXCEPT !.ok = FALSE]
Going(r) == r.ok /\ r.end = "running"

\* The run after an expression, with its value.
With(r, v) == [r |-> r, v |-> v]
NoValue(r) == With(Wrong(r), Garbage)

\* A value when there is only one possible.
Only(r, S) == IF Cardinality(S) = 1 THEN With(r, Bool(CHOOSE b \in S : TRUE)) ELSE NoValue(r)

Operate(op, x, y, r) ==
    CASE op \in {"+", "-", "*", "/"} ->
            IF x.type = "NUMBER" /\ y.type = "NUMBER"
            THEN With(r, Arith(CASE op = "+" -> "ADD" [] op = "-" -> "SUB"
                                 [] op = "*" -> "MUL" [] op = "/" -> "DIV", x, y))
            ELSE NoValue(r)
      [] op = "<"  -> Only(r, Less(x, y))
      [] op = ">"  -> Only(r, Less(y, x))
      [] op = "==" -> Only(r, Equal(x, y))
      [] op = "!=" -> Only(r, {~b : b \in Equal(x, y)})

BuiltinCall(name, v, r) ==
    CASE name = "print" ->
            IF Cardinality(Shown(v)) # 1 THEN NoValue(r)
            ELSE With([r EXCEPT !.out = Append(@, CHOOSE t \in Shown(v) : TRUE)], Bool(FALSE))
      [] name = "exit" -> With([r EXCEPT !.end = "exit", !.code = ExitCode(v)], Garbage)
      [] name = "to_string" -> IF v.type = "NUMBER" THEN With(r, TextOf(v)) ELSE NoValue(r)
      [] name = "to_number" -> IF v.type = "STRING" /\ v.data \in Nat
                               THEN With(r, Number(v.data)) ELSE NoValue(r)
      [] OTHER -> NoValue(r)            \* input and time

\* What an operator makes of the value before it and the run after its right operand.
Operated(op, x, y) == IF Going(y.r) THEN Operate(op, x, y.v, y.r) ELSE y
Called(name, arg) == IF Going(arg.r) THEN BuiltinCall(name, arg.v, arg.r) ELSE arg

RECURSIVE Eval(_, _)
EvalTerm(term, r) ==
    CASE term.type = "NUMBER" -> With(r, Number(term.value))
      [] term.type = "STRING" -> With(r, String(term.value))
      [] term.type = "IDENTIFIER" ->
            CASE term.value \in {"true", "false"} -> With(r, Bool(term.value = "true"))
              [] term.value \in DOMAIN r.env -> With(r, r.env[term.value])
              [] OTHER -> NoValue(r)
      [] term.type = "FUNCTIONCALL" ->
            IF IsBuiltin(term.name) /\ Arity(term.name) = 1
            THEN Called(term.name, Eval(term.args[1], r))
            ELSE NoValue(r)

EvalRight(e, x) == IF Going(x.r) THEN Operated(e[2].value, x.v, EvalTerm(e[3], x.r)) ELSE x
Eval(e, r) == IF Len(e) = 1 THEN EvalTerm(e[1], r) ELSE EvalRight(e, EvalTerm(e[1], r))
-----------------------------------------------------------------------------
(* Execution; depth counts the calls that are open.                          *)

Bind(r, name, v) == [r EXCEPT !.env = [n \in DOMAIN @ \cup {name} |->
                                          IF n = name THEN v ELSE @[n]]]

Bound(given, name) == IF Going(given.r) THEN Bind(given.r, name, given.v) ELSE given.r

RECURSIVE Exec(_, _, _, _)

\* The arguments of a user's function are evaluated, the last one first, and dropped.
Arguments(call, r) == FoldRight(LAMBDA e, q : IF Going(q) THEN Eval(e, q).r ELSE q, call.args, r)
CallBody(functions, depth, f, r) ==
    CASE ~Going(r) -> r
      [] Going(r) /\ (f = 0 \/ depth = FrameLimit - 1) -> Wrong(r)
      [] OTHER -> Exec(functions, depth + 1, functions[f].scope, r)

\* The run after the tests of an if, with the clause taken: the first one that
\* holds, or 0.
Test(clause, r) == IF clause.condition = <<>> THEN With(r, Bool(TRUE)) ELSE Eval(clause.condition, r)
Take(i, tested) ==
    CASE ~Going(tested.r) -> With(tested.r, 0)
      [] Going(tested.r) /\ tested.v.type # "BOOL" -> With(Wrong(tested.r), 0)
      [] OTHER -> With(tested.r, IF tested.v = Bool(TRUE) THEN i ELSE 0)
Choose(clauses, r) ==
    FoldLeftDomain(LAMBDA q, i : IF Going(q.r) /\ q.v = 0 THEN Take(i, Test(clauses[i], q.r)) ELSE q,
                   With(r, 0), clauses)
Branch(functions, depth, clauses, chosen) ==
    IF Going(chosen.r) /\ chosen.v # 0
    THEN Exec(functions, depth, clauses[chosen.v].scope[1], chosen.r)
    ELSE chosen.r

ExecStatement(functions, depth, s, r) ==
    CASE s.type = "VARIABLE" ->
            IF depth > 0 THEN Wrong(r)
            ELSE Bound(IF s.initialized THEN Eval(s.states, r) ELSE With(r, Bool(FALSE)), s.name)
      [] s.type = "REASSIGN" ->
            IF s.name \in DOMAIN r.env THEN Bound(Eval(s.states, r), s.name) ELSE Wrong(r)
      [] s.type = "FUNCTIONCALL" ->
            IF IsBuiltin(s.name) THEN EvalTerm(s, r).r
            ELSE CallBody(functions, depth, Lookup(functions, s.name), Arguments(s, r))
      [] s.type = "FUNCTION" -> r
      [] s.type = "IFSTATEMENT" -> Branch(functions, depth, s.clauses, Choose(s.clauses, r))
      [] s.type = "RETURN" -> Wrong(r)

Exec(functions, depth, source, r) ==
    FoldLeft(LAMBDA q, s : IF Going(q) THEN ExecStatement(functions, depth, s, q) ELSE q,
             r, source)

Meaning(source) ==
    IF WellFormed(source) /\ NamesUnique(source)
    THEN Exec(SelectSeq(source, LAMBDA s : s.type = "FUNCTION"), 0, source, Start)
    ELSE Wrong(Start)
=============================================================================
