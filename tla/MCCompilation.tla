---------------------------- MODULE MCCompilation ----------------------------
(* Sources with every statement, and every kind of error, in a file or typed  *)
(* one after the other.                                                       *)
EXTENDS CompilationSteps

CONSTANT hello      \* a string

Says(e) == C!CallTo("print", <<e>>)
A == <<C!Id("a")>>
One == C!Num(1)
Infix(x, op, y) == <<x, C!Oper(op), y>>

Sources == <<
    \* a variable, a function with branches in it that calls itself, calls
    << C!Decl("a", <<One>>),
       C!Function("f", <<>>, <<
           C!If(<<C!Clause(Infix(C!Id("a"), "!=", One), <<C!CallTo("f", <<>>), Says(A)>>),
                  C!Clause(A, <<C!Assign("a", Infix(One, "*", C!Id("a")))>>),
                  C!Clause(<<>>, <<C!Give(A)>>)>>),
           C!DeclOnly("b") >>),
       C!CallTo("f", <<A, <<C!Str(hello)>>>>), Says(<<C!Str(hello)>>) >>,
    << C!If(<<C!Clause(<<C!Id("false")>>, <<C!If(<<C!Clause(<<C!Id("true")>>, <<Says(A)>>)>>)>>),
              C!BlankClause(A), C!Clause(<<C!Id("true")>>, <<>>), C!Clause(<<>>, <<Says(A)>>)>>),
       C!CallTo("exit", <<<<C!CallTo("to_number", <<<<C!Str(2)>>>>)>>>>) >>,
    << C!CallTo("f", <<>>) >>,
    << C!Function("g", <<>>, <<C!Assign("c", A)>>), C!Decl("a", <<C!Id("c")>>) >>,
    << C!CallTo("g", <<>>), Says(Infix(C!CallTo("time", <<>>), "<", C!Id("_env"))) >>,
    << C!Function("h", <<>>, <<C!Give(<<One, C!Oper("+"), One, C!Oper("+"), One>>)>>),
       C!Assign("a", <<C!CallTo("f", <<>>)>>) >>,
    << C!Decl("c", <<C!Oper("+")>>) >>,
    << C!Decl("d", A), C!Decl("d", A) >> >>

MCInputs == DOMAIN Sources
MCObjectsOf == [n \in MCInputs |-> C!parse(Sources[n])]
MCRefused == {n \in MCInputs : C!Redeclares(Sources[n])}

\* The terms and statements that a source is made of.
Elements(s) == {s[i] : i \in DOMAIN s}
RECURSIVE TermsOf(_)
TermsIn(e) == UNION {TermsOf(t) : t \in Elements(e)}
TermsOf(t) == {t} \cup IF t.type = "FUNCTIONCALL" THEN UNION {TermsIn(e) : e \in Elements(t.args)} ELSE {}

RECURSIVE StatementsIn(_)
ScopesOf(s) == CASE s.type = "FUNCTION" -> {s.scope}
                 [] s.type = "IFSTATEMENT" -> UNION {Elements(c.scope) : c \in Elements(s.clauses)}
                 [] OTHER -> {}
StatementsIn(scope) ==
    Elements(scope) \cup UNION {UNION {StatementsIn(c) : c \in ScopesOf(s)} : s \in Elements(scope)}

ExpressionsOf(s) ==
    CASE s.type \in {"VARIABLE", "REASSIGN", "RETURN"} -> {s.states}
      [] s.type = "FUNCTIONCALL" -> Elements(s.args)
      [] s.type = "IFSTATEMENT" -> {c.condition : c \in Elements(s.clauses)}
      [] OTHER -> {}

MCStatements == UNION {StatementsIn(MCObjectsOf[n]) : n \in MCInputs}
MCTerms == UNION {UNION {TermsIn(e) : e \in ExpressionsOf(s)} : s \in MCStatements}
=============================================================================
