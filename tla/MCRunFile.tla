------------------------------ MODULE MCRunFile ------------------------------
(* Sources: a declaration, a function, and every three statements of a set    *)
(* that calls it, assigns, declares and branches; and a few longer ones.      *)
EXTENDS RunFile

CONSTANT hello      \* a string

Says(e) == CallTo("print", <<e>>)
A == <<Id("a")>>
Plus(x, y) == <<x, Oper("+"), y>>
Rel(x, op, y) == <<x, Oper(op), y>>
More == Assign("a", Plus(Id("a"), Num(1)))

Bodies == <<
    << Says(A) >>,
    << >>,
    << More, If(<<Clause(Rel(Id("a"), "<", Num(3)), <<CallTo("f", <<>>)>>),
                  Clause(<<>>, <<Says(A)>>)>>) >>,
    << If(<<Clause(Rel(Id("a"), "==", Num(2)), <<Says(<<Str(hello)>>), More>>)>>), Says(A) >>,
    << CallTo("f", <<>>) >> >>

Statements == <<
    CallTo("f", << <<Num(1)>>, <<Says(<<Num(2)>>)>> >>),
    More,
    Assign("a", Rel(Num(4), "-", Id("a"))),
    If(<< Clause(Rel(Id("a"), ">", Num(1)), <<Says(A), If(<<Clause(<<Id("true")>>, <<More>>)>>)>>),
          Clause(Rel(Id("a"), "!=", Num(1)), <<CallTo("f", <<>>)>>),
          Clause(<<>>, <<More, Says(<<Str(hello)>>)>>) >>),
    Decl("b", Rel(Id("a"), "*", CallTo("to_number", << <<Str(2)>> >>))),
    Says(<<CallTo("to_string", <<A>>)>>),
    Says(<<Id("b")>>),
    If(<<Clause(Rel(Id("a"), "==", Num(2)), <<CallTo("exit", <<A>>)>>)>>) >>

Others == <<
    \* tests/compiler/uninit.ssc, tests/language/conditional.ssc and conditional2.ssc
    << DeclOnly("a"), Says(A), Assign("a", <<Num(20)>>), Says(A) >>,
    << If(<<Clause(<<Id("false")>>, <<Says(<<Num(0)>>)>>), Clause(<<Id("false")>>, <<Says(<<Num(1)>>)>>),
            Clause(<<Id("false")>>, <<Says(<<Num(2)>>)>>), Clause(<<>>, <<Says(<<Num(3)>>)>>)>>) >>,
    << If(<<Clause(<<Id("true")>>, <<Says(<<Num(0)>>)>>), Clause(<<Id("true")>>, <<Says(<<Num(1)>>)>>),
            Clause(<<Id("false")>>, <<Says(<<Num(2)>>)>>), Clause(<<>>, <<Says(<<Num(3)>>)>>)>>) >>,
    \* a branch of line breaks, taken and passed over
    << Decl("a", <<Num(1)>>),
       If(<<BlankClause(Rel(Id("a"), ">", Num(1))), Clause(Rel(Id("a"), "==", Num(1)), <<More>>), BlankClause(<<>>)>>),
       If(<<BlankClause(Rel(Id("a"), "==", Num(2))), Clause(<<>>, <<More>>)>>), Says(A) >>,
    \* return, input, division, an expression that is not code, a branch {}
    << Decl("a", <<Num(1)>>), Function("f", <<>>, <<Give(Plus(Id("a"), Num(2)))>>), CallTo("f", <<>>),
       Give(<<Says(A)>>), Says(<<Num(2), Oper("/"), Id("a")>>) >>,
    << Decl("a", <<CallTo("input", <<>>)>>), Says(Rel(Id("a"), "==", Str(hello))) >>,
    << Decl("a", <<CallTo("time", <<>>)>>), If(<<Clause(A, <<>>), Clause(<<>>, <<Says(A)>>)>>) >>,
    << Says(<<Num(1), Oper("+"), Num(2), Oper("+"), Num(3)>>) >> >>

\* Files are numbered: the digits of k choose the body and the three statements.
B == Len(Bodies)
S == Len(Statements)
Digits(k) == << k % B, (k \div B) % S, (k \div (B * S)) % S, k \div (B * S * S) >>
Composed(d) == << Decl("a", <<Num(1)>>), Function("f", <<>>, Bodies[d[1] + 1]),
                  Statements[d[2] + 1], Statements[d[3] + 1], Statements[d[4] + 1] >>

MCFiles == 1..Len(Others) + B * S * S * S
MCSourceOf == [f \in MCFiles |->
    IF f <= Len(Others) THEN Others[f] ELSE Composed(Digits(f - Len(Others) - 1))]

MCImages == {ImageOf(Compiled[f]) : f \in MCFiles}
=============================================================================
