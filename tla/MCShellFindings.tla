--------------------------- MODULE MCShellFindings ---------------------------
(* Sessions in which the shell does not do what the repository says of it.    *)
EXTENDS Shell

Says(e) == CallTo("print", <<e>>)
Case(b, n) == Clause(<<Id(b)>>, <<Says(<<Num(n)>>)>>)

MCInputOf == <<
    << Decl("a", <<Num(1)>>) >>,
    << Decl("b", <<Id("a")>>) >>,
    << If(<<Case("true", 0), Case("true", 1), Case("true", 2), Case("false", 3),
            Clause(<<>>, <<Says(<<Num(4)>>)>>)>>) >> >>

MCInputs == DOMAIN MCInputOf
=============================================================================
