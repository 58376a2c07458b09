------------------------------- MODULE MCShell -------------------------------
(* Sessions of a few lines out of a set in which the lines depend on each     *)
(* other.                                                                     *)
EXTENDS Shell

CONSTANT hello      \* a string

Says(e) == CallTo("print", <<e>>)
Plus(x, y) == <<x, Oper("+"), y>>

MCInputOf == <<
    << Decl("a", <<Num(1)>>), Says(<<Str(hello)>>) >>,
    << Decl("b", Plus(Id("a"), Num(1))), Says(<<Id("b")>>) >>,
    << Function("f", <<>>, <<Assign("a", Plus(Id("a"), Num(1)))>>),
       Function("g", <<>>, <<CallTo("f", <<>>), Says(<<Id("a")>>), CallTo("g", <<>>)>>),
       CallTo("f", <<>>), Says(<<Str(hello)>>) >>,
    << CallTo("f", << <<Num(7)>> >>), Says(<<Id("a")>>) >>,
    << CallTo("g", <<>>) >>,
    << If(<<Clause(<<Id("true")>>, <<CallTo("f", <<>>)>>),
            Clause(<<>>, <<Says(<<Str(2)>>)>>)>>) >>,
    << Give(<<CallTo("exit", <<Plus(Id("b"), Num(4))>>)>>) >>,
    << CallTo("exit", << <<Id("a")>> >>) >> >>

MCInputs == DOMAIN MCInputOf
=============================================================================
