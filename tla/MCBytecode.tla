------------------------------ MODULE MCBytecode ------------------------------
(* Sources whose code has every kind of argument, long and short pools, and   *)
(* calls with few and with many arguments.                                    *)
EXTENDS Bytecode

CONSTANTS hello, none, exact      \* strings: of two characters, none, and three

Says(e) == CallTo("print", <<e>>)
A == <<Id("a")>>
Plus(x, y) == <<x, Oper("+"), y>>
Numbered(n) == [i \in 1..n |-> <<Num(i)>>]

MCSourceOf == <<
    << >>,
    << Says(<<Num(300)>>) >>,
    << CallTo("print", Numbered(3)) >>,
    << CallTo("print", Numbered(5)) >>,
    << CallTo("print", Numbered(3)), CallTo("print", <<<<Num(4)>>, <<Num(5)>>, <<Str(hello)>>>>) >>,
    << Says(<<Str(hello)>>) >>,
    << Says(<<Str(none)>>) >>,
    << Says(<<Str(exact)>>) >>,
    << Says(<<Str(hello)>>), Says(<<Str(none)>>), Says(<<Str(7)>>), Says(<<Str(hello)>>) >>,
    << Says(<<Str(none)>>), Says(<<Str(hello)>>), Says(<<Id("true")>>) >>,
    << Decl("a", <<Num(2)>>), DeclOnly("b"),
       Function("f", <<>>, <<Assign("a", Plus(Id("a"), Num(1))),
                             If(<<Clause(<<Id("a"), Oper("<"), Num(5)>>, <<CallTo("f", <<>>)>>)>>)>>),
       CallTo("f", <<>>),
       If(<<Clause(<<Id("a"), Oper("=="), Num(5)>>, <<Says(A)>>), Clause(<<>>, <<Says(<<Id("b")>>)>>)>>) >>,
    << Decl("a", <<Num(3)>>), Says(<<CallTo("to_string", <<A>>)>>),
       If(<<Clause(<<Id("a"), Oper("!="), Num(3)>>, <<Says(<<Str(hello)>>)>>),
            Clause(<<>>, <<CallTo("exit", <<Plus(Id("a"), Num(256))>>)>>)>>), Says(<<Str(7)>>) >>,
    << Decl("a", Plus(Num(1), CallTo("to_number", << <<Str(7)>> >>))), Says(A), Give(A), Give(A) >>,
    << Says(<<Id("a")>>) >> >>

MCFiles == DOMAIN MCSourceOf
MCImages == {ImageOf(Compiled[f]) : f \in MCFiles}

MCText == {hello, none, exact}
MCBytes == [text \in MCText \cup {7} |->
               CASE text = hello -> <<104, 105>> [] text = none -> <<>>
                 [] text = exact -> <<97, 98, 99>> [] OTHER -> <<55>>]
=============================================================================
