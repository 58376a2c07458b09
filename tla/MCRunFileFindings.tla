-------------------------- MODULE MCRunFileFindings --------------------------
(* Sources on which the program does not do what the repository says of it.   *)
EXTENDS RunFile

Says(name) == CallTo("print", << <<Id(name)>> >>)

MCSourceOf == <<
    << Function("f", <<>>, <<Give(<<Num(3)>>)>>), Decl("c", <<CallTo("f", <<>>)>>), Says("c") >>,
    << Decl("a", <<Num(1)>>), Function("f", <<>>, <<Decl("b", <<Num(2)>>)>>),
       CallTo("f", <<>>), Says("a") >> >>

MCFiles == DOMAIN MCSourceOf
MCImages == {ImageOf(Compiled[f]) : f \in MCFiles}
=============================================================================
