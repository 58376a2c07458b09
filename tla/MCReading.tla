------------------------------ MODULE MCReading ------------------------------
(* Sources: a statement of each kind, followed by each of a set of statements *)
(* with functions and branches around several scopes; sources with strings    *)
(* that look like marks; and texts that nobody wrote with care.               *)
EXTENDS Reading

A == <<Id("a")>>
Says(e) == CallTo("print", <<e>>)
Set == Assign("a", <<Id("a"), Oper("+"), Num(12)>>)
Fun(body) == Function("f", <<"a", "b">>, body)
Branch(scope) == If(<<Clause(<<Id("a"), Oper("=="), Num(1)>>, scope)>>)
Chain(x, y, z) == If(<<Clause(A, x), Clause(<<Id("true")>>, y), Clause(<<>>, z)>>)
Call2 == CallTo("f", << <<Says(<<Num(2)>>), Oper("*"), Id("a")>>, <<CallTo("f", <<>>)>> >>)

Simple == << Decl("a", <<Num(1)>>), Set, Call2, Give(<<Id("a"), Oper("-"), Says(A)>>) >>
Scopes == <<
    << >>, <<Set>>, <<DeclOnly("a"), Says(A)>>, <<Give(<<>>)>>,
    << Branch(<<Call2>>) >>, << Fun(<<Set>>), Set >>, << Set, Fun(<<>>) >>, << Set, Branch(<<>>), Call2 >>,
    << DeclOnly("b"), Fun(<<DeclOnly("b")>>), DeclOnly("b") >> >>
Blocks == Joined([i \in DOMAIN Scopes |->
                     << Fun(Scopes[i]), Branch(Scopes[i]), Chain(<<Set>>, Scopes[i], <<Set>>),
                        Chain(<<Set>>, <<Call2>>, Scopes[i]) >>])
Statements == Simple \o Blocks

Others == <<
    << Branch(<<Branch(<<Set>>), Set>>), Fun(<<Fun(<<Give(A)>>), Branch(<<Set>>), Give(<<>>)>>), Set >>,
    << Set, Fun(<<Branch(<<Says(A)>>), Give(A)>>) >>,
    << Fun(<<Set, Fun(<<Call2>>), Branch(<<Give(A)>>), Set>>), Branch(<<Set, Give(A)>>) >>,
    << If(<<BlankClause(A), Clause(A, <<Set>>), BlankClause(A), BlankClause(<<>>)>>), Fun(<<If(<<BlankClause(A)>>), Set>>),
       If(<<Clause(A, <<>>), BlankClause(<<>>)>>), Set >>,
    << If(<<BlankClause(A)>>), Fun(<<Give(<<Says(A)>>)>>) >>,
    << Give(<<CallTo("f", <<A, <<Str("]")>> >>), Oper("<"), Call2>>), Assign("b", <<Str("=")>>) >>,
    << Says(<<Str("double_quote")>>), Says(<<Str("single_quote"), Oper("!="), Str("//")>>), Set >>,
    << Says(<<Str(")")>>), Set >>,
    << Assign("b", <<Id("a"), Oper("+"), Str("(")>>), Set >>,
    << Fun(<<DeclOnly("b"), Says(<<Str("}")>>)>>), Says(<<Str(";")>>) >> >>

\* Files are numbered: the first statement is a simple one or one of each block.
First == Simple \o << Fun(<<Set>>), Branch(<<Set>>), Chain(<<Set>>, <<>>, <<Call2>>) >>
F == Len(First)
MCFiles == 1..Len(Others) + F * Len(Statements)
MCSourceOf == [f \in MCFiles |->
    IF f <= Len(Others) THEN Others[f]
    ELSE LET k == f - Len(Others) - 1
         IN  << First[(k % F) + 1], Statements[(k \div F) + 1] >>]

\* Comments or spaces, with line breaks or without; or the last `;' left out.
MCLayouts == {l \in [lines : BOOLEAN, ended : BOOLEAN, spaces : BOOLEAN, comments : BOOLEAN] :
                 /\ l.spaces # l.comments
                 /\ ~l.ended => l.lines /\ l.spaces}
MCTexts == {
    <<"double_quote", "a">>, <<"single_quote", "a", "single_quote">>,
    <<"single_quote", "double_quote", "a", "single_quote", "1", ".", "2">>,
    <<"double_quote", "a", "backslash", "double_quote", "a">>,
    <<"single_quote", "a", "backslash">>,
    <<"double_quote", "backslash", "a", "backslash", "backslash", "a", "double_quote", "/", "a">>,
    <<"double_quote", "backslash", "backslash", "double_quote", "single_quote">>,
    <<"a", "1", "backslash", "<", "=", ">", ">", "!", "!", "=", "=">>,
    <<"if", "(", "a", "{", "a", "=", "newline">>, <<"if", "a", "newline">>, <<"if", "{">>,
    <<"function", "a", "(", ")", "{">>, <<"a", "[", "newline">>, <<"a", "(", ")", "newline">>,
    <<"a", "=", "1", "newline">>, <<"decl">>, <<"/", "/", "single_quote">>, <<>> }
MCIdentifierChars == {"a", "b", "f", "print", "true", "decl", "function", "return", "if", "else",
                      "elseif"}
MCDigits == {"1", "2"}
=============================================================================
