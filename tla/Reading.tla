------------------------------- MODULE Reading -------------------------------
(***************************************************************************)
(* Reading a source: the lexer, then the parser, on the text of a file      *)
(* (compile_and_run of src/seascript.c).  A file is a source, written out   *)
(* in one of several layouts, and the tree that is read must be that of the *)
(* source: Compiler's parse, which RunFile and Shell start from.  Or it is  *)
(* a text that nobody wrote with care.                                      *)
(***************************************************************************)
EXTENDS Lexer, Parser, TLC

CONSTANTS
    Files,            \* the source files, numbered from 1; 0 is a text of Texts
    SourceOf,         \* the statements of each
    Layouts           \* how a source may be written; ended: also the last statement of
                      \* a scope has its `;'

ASSUME LayoutsAssumption ==
    Layouts \subseteq [lines : BOOLEAN, ended : BOOLEAN, spaces : BOOLEAN, comments : BOOLEAN]

VARIABLES
    file, layout,     \* what the text was written from
    tree              \* what parse returned

readVars == <<file, layout, tree, lexVars>>
NotRead == [states |-> <<>>, fate |-> "none"]
-----------------------------------------------------------------------------
(* Sources in writing: first the tokens, then the text.                      *)

Word(w)  == Token(w, "IDENTIFIER")
Key(w)   == Token(w, "KEYWORD")
Op(w)    == Token(w, "OPERATOR")
Punct(w) == Token(w, "PUNCTUATOR")
LineEnd(l) == IF l.lines THEN <<Token(NewLine, "TNEWLINE")>> ELSE <<>>

Joined(seqs) == FoldLeft(LAMBDA s, t : s \o t, <<>>, seqs)
Separated(seqs, sep) ==
    Joined([i \in DOMAIN seqs |-> IF i = 1 THEN seqs[i] ELSE <<sep>> \o seqs[i]])

RECURSIVE WrittenTerm(_)
WrittenTerms(e) == Joined([i \in DOMAIN e |-> WrittenTerm(e[i])])
WrittenTerm(term) ==
    CASE term.type = "NUMBER"     -> <<Token(ToString(term.value), "ILITERAL")>>
      [] term.type = "STRING"     -> <<Token(term.value, "SLITERAL")>>
      [] term.type = "IDENTIFIER" -> <<Word(term.value)>>
      [] term.type = "OPERATOR"   -> <<Op(term.value)>>
      [] term.type = "FUNCTIONCALL" ->
            <<Word(term.name), Punct("(")>>
            \o Separated([i \in DOMAIN term.args |-> WrittenTerms(term.args[i])], Op(","))
            \o <<Punct(")")>>

RECURSIVE Written(_, _)
Block(scope, l) == <<Punct("{")>> \o (IF scope = <<>> THEN <<>> ELSE LineEnd(l) \o Written(scope, l))
                   \o <<Punct("}")>>
\* Between the braces of a clause: nothing, what is no statement, or a scope.
Blank(l) == <<Punct("{")>> \o (IF l.lines THEN LineEnd(l) ELSE <<Op(";")>>) \o <<Punct("}")>>
ClauseBlock(scope, l) == IF scope = << <<>> >> THEN Blank(l)
                         ELSE Block(IF scope = <<>> THEN <<>> ELSE scope[1], l)
WrittenClause(clauses, i, l) ==
    LET e == clauses[i].condition
    IN  <<Key(IF i = 1 THEN "if" ELSE IF e = <<>> THEN "else" ELSE "elseif")>>
        \o WrittenTerms(e) \o ClauseBlock(clauses[i].scope, l)
WrittenStatement(s, l) ==
    CASE s.type = "VARIABLE" ->
            <<Key("decl"), Word(s.name)>>
            \o (IF s.initialized THEN <<Op("=")>> \o WrittenTerms(s.states) ELSE <<>>)
      [] s.type = "REASSIGN" -> <<Word(s.name), Op("=")>> \o WrittenTerms(s.states)
      [] s.type = "FUNCTIONCALL" -> WrittenTerm(s)
      [] s.type = "RETURN" -> <<Key("return")>> \o WrittenTerms(s.states)
      [] s.type = "FUNCTION" ->
            <<Key("function"), Word(s.name), Punct("(")>>
            \o Separated([i \in DOMAIN s.arguments |-> <<Word(s.arguments[i])>>], Op(","))
            \o <<Punct(")")>> \o Block(s.scope, l)
      [] s.type = "IFSTATEMENT" ->
            Joined([i \in DOMAIN s.clauses |-> WrittenClause(s.clauses, i, l)])
\* Behind a statement; one without a value is never left open.
Valued(s) == \/ s.type = "FUNCTIONCALL"
             \/ s.type \in {"VARIABLE", "REASSIGN", "RETURN"} /\ s.states # <<>>
Ending(source, i, l) ==
    IF \/ source[i].type \in {"FUNCTION", "IFSTATEMENT"}
       \/ ~l.ended /\ i = Len(source) /\ Valued(source[i])
    THEN <<>> ELSE <<Op(";")>>
Written(source, l) ==
    Joined([i \in DOMAIN source |->
               WrittenStatement(source[i], l) \o Ending(source, i, l) \o LineEnd(l)])

\* Everything else that is spelled with more than one piece is a number.
PiecesOf(value) ==
    CASE value = "=="  -> <<"=", "=">>
      [] value = "!="  -> <<"!", "=">>
      [] value = "//"  -> <<"/", "/">>
      [] value = "12"  -> <<"1", "2">>
      [] OTHER         -> <<value>>

Comment(l) == IF l.comments THEN <<"/", "/", "double_quote", " ", "a">> ELSE <<>>
Pieces(token, l) ==
    CASE token.token = "TNEWLINE" -> Comment(l) \o <<NewLine>>
      [] token.token = "SLITERAL" ->
            LET quote == IF token.value = "double_quote" THEN "single_quote" ELSE "double_quote"
            IN  <<quote>> \o PiecesOf(token.value) \o <<quote>>
      [] OTHER -> PiecesOf(token.value)

Gap(one, next, l) ==
    IF l.spaces \/ {one.token, next.token} \subseteq {"IDENTIFIER", "KEYWORD", "ILITERAL"}
    THEN <<" ">> ELSE <<>>

TextOf(toks, l) ==
    Joined([i \in DOMAIN toks |-> IF i = 1 THEN Pieces(toks[i], l)
                                  ELSE Gap(toks[i - 1], toks[i], l) \o Pieces(toks[i], l)])
    \o (IF l.lines THEN <<>> ELSE Comment(l))
-----------------------------------------------------------------------------
\* What is written, and the tree it should have.
TokensOf == [f \in Files, l \in Layouts |-> Written(SourceOf[f], l)]
Meant == [f \in Files |-> IF Redeclares(SourceOf[f])
                          THEN [states |-> <<>>, fate |-> "thrown"]
                          ELSE [states |-> parse(SourceOf[f]), fate |-> "ok"]]

\* A closing space, before the terminator.
read_file(source) == Append(source, " ")

Init_Reading ==
    /\ layout \in Layouts
    /\ \/ file \in Files /\ lexObject_init(read_file(TextOf(TokensOf[file, layout], layout)))
       \/ file = 0 /\ \E source \in Texts : lexObject_init(read_file(source))
    /\ tree = NotRead

Lex == lex /\ UNCHANGED <<file, layout, tree>>

ParseFile ==
    /\ mode = "done" /\ tree = NotRead
    /\ tree' = parse_tokens(lex_Object(tokens, Len(tokens)))
    /\ UNCHANGED <<file, layout, lexVars>>

ReadingSpec == Init_Reading /\ [][Lex \/ ParseFile]_readVars /\ WF_readVars(Lex)
-----------------------------------------------------------------------------
(* The tokens are those that were written, however the text is spaced, cut   *)
(* into lines and commented ("same token output",                            *)
(* tests/language/test_lex.ssc:5), quotes in comments, comment marks and the *)
(* other quote in strings included.                                          *)
TokensAsWritten == mode = "done" /\ file # 0 => tokens = TokensOf[file, layout]

\* Strings that the parser takes for marks, for it compares values only.
MarkStrings == {"(", ")", "{", "}", ",", ";"}
StringsAreTold == \A i \in DOMAIN tokens :
                     tokens[i].token = "SLITERAL" => tokens[i].value \notin MarkStrings

ReadAsWritten == /\ tree.fate = Meant[file].fate
                 /\ tree.fate = "ok" => tree.states = Meant[file].states
HasBeenRead == file # 0 /\ tree # NotRead /\ StringsAreTold

(* A file with a line break behind each statement reads as what was written: *)
(* each statement ends where it should, whatever it nests, a name declared   *)
(* twice in a scope is refused, and the parser never leaves its tokens.      *)
LinesReadAsWritten == HasBeenRead /\ layout.lines /\ layout.ended => ReadAsWritten

\* Scopes left open: by a statement, or by the call behind a return, that the
\* parser skips to the end of.
Open(s) == Valued(s) /\ (s.type = "RETURN" => ReparsedCall(s.states) # <<>>)
RECURSIVE OpensBranch(_)
OpensBranch(source) ==
    \E i \in DOMAIN source :
        \/ source[i].type = "FUNCTION" /\ OpensBranch(source[i].scope)
        \/ /\ source[i].type = "IFSTATEMENT"
           /\ \E c \in DOMAIN source[i].clauses :
                 LET scope == source[i].clauses[c].scope
                 IN  \E k \in DOMAIN scope : \/ scope[k] # <<>> /\ Open(Last(scope[k]))
                                             \/ OpensBranch(scope[k])
LeftOpen == {f \in Files : Valued(Last(SourceOf[f])) \/ OpensBranch(SourceOf[f])}

(* A last statement without its `;' but with a line break is read beyond the *)
(* tokens of its scope, the line break being what is last, when it is the    *)
(* last one of the file or of a branch.  In a function it is not, for there  *)
(* the brace is last, and it reads as written (skip_to_end).                 *)
OpenReadBeyond ==
    HasBeenRead /\ ~layout.ended /\ Meant[file].fate = "ok" =>
        IF file \in LeftOpen THEN tree.fate = "outside" ELSE ReadAsWritten

(* The scopes that lose something when no line break follows them: the       *)
(* brace that should be dropped at the end of an if is the last token of its *)
(* scope, and the token before it is dropped instead.                        *)
RECURSIVE EndsBare(_)
EndsBare(source) ==
    /\ source # <<>>
    /\ LET s == Last(source)
       IN  \/ s.type = "IFSTATEMENT"
           \/ s.type = "FUNCTION" /\ (s.scope = <<>> \/ EndsBare(s.scope))
           \/ s.type = "RETURN" /\ s.states = <<>>
RECURSIVE NestsBare(_)
NestsBare(source) ==
    \E i \in DOMAIN source :
        \/ source[i].type = "FUNCTION" /\ NestsBare(source[i].scope)
        \/ /\ source[i].type = "IFSTATEMENT"
           /\ \E c \in DOMAIN source[i].clauses :
                 LET scope == source[i].clauses[c].scope
                 IN  \E k \in DOMAIN scope : EndsBare(scope[k]) \/ NestsBare(scope[k])

(* "you can fit everything in 1 line" (tests/language/whitespace.ssc:1): the *)
(* same of a file without line breaks, unless an if, an empty function or a  *)
(* return without value is what the file or the branch of an if ends with.   *)
EndsLost == {f \in Files : EndsBare(SourceOf[f]) \/ NestsBare(SourceOf[f])}
OneLineReadAsWritten ==
    HasBeenRead /\ ~layout.lines /\ file \notin EndsLost => ReadAsWritten
=============================================================================
