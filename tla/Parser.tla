-------------------------------- MODULE Parser --------------------------------
(***************************************************************************)
(* The parser (src/parser.c), token by token: from the tokens of a scope to *)
(* its statements, in the form that Compiler compiles.  A lex_Object is      *)
(* [tokens, used]: the scope of an if has one token more than it uses.  A    *)
(* position i stands for the pointer current_token; the first token has     *)
(* is_start, and is_end what is used last and what lies behind it.          *)
(*                                                                         *)
(* Marks, names and the texts of strings are compared alike, by value.      *)
(* What comes of a scope is its fate: "ok", "thrown" when ss_throw ends the *)
(* program, "outside" when the parser reads or writes beyond the tokens.    *)
(***************************************************************************)
EXTENDS Compiler

Outside == [value |-> "", token |-> "OUTSIDE"]
lex_Object(tokens, used) == [tokens |-> tokens, used |-> used]
At(toks, i) == IF i \in DOMAIN toks.tokens THEN toks.tokens[i] ELSE Outside
Value(toks, i) == At(toks, i).value
IsStart(i) == i = 1
Beyond(toks, i) == i > Len(toks.tokens)
IsEnd(toks, i) == i >= toks.used /\ ~Beyond(toks, i)
-----------------------------------------------------------------------------
(* What the tokens around a position say of it.                              *)

is_function_call(toks, i) ==
    /\ ~IsEnd(toks, i) /\ Value(toks, i + 1) = "("
    /\ IsStart(i) \/ Value(toks, i - 1) # "function"
is_function_definition(toks, i) ==
    ~IsStart(i) /\ Value(toks, i + 1) = "(" /\ Value(toks, i - 1) = "function"
is_variable_declaration(toks, i) == ~IsStart(i) /\ Value(toks, i - 1) = "decl"
is_variable_reassignment(toks, i) ==
    /\ ~IsEnd(toks, i) /\ At(toks, i).token = "IDENTIFIER" /\ Value(toks, i + 1) = "="
    /\ IsStart(i) \/ Value(toks, i - 1) # "decl"
is_array_index(toks, i) ==
    ~IsEnd(toks, i) /\ At(toks, i).token = "IDENTIFIER" /\ Value(toks, i + 1) = "["

\* From a call to its closing parenthesis, over the calls between.
RECURSIVE skip_to_end_call(_, _)
skip_to_end_call(toks, i) ==
    IF Beyond(toks, i) \/ Value(toks, i) = ")" THEN i
    ELSE skip_to_end_call(toks, LET next == i + 1
                                IN  IF is_function_call(toks, next)
                                    THEN skip_to_end_call(toks, next) + 1 ELSE next)

FirstFrom(toks, i, Stops(_)) ==
    LET found == {j \in i..Len(toks.tokens) : Stops(j)}
    IN  IF found = {} THEN Len(toks.tokens) + 1 ELSE Min(found)

\* Mutant of skip_to_end: a line break stops it too when it is the last token.
skip_to_end_at_line_break(toks, i, end) ==
    FirstFrom(toks, i, LAMBDA j : Value(toks, j) = end \/ IsEnd(toks, j))

\* Whether a token is the last is not looked at when it is a line break.
skip_to_end(toks, i, end) ==
    FirstFrom(toks, i, LAMBDA j : \/ Value(toks, j) = end
                                  \/ IsEnd(toks, j) /\ At(toks, j).token # "TNEWLINE")
SkipNewLines(toks, i) == FirstFrom(toks, i, LAMBDA j : At(toks, j).token # "TNEWLINE")
-----------------------------------------------------------------------------
(* Expressions.  A parsed term is [term, fate]; terms under way are [i, done, *)
(* fate], done being what is parsed so far.                                  *)

\* Numbers of up to two digits; what has a point is a number apart.
atof(digits) == IF \E n \in 0..99 : ToString(n) = digits
                THEN CHOOSE n \in 0..99 : ToString(n) = digits ELSE "decimal"

\* An operator that has no meaning is a pointer to nothing.
parse_operator(toks, i) ==
    Oper(IF Value(toks, i) \in MeantOps THEN Value(toks, i) ELSE "uninitialized")

Parsed(term) == [term |-> term, fate |-> "ok"]
Lost(fate)   == [term |-> Oper("none"), fate |-> fate]
Fated(run, fate) == [run EXCEPT !.fate = fate]

RECURSIVE parse_value(_, _)

\* The last token of the term at i.  In an argument or an index that of another
\* index is its name.
ValueEnd(toks, i) == IF is_function_call(toks, i) THEN skip_to_end_call(toks, i) ELSE i
TermEnd(toks, i) == IF is_array_index(toks, i) /\ ~is_function_call(toks, i)
                    THEN skip_to_end(toks, i, "]") ELSE ValueEnd(toks, i)
WithTerm(run, v, next) ==
    [i |-> next, fate |-> v.fate,
     done |-> IF v.fate = "ok" THEN Append(run.done, v.term) ELSE run.done]

\* Arguments: done is the argument under way, args those before it.
RECURSIVE Arguments(_, _)
Arguments(toks, run) ==
    LET value == Value(toks, run.i)
        Closed == Append(run.args, run.done)
    IN  CASE run.fate # "ok" -> run
          [] run.fate = "ok" /\ Beyond(toks, run.i) -> Fated(run, "outside")
          [] value = ")" -> [run EXCEPT !.args = Closed]
          [] OTHER ->
                Arguments(toks,
                    CASE value = "," -> [run EXCEPT !.args = Closed, !.done = <<>>, !.i = @ + 1]
                      [] At(toks, run.i).token = "TNEWLINE" -> [run EXCEPT !.i = @ + 1]
                      [] OTHER -> WithTerm(run, parse_value(toks, run.i), ValueEnd(toks, run.i) + 1)
                                  @@ run)

CallOf(name, run) == [term |-> CallTo(name, run.args), fate |-> run.fate]
parse_function_call(toks, i) ==
    CallOf(Value(toks, i),
           Arguments(toks, [i |-> i + 2, done |-> <<>>, args |-> <<>>, fate |-> "ok"]))

RECURSIVE IndexTerms(_, _)
IndexTerms(toks, run) ==
    CASE run.fate # "ok" -> run
      [] run.fate = "ok" /\ Beyond(toks, run.i) -> Fated(run, "outside")
      [] Value(toks, run.i) = "]" -> run
      [] OTHER -> IndexTerms(toks, WithTerm(run, parse_value(toks, run.i),
                                            ValueEnd(toks, run.i) + 1))
IndexOf(name, run) == [term |-> Term("INDEX", <<name, run.done>>), fate |-> run.fate]
parse_array_index(toks, i) ==
    IndexOf(Value(toks, i), IndexTerms(toks, [i |-> i + 2, done |-> <<>>, fate |-> "ok"]))

\* ss_unreachable ends the program as well.
parse_value(toks, i) ==
    CASE is_function_call(toks, i) -> parse_function_call(toks, i)
      [] is_array_index(toks, i) -> parse_array_index(toks, i)
      [] OTHER ->
            CASE At(toks, i).token = "ILITERAL"   -> Parsed(Num(atof(Value(toks, i))))
              [] At(toks, i).token = "SLITERAL"   -> Parsed(Str(Value(toks, i)))
              [] At(toks, i).token = "IDENTIFIER" -> Parsed(Id(Value(toks, i)))
              [] At(toks, i).token = "OPERATOR"   -> Parsed(parse_operator(toks, i))
              [] OTHER                            -> Lost("thrown")

\* Terms up to `end'.  The last token of a scope is never one of them.
RECURSIVE Terms(_, _, _)
Terms(toks, end, run) ==
    CASE run.fate # "ok" -> run
      [] run.fate = "ok" /\ Beyond(toks, run.i) -> Fated(run, "outside")
      [] Value(toks, run.i) = end \/ IsEnd(toks, run.i) -> run
      [] OTHER -> Terms(toks, end, WithTerm(run, parse_value(toks, run.i),
                                     SkipNewLines(toks, TermEnd(toks, run.i) + 1)))
parse_statement(toks, i, end) == Terms(toks, end, [i |-> i, done |-> <<>>, fate |-> "ok"])
-----------------------------------------------------------------------------
(* Scopes.                                                                   *)

\* Mutant of Depth: braces that open within a scope are not counted.
Depth_flat(toks, i, j) == 0 - Cardinality({k \in i..j : Value(toks, k) = "}"})

Depth(toks, i, j) == Cardinality({k \in i..j : Value(toks, k) = "{"})
                     - Cardinality({k \in i..j : Value(toks, k) = "}"})

\* The tokens behind `{' up to the one that closes it, which is of them unless it
\* is the last token of all.  Without any, is_end goes to the token before.
Collected(toks, first, close) ==
    LET inside == SubSeq(toks.tokens, first, IF IsEnd(toks, close) \/ Beyond(toks, close)
                                               THEN close - 1 ELSE close)
    IN  [at |-> close, tokens |-> inside,
         fate |-> IF Beyond(toks, close) THEN "outside"
                  ELSE IF IsEnd(toks, close) /\ Value(toks, close) # "}" THEN "thrown"
                  ELSE IF inside = <<>> THEN "outside" ELSE "ok"]
CollectFrom(toks, first) ==
    Collected(toks, first,
              FirstFrom(toks, first, LAMBDA j : IsEnd(toks, j) \/ Depth(toks, first, j) < 0))
collect_tokens_from_scope(toks, i) ==
    CollectFrom(toks, IF Value(toks, i) = "{" THEN i + 1 ELSE i)

RECURSIVE parse_tokens(_)
ScopeOf(scope, toks) == IF scope.fate # "ok" THEN [states |-> <<>>, fate |-> scope.fate]
                        ELSE parse_tokens(toks)

\* close is where the parameters end; names are the tokens between the commas.
FunctionOf(toks, i, close, scope, body) ==
    LET names == SelectSeq(SubSeq(toks.tokens, i + 3, close - 1), LAMBDA t : t.value # ",")
    IN  [at |-> scope.at,
         state |-> Function(Value(toks, i + 1), [k \in DOMAIN names |-> names[k].value], body.states),
         fate |-> IF \E k \in DOMAIN names : names[k].token # "IDENTIFIER" THEN "thrown"
                  ELSE IF Beyond(toks, close + 1) THEN "outside"
                  ELSE IF Value(toks, close + 1) # "{" THEN "thrown" ELSE body.fate]
FunctionWith(toks, i, close, scope) ==
    FunctionOf(toks, i, close, scope,
               ScopeOf(scope, lex_Object(scope.tokens, Len(scope.tokens))))
FunctionTo(toks, i, close) ==
    FunctionWith(toks, i, close, collect_tokens_from_scope(toks, close + 1))
parse_function_definition(toks, i) ==
    FunctionTo(toks, i, FirstFrom(toks, i + 2, LAMBDA j : Value(toks, j) = ")"))

\* The last token collected is not used, for it should be the closing brace.
ClauseTokens(tokens) == lex_Object(tokens, Len(tokens) - 1)

\* The clauses from i on, at `if' or `elseif' or `else', as [at, clauses, fate].
RECURSIVE parse_if_statement(_, _)
Preceded(clause, rest) == [rest EXCEPT !.clauses = <<clause>> \o @]
RestOfIf(toks, i, at, fate) ==
    IF /\ fate = "ok" /\ ~IsEnd(toks, at) /\ Value(toks, i) # "else"
       /\ Value(toks, at + 1) \in {"elseif", "else"}
    THEN parse_if_statement(toks, at + 1)
    ELSE [at |-> at, clauses |-> <<>>, fate |-> fate]
ClauseOf(toks, i, condition, at, body) ==
    Preceded(ClauseTo(condition.done, body.scope),
             RestOfIf(toks, i, at, IF condition.fate = "ok" THEN body.fate ELSE condition.fate))
\* The scope is NULL only when no token is left, not when no statement is.
Pointed(parsed) == [scope |-> <<parsed.states>>, fate |-> parsed.fate]
ClauseBody(scope) ==
    IF scope.fate = "ok" /\ Len(scope.tokens) = 1 THEN [scope |-> <<>>, fate |-> "ok"]
    ELSE Pointed(ScopeOf(scope, ClauseTokens(scope.tokens)))
ClauseWith(toks, i, condition, scope) ==
    ClauseOf(toks, i, condition, scope.at, ClauseBody(scope))
Condition(toks, i) == IF Value(toks, i) = "else" THEN [i |-> i, done |-> <<>>, fate |-> "ok"]
                      ELSE parse_statement(toks, i + 1, "{")
parse_if_statement(toks, i) ==
    ClauseWith(toks, i, Condition(toks, i),
        collect_tokens_from_scope(toks,
            skip_to_end(toks, IF Value(toks, i) = "else" THEN i ELSE i + 1, "{")))
-----------------------------------------------------------------------------
(* Statements.  A parsed statement is [at, state, fate]; the parser goes on  *)
(* behind `at'.                                                              *)

Statement(at, state, fate) == [at |-> at, state |-> state, fate |-> fate]

variable_declared(name, states) ==
    \E k \in DOMAIN states : states[k].type = "VARIABLE" /\ states[k].name = name

Declared(end, name, unset, value) ==
    IF unset THEN Statement(end, DeclOnly(name), "ok")
    ELSE Statement(end, Decl(name, value.done), value.fate)
parse_variable_declaration(toks, i, states) ==
    IF variable_declared(Value(toks, i + 1), states) THEN Statement(i, Give(<<>>), "thrown")
    ELSE IF Beyond(toks, i + 2) THEN Statement(i, Give(<<>>), "outside")
    ELSE Declared(skip_to_end(toks, i, ";"), Value(toks, i + 1), Value(toks, i + 2) = ";",
                  parse_statement(toks, i + 3, ";"))

Assigned(end, name, unknown, value) ==
    Statement(end, Assign(name, value.done), IF unknown THEN "thrown" ELSE value.fate)
parse_variable_reassignment(toks, i) ==
    Assigned(skip_to_end(toks, i, ";"), Value(toks, i),
             ~IsStart(i) /\ At(toks, i - 1).token = "IDENTIFIER",
             parse_statement(toks, i + 2, ";"))

\* Mutant of ReturnEnd: the statement is skipped like any other.
ReturnEnd_skipping(toks, i) == skip_to_end(toks, i, ";")

\* A return is not skipped: its expression is looked at again.
ReturnEnd(toks, i) == i

Returned(at, value) == <<Statement(at, Give(value.done), value.fate)>>
Branched(parsed) == <<Statement(parsed.at, If(parsed.clauses), parsed.fate)>>
Evaluated(end, parsed) == <<Statement(end, parsed.term, parsed.fate)>>

\* The statement at a keyword; a keyword of another kind is passed, as <<>>.
KeywordStatement(toks, i, states) ==
    IF Beyond(toks, i + 1) THEN <<Statement(i, Give(<<>>), "outside")>>
    ELSE IF is_variable_declaration(toks, i + 1)
         THEN <<parse_variable_declaration(toks, i, states)>>
    ELSE IF Beyond(toks, i + 2) THEN <<Statement(i, Give(<<>>), "outside")>>
    ELSE CASE is_function_definition(toks, i + 1) -> <<parse_function_definition(toks, i)>>
           [] Value(toks, i) = "return" ->
                Returned(ReturnEnd(toks, i), parse_statement(toks, i + 1, ";"))
           [] Value(toks, i) = "if" -> Branched(parse_if_statement(toks, i))
           [] OTHER -> <<>>
IdentifierStatement(toks, i) ==
    CASE is_function_call(toks, i) ->
            Evaluated(skip_to_end(toks, i, ";"), parse_function_call(toks, i))
      [] is_variable_reassignment(toks, i) -> <<parse_variable_reassignment(toks, i)>>
      [] is_array_index(toks, i) ->
            Evaluated(skip_to_end(toks, i, "]"), parse_array_index(toks, i))
      [] OTHER -> <<>>
StatementAt(toks, i, states) ==
    CASE At(toks, i).token = "KEYWORD"    -> KeywordStatement(toks, i, states)
      [] At(toks, i).token = "IDENTIFIER" -> IdentifierStatement(toks, i)
      [] OTHER                            -> <<>>

\* The loop of parse: one statement, or one token that starts none, at a time.
WithStatement(run, found) ==
    IF found = <<>> THEN [run EXCEPT !.i = @ + 1]
    ELSE [i |-> found[1].at + 1, done |-> Append(run.done, found[1].state),
          fate |-> found[1].fate]
RECURSIVE ParseFrom(_, _)
ParseFrom(toks, run) ==
    IF run.i = toks.used + 1 \/ run.fate # "ok" THEN run
    ELSE IF Beyond(toks, run.i) THEN Fated(run, "outside")
    ELSE ParseFrom(toks, WithStatement(run, StatementAt(toks, run.i, run.done)))
ScopeParsed(run) == [states |-> run.done, fate |-> run.fate]
parse_tokens(toks) ==
    ScopeParsed(ParseFrom(toks, [i |-> 1, done |-> <<>>, fate |-> "ok"]))
=============================================================================
