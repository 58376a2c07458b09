-------------------------------- MODULE Lexer --------------------------------
(***************************************************************************)
(* The lexer (src/lex.c): from the text of a source to its tokens, one scan *)
(* of the loop of `lex' after the other.  A text is a sequence of pieces: a *)
(* mark, a quote, a digit, or a piece of a word, whose letters nothing      *)
(* tells apart.  Pieces of a word that touch are one word.  Position        *)
(* Len(text) + 1 is that of the terminator.                                 *)
(*                                                                         *)
(* The string literal is scanned piece by piece, into a buffer that grows;  *)
(* its loop looks for the quote only, never for the end of the text.        *)
(***************************************************************************)
EXTENDS Integers, Sequences, SequencesExt

CONSTANTS
    Texts,            \* the texts that may be read
    IdentifierChars,  \* pieces of words
    Digits,           \* pieces of numbers
    StringSize,       \* the first size of a string's buffer, 85
    TokenSize         \* the first size of the tokens, 250

NewLine == "newline"
Backslash == "backslash"
NUL == "NUL"
Quotes == {"double_quote", "single_quote"}
Operators == {".", ",", ">", "<", "+", "-", "*", "/", "=", ";", "!"}
Punctuators == {"(", ")", "[", "]", "{", "}"}
Marks == {NewLine, Backslash, NUL} \cup Quotes \cup Operators \cup Punctuators

ss_keywords == {"if", "function", "while", "break", "return", "decl", "local", "load",
                "for", "in", "not", "and", "or", "else", "elseif"}

ASSUME SizesAssumption == /\ StringSize \in Nat /\ StringSize >= 2
                          /\ TokenSize \in Nat \ {0}
ASSUME PiecesAssumption == /\ IdentifierChars \cap (Marks \cup Digits) = {}
                           /\ Digits \cap Marks = {}
ASSUME TextsAssumption == \A t \in Texts : t \in Seq(STRING) /\ \A i \in DOMAIN t : t[i] # NUL

VARIABLES
    text,             \* object->source
    current,          \* the position that is read
    mode,             \* "lex", "string", "done", or "outside" the text
    opened,           \* where the string that is scanned has its first quote
    string,           \* the pieces of the string so far
    size,             \* size of its buffer
    tokens,           \* object->tokens
    token_size

lexVars == <<text, current, mode, opened, string, size, tokens, token_size>>
stringVars == <<mode, opened, string, size>>
tokenVars == <<tokens, token_size>>
-----------------------------------------------------------------------------
Read(i) == IF i \in DOMAIN text THEN text[i] ELSE NUL
peek(i) == Read(i + 1)
is_operator(c) == c \in Operators
is_punctuator(c) == c \in Punctuators

Token(value, type) == [value |-> value, token |-> type]
Spelled(pieces) == FoldLeft(LAMBDA word, c : word \o c, "", pieces)
WordToken(word) == Token(word, IF word \in ss_keywords THEN "KEYWORD" ELSE "IDENTIFIER")

append_token(token) ==
    /\ tokens' = Append(tokens, token)
    /\ token_size' = IF Len(tokens) = token_size THEN 2 * token_size ELSE token_size

\* The first position from i on with a piece that is not in Pieces.
RunEnd(i, Pieces) == CHOOSE j \in i..Len(text) + 1 :
                        Read(j) \notin Pieces /\ \A k \in i..j - 1 : Read(k) \in Pieces
Run(i, Pieces) == Spelled(SubSeq(text, i, RunEnd(i, Pieces) - 1))
\* Mutant of skip_to_eol: it does not move.
skip_to_eol_stuck(i) == i

skip_to_eol(i) == CHOOSE j \in i..Len(text) + 1 :
                     Read(j) \in {NewLine, NUL} /\ \A k \in i..j - 1 : Read(k) \notin {NewLine, NUL}

CommentHere == Read(current) = "/" /\ peek(current) = "/"
Lexing == mode = "lex"
-----------------------------------------------------------------------------
(* The loop of `lex', one action for each of its branches.                   *)

SkipComment ==
    /\ Lexing /\ CommentHere
    /\ current' = skip_to_eol(current)
    /\ UNCHANGED <<text, stringVars, tokenVars>>

scan_text ==
    LET word == IdentifierChars \cup Digits
    IN  /\ Lexing /\ Read(current) \in IdentifierChars
        /\ current' = RunEnd(current, word)
        /\ append_token(WordToken(Run(current, word)))
        /\ UNCHANGED <<text, stringVars>>

\* Mutant of OperatorLength: the second character is never taken.
OperatorLength_of_one(i) == 1

\* <, >, = and ! take an equals sign that follows.
OperatorLength(i) ==
    IF Read(i) \in {"<", ">", "=", "!"} /\ peek(i) = "=" THEN 2 ELSE 1

scan_operator ==
    LET length == OperatorLength(current)
    IN  /\ Lexing /\ is_operator(Read(current)) /\ ~CommentHere
        /\ current' = current + length
        /\ append_token(Token(Spelled(SubSeq(text, current, current + length - 1)), "OPERATOR"))
        /\ UNCHANGED <<text, stringVars>>

ScanPunctuator ==
    /\ Lexing /\ is_punctuator(Read(current))
    /\ current' = current + 1
    /\ append_token(Token(Read(current), "PUNCTUATOR"))
    /\ UNCHANGED <<text, stringVars>>

scan_int ==
    LET number == Digits \cup {"."}
    IN  /\ Lexing /\ Read(current) \in Digits
        /\ current' = RunEnd(current, number)
        /\ append_token(Token(Run(current, number), "ILITERAL"))
        /\ UNCHANGED <<text, stringVars>>

ScanNewLine ==
    /\ Lexing /\ Read(current) = NewLine
    /\ current' = current + 1
    /\ append_token(Token(NewLine, "TNEWLINE"))
    /\ UNCHANGED <<text, stringVars>>

SkipCharacter ==
    /\ Lexing
    /\ Read(current) \notin IdentifierChars \cup Digits \cup (Marks \ {Backslash})
    /\ current' = current + 1
    /\ UNCHANGED <<text, stringVars, tokenVars>>

EndOfText ==
    /\ Lexing /\ Read(current) = NUL
    /\ mode' = "done"
    /\ UNCHANGED <<text, current, opened, string, size, tokenVars>>
-----------------------------------------------------------------------------
(* scan_string.                                                              *)

OpenString ==
    /\ Lexing /\ Read(current) \in Quotes
    /\ mode' = "string"
    /\ current' = current + 1
    /\ opened' = current
    /\ string' = <<>>
    /\ size' = StringSize
    /\ UNCHANGED <<text, tokenVars>>

\* Mutant of string_end: a string always ends with the same quote.
string_end_double == "double_quote"

string_end == text[opened]

\* The terminator is a character like any other; what follows it is not of the text.
InString == mode = "string" /\ current <= Len(text) + 1

\* The buffer doubles once it has room for the terminator only.
Stored(c) == /\ string' = Append(string, c)
             /\ size' = IF Len(string) + 2 = size THEN 2 * size ELSE size

ScanCharacter ==
    /\ InString /\ Read(current) \notin {string_end, Backslash}
    /\ current' = current + 1
    /\ Stored(Read(current))
    /\ UNCHANGED <<text, mode, opened, tokenVars>>

\* Mutant of ScanEscape: the buffer grows for other characters only.
ScanEscape_without_room ==
    /\ InString /\ Read(current) = Backslash
    /\ current' = current + 2
    /\ string' = Append(string, Backslash)
    /\ UNCHANGED <<text, mode, opened, size, tokenVars>>

\* The switch looks at the backslash itself: every escape is a backslash, and
\* the character after it is not looked at.
ScanEscape ==
    /\ InString /\ Read(current) = Backslash
    /\ current' = current + 2
    /\ Stored(Backslash)
    /\ UNCHANGED <<text, mode, opened, tokenVars>>

\* Mutant of CloseString: `return current++' in the place of `return ++current'.
CloseString_at_quote ==
    /\ InString /\ Read(current) = string_end
    /\ mode' = "lex"
    /\ append_token(Token(Spelled(string), "SLITERAL"))
    /\ UNCHANGED <<text, current, opened, string, size>>

CloseString ==
    /\ InString /\ Read(current) = string_end
    /\ mode' = "lex"
    /\ current' = current + 1
    /\ append_token(Token(Spelled(string), "SLITERAL"))
    /\ UNCHANGED <<text, opened, string, size>>

\* Beyond the terminator the loop reads what the heap holds.
LeaveText ==
    /\ mode = "string" /\ current > Len(text) + 1
    /\ mode' = "outside"
    /\ UNCHANGED <<text, current, opened, string, size, tokenVars>>
-----------------------------------------------------------------------------
lexObject_init(source) ==
    /\ text = source
    /\ current = 1
    /\ mode = "lex"
    /\ opened = 0 /\ string = <<>> /\ size = StringSize
    /\ tokens = <<>> /\ token_size = TokenSize

lex == \/ SkipComment \/ scan_text \/ scan_operator \/ ScanPunctuator \/ scan_int
       \/ ScanNewLine \/ SkipCharacter \/ EndOfText
       \/ OpenString \/ ScanCharacter \/ ScanEscape \/ CloseString \/ LeaveText

Init_Lexer == \E source \in Texts : lexObject_init(source)
LexSpec == Init_Lexer /\ [][lex]_lexVars /\ WF_lexVars(lex)
-----------------------------------------------------------------------------
(* append_token and scan_string write before they look at the size again: a  *)
(* token is never written beyond the array, and a string's next character    *)
(* and its terminator always have room in its buffer.                        *)
BuffersHaveRoom ==
    /\ Len(tokens) <= token_size
    /\ mode = "string" => Len(string) < size

(* The lexer reads beyond the text only in a string literal whose quote has   *)
(* no partner: every later quote of its kind comes right after a backslash.  *)
NeverCloses(i) == /\ text[i] \in Quotes
                  /\ \A j \in i + 1..Len(text) :
                        text[j] = text[i] => j > i + 1 /\ text[j - 1] = Backslash
OutsideOnlyOpenString ==
    /\ current > Len(text) + 1 => mode \in {"string", "outside"}
    /\ mode = "outside" => opened \in DOMAIN text /\ NeverCloses(opened)

(* The loops have no bound but the text: each turn either ends the lexer or   *)
(* reads on, never at the same place again and never back, and what has been *)
(* made a token stays one.                                                   *)
LexingAdvances ==
    [][/\ mode' \in {"done", "outside"} \/ current' > current
       /\ \A i \in DOMAIN tokens : i \in DOMAIN tokens' /\ tokens'[i] = tokens[i]]_lexVars

(* Every text is lexed to an end, or to where the program reads memory that  *)
(* is not the text's.                                                        *)
LexingEnds == <>(mode \in {"done", "outside"})
=============================================================================
