----------------------------- MODULE LexerProofs -----------------------------
(***************************************************************************)
(* What the lexer may rely on for every text and every size of its buffers: *)
(* tokens and strings have room, and only a quote without a partner takes   *)
(* it beyond the text.                                                      *)
(***************************************************************************)
EXTENDS Lexer, SequenceTheorems, WellFoundedInduction, TLAPS

USE SizesAssumption, PiecesAssumption

-----------------------------------------------------------------------------
(* The ends of scans.                                                        *)

Before == {p \in Nat \X Nat : p[1] < p[2]}

LEMMA FirstOf ==
  ASSUME NEW T \in SUBSET Nat, T # {}
  PROVE  \E x \in T : \A y \in T : x <= y
  <1>1. IsWellFoundedOn(Before, Nat)
    BY NatLessThanWellFounded DEF OpToRel, Before
  <1>2. T \subseteq Nat
    OBVIOUS
  <1>3. \E x \in T : \A y \in T : ~(<<y, x>> \in Before)
    BY ONLY <1>1, <1>2, T # {}, WFMin, Zenon
  <1>4. PICK x \in T : \A y \in T : ~(<<y, x>> \in Before)
    BY <1>3
  <1>5. \A y \in T : ~(y < x)
    BY <1>4 DEF Before
  <1>. QED BY <1>5

\* The text has a length, and its terminator is none of its pieces.
TextOK == /\ text \in Seq(STRING)
          /\ \A i \in DOMAIN text : text[i] # NUL

(* A run of pieces ends within the text or at its terminator.                *)
LEMMA RunEndInText ==
  ASSUME TextOK, NEW i \in 1..Len(text) + 1, NEW P, NUL \notin P
  PROVE  /\ RunEnd(i, P) \in i..Len(text) + 1
         /\ Read(i) \in P => RunEnd(i, P) > i
  <1>. DEFINE T == {j \in i..Len(text) + 1 : Read(j) \notin P}
  <1>1. Len(text) \in Nat /\ DOMAIN text = 1..Len(text)
    BY DEF TextOK
  <1>2. Len(text) + 1 \in T
    BY <1>1 DEF Read
  <1>3. T \in SUBSET Nat /\ T # {}
    BY <1>1, <1>2
  <1>4. PICK j \in T : \A k \in T : j <= k
    BY <1>3, FirstOf
  <1>5. \A k \in i..j - 1 : Read(k) \in P
    BY <1>1, <1>4
  <1>6. j \in i..Len(text) + 1 /\ Read(j) \notin P /\ \A k \in i..j - 1 : Read(k) \in P
    BY <1>4, <1>5
  <1>7. RunEnd(i, P) \in i..Len(text) + 1 /\ Read(RunEnd(i, P)) \notin P
    BY <1>6 DEF RunEnd
  <1>8. Read(i) \in P => RunEnd(i, P) # i
    BY <1>7
  <1>. HIDE DEF T
  <1>. QED BY <1>1, <1>7, <1>8

(* The end of a line is within the text or at its terminator.                *)
LEMMA EolInText ==
  ASSUME TextOK, NEW i \in 1..Len(text) + 1
  PROVE  /\ skip_to_eol(i) \in i..Len(text) + 1
         /\ Read(i) \notin {NewLine, NUL} => skip_to_eol(i) > i
  <1>. DEFINE T == {j \in i..Len(text) + 1 : Read(j) \in {NewLine, NUL}}
  <1>1. Len(text) \in Nat /\ DOMAIN text = 1..Len(text)
    BY DEF TextOK
  <1>2. Len(text) + 1 \in T
    BY <1>1 DEF Read
  <1>3. T \in SUBSET Nat /\ T # {}
    BY <1>1, <1>2
  <1>4. PICK j \in T : \A k \in T : j <= k
    BY <1>3, FirstOf
  <1>5. \A k \in i..j - 1 : Read(k) \notin {NewLine, NUL}
    BY <1>1, <1>4
  <1>6. /\ j \in i..Len(text) + 1 /\ Read(j) \in {NewLine, NUL}
        /\ \A k \in i..j - 1 : Read(k) \notin {NewLine, NUL}
    BY <1>4, <1>5
  <1>7. skip_to_eol(i) \in i..Len(text) + 1 /\ Read(skip_to_eol(i)) \in {NewLine, NUL}
    BY <1>6 DEF skip_to_eol
  <1>8. Read(i) \notin {NewLine, NUL} => skip_to_eol(i) # i
    BY <1>7
  <1>. HIDE DEF T
  <1>. QED BY <1>1, <1>7, <1>8
-----------------------------------------------------------------------------
(* The invariant.                                                            *)

IsSeq(s) == \E S : s \in Seq(S)

\* Before `current' no quote has closed the string that is scanned.
StillOpen ==
    /\ opened \in DOMAIN text /\ opened < current
    /\ text[opened] \in Quotes
    /\ \A j \in opened + 1..Len(text) :
          j < current /\ text[j] = text[opened] => j > opened + 1 /\ text[j - 1] = Backslash

TokensInv == IsSeq(tokens) /\ token_size \in Nat \ {0} /\ Len(tokens) <= token_size
StringInv == /\ IsSeq(string) /\ size \in Nat
             /\ mode = "string" => Len(string) + 1 < size
PlaceInv  == /\ current \in Nat \ {0}
             /\ mode \in {"lex", "string", "done", "outside"}
             /\ mode \in {"lex", "done"} => current <= Len(text) + 1
             /\ mode = "string" => StillOpen
             /\ mode = "outside" => opened \in DOMAIN text /\ NeverCloses(opened)
LexInv == TextOK /\ TokensInv /\ StringInv /\ PlaceInv

LEMMA LexInvMeans == LexInv => BuffersHaveRoom /\ OutsideOnlyOpenString
  <1>. SUFFICES ASSUME LexInv PROVE BuffersHaveRoom /\ OutsideOnlyOpenString
    OBVIOUS
  <1>1. BuffersHaveRoom
    BY DEF LexInv, TokensInv, StringInv, BuffersHaveRoom
  <1>2. Len(text) \in Nat
    BY DEF LexInv, TextOK
  <1>. QED BY <1>1, <1>2 DEF LexInv, PlaceInv, OutsideOnlyOpenString

LEMMA LexInvStarts == Init_Lexer => LexInv
  <1>. SUFFICES ASSUME NEW source \in Texts, lexObject_init(source) PROVE LexInv
    BY DEF Init_Lexer
  <1>1. TextOK
    BY TextsAssumption DEF lexObject_init, TextOK
  <1>2. tokens \in Seq({}) /\ Len(tokens) = 0 /\ string \in Seq({})
    BY DEF lexObject_init
  <1>3. TokensInv /\ IsSeq(string)
    BY <1>2 DEF lexObject_init, TokensInv, IsSeq
  <1>4. Len(text) \in Nat
    BY <1>1 DEF TextOK
  <1>. QED BY <1>1, <1>2, <1>3, <1>4 DEF lexObject_init, LexInv, StringInv, PlaceInv

LEMMA AppendedSeq ==
  ASSUME NEW s, IsSeq(s), NEW e
  PROVE  IsSeq(Append(s, e)) /\ Len(s) \in Nat /\ Len(Append(s, e)) = Len(s) + 1
  <1>1. PICK S : s \in Seq(S)
    BY DEF IsSeq
  <1>2. s \in Seq(S \cup {e}) /\ e \in S \cup {e}
    BY <1>1
  <1>3. Append(s, e) \in Seq(S \cup {e}) /\ Len(Append(s, e)) = Len(s) + 1 /\ Len(s) \in Nat
    BY <1>2, AppendProperties
  <1>. QED BY <1>3 DEF IsSeq

(* append_token doubles a full array before it writes.                       *)
LEMMA AppendKeeps ==
  ASSUME TokensInv, NEW token, append_token(token)
  PROVE  TokensInv'
  BY AppendedSeq DEF TokensInv, append_token

(* scan_string doubles its buffer when there is room for one character only. *)
LEMMA StoredKeeps ==
  ASSUME LexInv, mode = "string", NEW c, Stored(c)
  PROVE  IsSeq(string') /\ size' \in Nat /\ Len(string') + 1 < size'
  <1>1. IsSeq(string') /\ Len(string) \in Nat /\ Len(string') = Len(string) + 1
    BY AppendedSeq DEF Stored, LexInv, StringInv
  <1>. QED BY <1>1 DEF Stored, LexInv, StringInv
-----------------------------------------------------------------------------
(* Every step keeps it.                                                      *)

(* A scan of the loop of `lex' moves within the text and leaves strings alone. *)
LEMMA ScanKeeps ==
  ASSUME LexInv, Lexing,
         current' \in current..Len(text) + 1,
         UNCHANGED <<text, stringVars>>,
         TokensInv'
  PROVE  LexInv'
  <1>1. Len(text) \in Nat /\ text' = text /\ mode' = "lex"
    BY DEF LexInv, TextOK, Lexing, stringVars
  <1>2. TextOK'
    BY <1>1 DEF LexInv, TextOK
  <1>3. StringInv'
    BY <1>1 DEF LexInv, StringInv, stringVars
  <1>4. PlaceInv'
    BY <1>1 DEF LexInv, PlaceInv
  <1>. QED BY <1>2, <1>3, <1>4 DEF LexInv

LEMMA InText ==
  ASSUME LexInv, Lexing
  PROVE  /\ Len(text) \in Nat /\ DOMAIN text = 1..Len(text)
         /\ current \in 1..Len(text) + 1
         /\ Read(current) # NUL => current + 1 \in current..Len(text) + 1
  <1>1. Len(text) \in Nat /\ DOMAIN text = 1..Len(text)
    BY DEF LexInv, TextOK
  <1>2. current \in 1..Len(text) + 1
    BY <1>1 DEF LexInv, PlaceInv, Lexing
  <1>. QED BY <1>1, <1>2 DEF Read

LEMMA UnchangedTokens ==
  ASSUME TokensInv, UNCHANGED tokenVars
  PROVE  TokensInv'
  BY DEF TokensInv, tokenVars, IsSeq

LEMMA MarksAreNotPieces ==
  /\ NUL \notin IdentifierChars \cup Digits
  /\ NUL \notin Digits \cup {"."}
  /\ NUL \notin Operators \cup Punctuators \cup Quotes \cup {NewLine}
  BY DEF Marks, NUL, Operators, Punctuators, Quotes, NewLine

LEMMA TextScanKeeps == ASSUME LexInv, scan_text PROVE LexInv'
  <1>1. RunEnd(current, IdentifierChars \cup Digits) \in current..Len(text) + 1
    BY InText, RunEndInText, MarksAreNotPieces DEF LexInv, scan_text
  <1>2. TokensInv'
    BY AppendKeeps DEF LexInv, scan_text
  <1>. QED BY <1>1, <1>2, ScanKeeps DEF scan_text

LEMMA IntScanKeeps == ASSUME LexInv, scan_int PROVE LexInv'
  <1>1. RunEnd(current, Digits \cup {"."}) \in current..Len(text) + 1
    BY InText, RunEndInText, MarksAreNotPieces DEF LexInv, scan_int
  <1>2. TokensInv'
    BY AppendKeeps DEF LexInv, scan_int
  <1>. QED BY <1>1, <1>2, ScanKeeps DEF scan_int

LEMMA OperatorScanKeeps == ASSUME LexInv, scan_operator PROVE LexInv'
  <1>1. Read(current) # NUL /\ Lexing
    BY MarksAreNotPieces DEF scan_operator, is_operator
  <1>2. current + 1 \in current..Len(text) + 1 /\ Len(text) \in Nat /\ current \in Nat
    BY <1>1, InText
  <1>3. peek(current) = "=" => current + 1 \in DOMAIN text
    BY DEF peek, Read, NUL
  <1>4. current + OperatorLength(current) \in current..Len(text) + 1
    BY <1>1, <1>2, <1>3, InText DEF OperatorLength
  <1>5. TokensInv'
    BY AppendKeeps DEF LexInv, scan_operator
  <1>. QED BY <1>1, <1>4, <1>5, ScanKeeps DEF scan_operator

LEMMA PlainScanKeeps ==
  ASSUME LexInv, SkipComment \/ ScanPunctuator \/ ScanNewLine \/ SkipCharacter
  PROVE  LexInv'
  <1>1. CASE SkipComment
    <2>1. current' \in current..Len(text) + 1
      BY <1>1, InText, EolInText DEF SkipComment, LexInv
    <2>. QED BY <1>1, <2>1, UnchangedTokens, ScanKeeps DEF SkipComment, LexInv
  <1>2. CASE ScanPunctuator
    <2>1. Read(current) # NUL
      BY <1>2, MarksAreNotPieces DEF ScanPunctuator, is_punctuator
    <2>2. TokensInv'
      BY <1>2, AppendKeeps DEF LexInv, ScanPunctuator
    <2>. QED BY <1>2, <2>1, <2>2, InText, ScanKeeps DEF ScanPunctuator
  <1>3. CASE ScanNewLine
    <2>1. Read(current) # NUL
      BY <1>3, MarksAreNotPieces DEF ScanNewLine
    <2>2. TokensInv'
      BY <1>3, AppendKeeps DEF LexInv, ScanNewLine
    <2>. QED BY <1>3, <2>1, <2>2, InText, ScanKeeps DEF ScanNewLine
  <1>4. CASE SkipCharacter
    <2>1. Read(current) # NUL
      BY <1>4 DEF SkipCharacter, Marks, NUL, Backslash
    <2>. QED BY <1>4, <2>1, InText, UnchangedTokens, ScanKeeps DEF SkipCharacter, LexInv
  <1>. QED BY <1>1, <1>2, <1>3, <1>4

LEMMA EndKeeps == ASSUME LexInv, EndOfText PROVE LexInv'
  <1>1. text' = text /\ current' = current /\ opened' = opened /\ string' = string
        /\ size' = size /\ mode' = "done" /\ mode = "lex"
    BY DEF EndOfText, Lexing
  <1>2. TokensInv'
    BY UnchangedTokens DEF LexInv, EndOfText
  <1>3. TextOK' /\ StringInv'
    BY <1>1 DEF LexInv, TextOK, StringInv
  <1>4. PlaceInv'
    BY <1>1 DEF LexInv, PlaceInv
  <1>. QED BY <1>2, <1>3, <1>4 DEF LexInv

LEMMA OpenKeeps == ASSUME LexInv, OpenString PROVE LexInv'
  <1>1. /\ text' = text /\ current' = current + 1 /\ opened' = current /\ string' = <<>>
        /\ size' = StringSize /\ mode' = "string" /\ Lexing /\ Read(current) \in Quotes
    BY DEF OpenString
  <1>2. TokensInv'
    BY UnchangedTokens DEF LexInv, OpenString
  <1>3. TextOK'
    BY <1>1 DEF LexInv, TextOK
  <1>4. StringInv'
    <2>1. <<>> \in Seq({}) /\ Len(<<>>) = 0
      OBVIOUS
    <2>. QED BY <1>1, <2>1 DEF StringInv, IsSeq
  <1>5. current \in DOMAIN text /\ text[current] \in Quotes /\ current \in Nat \ {0}
    BY <1>1, MarksAreNotPieces DEF Read, LexInv, PlaceInv
  <1>6. StillOpen'
    BY <1>1, <1>5, InText DEF StillOpen
  <1>7. PlaceInv'
    BY <1>1, <1>5, <1>6 DEF PlaceInv
  <1>. QED BY <1>2, <1>3, <1>4, <1>7 DEF LexInv

(* In a string each character read, and each character that an escape hides, *)
(* leaves it open.                                                           *)
LEMMA StringStepKeeps ==
  ASSUME LexInv, InString,
         mode' = mode, text' = text, opened' = opened,
         UNCHANGED tokenVars,
         NEW c, Stored(c),
         \/ current' = current + 1 /\ Read(current) # string_end
         \/ current' = current + 2 /\ Read(current) = Backslash
  PROVE  LexInv'
  <1>1. TokensInv'
    BY UnchangedTokens DEF LexInv
  <1>2. TextOK'
    BY DEF LexInv, TextOK
  <1>3. StringInv'
    BY StoredKeeps DEF InString, StringInv
  <1>4. /\ Len(text) \in Nat /\ DOMAIN text = 1..Len(text)
        /\ current \in Nat \ {0} /\ opened \in 1..Len(text) /\ StillOpen
    BY DEF LexInv, TextOK, PlaceInv, InString, StillOpen
  <1>5. ASSUME NEW j \in opened + 1..Len(text), j < current', text[j] = text[opened]
        PROVE  j > opened + 1 /\ text[j - 1] = Backslash
    <2>1. CASE j < current
      BY <1>4, <1>5, <2>1 DEF StillOpen
    <2>2. CASE j = current
      <3>1. Read(current) = text[opened]
        BY <1>4, <1>5, <2>2 DEF Read
      <3>2. text[opened] # Backslash
        BY <1>4 DEF StillOpen, Quotes, Backslash
      <3>. QED BY <3>1, <3>2 DEF string_end
    <2>3. CASE j = current + 1
      <3>1. current' = current + 2 /\ Read(current) = Backslash
        BY <1>4, <1>5, <2>3
      <3>2. current \in DOMAIN text
        BY <1>4, <1>5, <2>3
      <3>. QED BY <1>4, <1>5, <2>3, <3>1, <3>2 DEF Read, StillOpen
    <2>. QED BY <1>4, <1>5, <2>1, <2>2, <2>3
  <1>6. StillOpen'
    BY <1>4, <1>5 DEF StillOpen
  <1>7. PlaceInv'
    BY <1>4, <1>6 DEF PlaceInv, InString
  <1>. QED BY <1>1, <1>2, <1>3, <1>7 DEF LexInv

LEMMA InStringKeeps == ASSUME LexInv, ScanCharacter \/ ScanEscape PROVE LexInv'
  <1>1. CASE ScanCharacter
    BY <1>1, StringStepKeeps DEF ScanCharacter
  <1>2. CASE ScanEscape
    BY <1>2, StringStepKeeps DEF ScanEscape
  <1>. QED BY <1>1, <1>2

LEMMA CloseKeeps == ASSUME LexInv, CloseString PROVE LexInv'
  <1>1. /\ text' = text /\ mode' = "lex" /\ current' = current + 1 /\ string' = string
        /\ size' = size /\ opened' = opened /\ mode = "string"
    BY DEF CloseString, InString
  <1>2. TokensInv'
    BY AppendKeeps DEF LexInv, CloseString
  <1>3. TextOK' /\ StringInv'
    BY <1>1 DEF LexInv, TextOK, StringInv
  <1>4. Read(current) \in Quotes
    BY <1>1 DEF CloseString, string_end, LexInv, PlaceInv, StillOpen
  <1>5. current \in DOMAIN text /\ DOMAIN text = 1..Len(text) /\ Len(text) \in Nat
    BY <1>4, MarksAreNotPieces DEF Read, LexInv, TextOK
  <1>6. PlaceInv'
    BY <1>1, <1>5 DEF PlaceInv
  <1>. QED BY <1>2, <1>3, <1>6 DEF LexInv

LEMMA LeaveKeeps == ASSUME LexInv, LeaveText PROVE LexInv'
  <1>1. /\ text' = text /\ mode' = "outside" /\ current' = current /\ string' = string
        /\ size' = size /\ opened' = opened /\ mode = "string" /\ current > Len(text) + 1
    BY DEF LeaveText
  <1>2. TokensInv'
    BY UnchangedTokens DEF LexInv, LeaveText
  <1>3. TextOK' /\ StringInv'
    BY <1>1 DEF LexInv, TextOK, StringInv
  <1>4. StillOpen /\ Len(text) \in Nat /\ DOMAIN text = 1..Len(text) /\ current \in Nat
    BY <1>1 DEF LexInv, PlaceInv, TextOK
  <1>5. opened \in DOMAIN text /\ NeverCloses(opened)
    BY <1>1, <1>4 DEF StillOpen, NeverCloses
  <1>6. PlaceInv'
    BY <1>1, <1>5 DEF LexInv, PlaceInv, NeverCloses
  <1>. QED BY <1>2, <1>3, <1>6 DEF LexInv

LEMMA LexInvKept == LexInv /\ [lex]_lexVars => LexInv'
  <1>. SUFFICES ASSUME LexInv, [lex]_lexVars PROVE LexInv'
    OBVIOUS
  <1>1. CASE UNCHANGED lexVars
    BY <1>1 DEF lexVars, LexInv, TextOK, TokensInv, StringInv, PlaceInv, StillOpen, NeverCloses, IsSeq
  <1>2. CASE scan_text \/ scan_int \/ scan_operator
    BY <1>2, TextScanKeeps, IntScanKeeps, OperatorScanKeeps
  <1>3. CASE SkipComment \/ ScanPunctuator \/ ScanNewLine \/ SkipCharacter
    BY <1>3, PlainScanKeeps
  <1>4. CASE EndOfText \/ OpenString
    BY <1>4, EndKeeps, OpenKeeps
  <1>5. CASE ScanCharacter \/ ScanEscape
    BY <1>5, InStringKeeps
  <1>6. CASE CloseString \/ LeaveText
    BY <1>6, CloseKeeps, LeaveKeeps
  <1>. QED BY <1>1, <1>2, <1>3, <1>4, <1>5, <1>6 DEF lex

LEMMA LexInvAlways == LexSpec => []LexInv
  BY LexInvStarts, LexInvKept, PTL DEF LexSpec

(* Whatever the text, a token and a character of a string always find room   *)
(* in the lexer's buffers (lex, get_string).                                 *)
THEOREM BuffersSuffice == LexSpec => []BuffersHaveRoom
  <1>1. LexInv => BuffersHaveRoom
    BY LexInvMeans
  <1>. QED BY LexInvAlways, <1>1, PTL

(* Whatever the text, the lexer reads beyond it only when a string is left   *)
(* open.                                                                     *)
THEOREM LexerStaysInText == LexSpec => []OutsideOnlyOpenString
  <1>1. LexInv => OutsideOnlyOpenString
    BY LexInvMeans
  <1>. QED BY LexInvAlways, <1>1, PTL
-----------------------------------------------------------------------------
(* Each turn of the loops reads on.                                          *)

LEMMA TurnsAdvance ==
  ASSUME LexInv, lex
  PROVE  mode' \in {"done", "outside"} \/ current' > current
  <1>1. current \in Nat /\ TextOK
    BY DEF LexInv, PlaceInv
  <1>2. CASE scan_text
    <2>1. RunEnd(current, IdentifierChars \cup Digits) > current
      BY <1>1, <1>2, InText, RunEndInText, MarksAreNotPieces DEF scan_text
    <2>. QED BY <1>2, <2>1 DEF scan_text
  <1>3. CASE scan_int
    <2>1. RunEnd(current, Digits \cup {"."}) > current
      BY <1>1, <1>3, InText, RunEndInText, MarksAreNotPieces DEF scan_int
    <2>. QED BY <1>3, <2>1 DEF scan_int
  <1>4. CASE SkipComment
    <2>1. Read(current) \notin {NewLine, NUL}
      BY <1>4 DEF SkipComment, CommentHere, NewLine, NUL
    <2>2. skip_to_eol(current) > current
      BY <1>1, <1>4, <2>1, InText, EolInText DEF SkipComment
    <2>. QED BY <1>4, <2>2 DEF SkipComment
  <1>5. CASE scan_operator
    <2>1. OperatorLength(current) \in {1, 2}
      BY DEF OperatorLength
    <2>. QED BY <1>1, <1>5, <2>1 DEF scan_operator
  <1>6. CASE \/ ScanPunctuator \/ ScanNewLine \/ SkipCharacter
             \/ OpenString \/ ScanCharacter \/ ScanEscape \/ CloseString
    BY <1>1, <1>6 DEF ScanPunctuator, ScanNewLine, SkipCharacter, OpenString, ScanCharacter,
                      ScanEscape, CloseString
  <1>7. CASE EndOfText \/ LeaveText
    BY <1>7 DEF EndOfText, LeaveText
  <1>. QED BY <1>2, <1>3, <1>4, <1>5, <1>6, <1>7 DEF lex

LEMMA TokensStay ==
  ASSUME LexInv, lex
  PROVE  \A i \in DOMAIN tokens : i \in DOMAIN tokens' /\ tokens'[i] = tokens[i]
  <1>1. \/ UNCHANGED tokenVars
        \/ \E token : append_token(token)
    BY DEF lex, SkipComment, scan_text, scan_operator, ScanPunctuator, scan_int, ScanNewLine,
           SkipCharacter, EndOfText, OpenString, ScanCharacter, ScanEscape, CloseString, LeaveText
  <1>2. CASE UNCHANGED tokenVars
    BY <1>2 DEF tokenVars
  <1>3. ASSUME NEW token, append_token(token)
        PROVE  \A i \in DOMAIN tokens : i \in DOMAIN tokens' /\ tokens'[i] = tokens[i]
    <2>1. PICK S : tokens \in Seq(S)
      BY DEF LexInv, TokensInv, IsSeq
    <2>2. tokens \in Seq(S \cup {token}) /\ token \in S \cup {token}
      BY <2>1
    <2>3. tokens' = Append(tokens, token)
      BY <1>3 DEF append_token
    <2>. QED BY <2>2, <2>3, AppendProperties
  <1>. QED BY <1>1, <1>2, <1>3

(* LexingAdvances: whatever the text, a turn of the lexer's loops reads on or *)
(* is the last, so that there are no more turns than the text has characters. *)
THEOREM LexerReadsOn == LexSpec => LexingAdvances
  <1>1. LexInv /\ [lex]_lexVars
          => [/\ mode' \in {"done", "outside"} \/ current' > current
              /\ \A i \in DOMAIN tokens : i \in DOMAIN tokens' /\ tokens'[i] = tokens[i]]_lexVars
    BY TurnsAdvance, TokensStay
  <1>. QED BY <1>1, LexInvAlways, PTL DEF LexSpec, LexingAdvances
=============================================================================
