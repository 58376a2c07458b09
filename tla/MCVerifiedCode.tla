---------------------------- MODULE MCVerifiedCode ----------------------------
(* Every verified program made of three instructions, EXIT, a function of two *)
(* instructions and RET: with calls, recursion and jumps forward.  And every  *)
(* one with two functions of one instruction, that call each other or not.    *)
EXTENDS VerifiedCode, FiniteSets

CONSTANT hello      \* a string

Op(op, arg) == [op |-> op, arg |-> arg]

MainAlphabet == { Op("LOADBOOL", 1), Op("ADD", 0), Op("EQ", 0), Op("POP", 0),
                  Op("JUMPIF", 3), Op("JUMP", 2), Op("CALL", 5), Op("CALLC", ss_f_print) }
BodyAlphabet == { Op("LOAD", 0), Op("STORE", 0), Op("JUMPIF", 7), Op("CALL", 5),
                  Op("CALLC", ss_f_print) }

\* Addresses: main 0 to 3, EXIT 4, the function 5 and 6, RET 7.
Layout(main, body) == [code |-> <<Op("LOADC", 2)>> \o main \o <<Op("EXIT", 0)>>
                                \o body \o <<Op("RET", 0)>>,
                       pool |-> <<hello>>]

Laid == {Layout(main, body) : main \in [1..3 -> MainAlphabet], body \in [1..2 -> BodyAlphabet]}

\* Addresses: main 0 and 1, EXIT 2, one function 3, RET 4, the other 5, RET 6.
Two(first, second, last) ==
    [code |-> <<Op("LOADC", 2), first, Op("EXIT", 0), second, Op("RET", 0), last, Op("RET", 0)>>,
     pool |-> <<>>]
Calls == {Op("CALL", 3), Op("CALL", 5)}
Twice == {Two(first, second, last) : first \in Calls, second \in Calls \cup {Op("LOAD", 0)},
                                     last \in Calls \cup {Op("LOAD", 0)}}

MCImages == {image \in Laid \cup Twice : /\ JumpsForward(image.code)
                              /\ Verified(image, MinDepth(image.code))}
MCDepthAt == [image \in MCImages |-> MinDepth(image.code)]

\* One level for the main program and for each function, such that calls nest.
Part(code, i) == Cardinality({j \in 1..i - 1 : code[j].op \in {"EXIT", "RET"}})
Levels(code) == {[i \in DOMAIN code |-> levels[Part(code, i)]] : levels \in [0..2 -> Frames]}
MCLevelAt == [image \in MCImages |->
                 IF \E level \in Levels(image.code) : Nested(image.code, level)
                 THEN CHOOSE level \in Levels(image.code) : Nested(image.code, level)
                 ELSE <<>>]
=============================================================================
