------------------------------- MODULE Bytecode -------------------------------
(***************************************************************************)
(* `seascript file --preserve' compiles a source and saves it               *)
(* (save_to_file); `seascript file.ssb' loads the file and executes it      *)
(* (execute_bytecode): the compiler composed with BytecodeFile.             *)
(***************************************************************************)
EXTENDS RunFile, BytecodeFile

savedVars == <<file, fileVars>>

\* count_pool_size
StringSizes(texts) == FoldLeft(LAMBDA n, text : n + Len(Bytes[text]) + 1, 0, texts)

\* Mutant of Capacity: no room for the header.
CapacityOfBody == 8 * Len(Code) + StringSizes(Pool)

\* What save_to_file allocates.
Capacity == 8 * Len(Code) + StringSizes(Pool) + 40
-----------------------------------------------------------------------------
\* A source that is refused ends the program before anything is saved.
Init_Bytecode ==
    /\ file \in Files
    /\ image = ImageOf(Compiled[file])
    /\ Init_File(IF Accepted(file) THEN "saving" ELSE "halted")

Next_Bytecode == Next_File /\ UNCHANGED file

\* Neither process waits for anything; the second is begun some time.
BytecodeSpec == Init_Bytecode /\ [][Next_Bytecode]_savedVars /\ WF_savedVars(Next_Bytecode)
-----------------------------------------------------------------------------
\* Calls have three arguments at most, and nothing returns a value.
RECURSIVE Small(_)
RECURSIVE SmallTerms(_)
SmallTerms(e) == \A i \in DOMAIN e :
    e[i].type = "FUNCTIONCALL" => /\ Len(e[i].args) <= 3
                                  /\ \A a \in DOMAIN e[i].args : SmallTerms(e[i].args[a])
Small(source) == \A i \in DOMAIN source :
    LET s == source[i]
    IN  CASE s.type \in {"VARIABLE", "REASSIGN"} -> SmallTerms(s.states)
          [] s.type = "FUNCTIONCALL" -> SmallTerms(<<s>>)
          [] s.type = "FUNCTION" -> Small(s.scope)
          [] s.type = "IFSTATEMENT" ->
                \A c \in DOMAIN s.clauses : /\ SmallTerms(s.clauses[c].condition)
                                            /\ \A k \in DOMAIN s.clauses[c].scope :
                                                 Small(s.clauses[c].scope[k])
          [] OTHER -> FALSE
SmallFiles == [f \in Files |-> Small(SourceOf[f])]

(* save_to_file allocates eight bytes an instruction, and LOADC takes nine.  *)
(* What else a statement needs makes up for it as long as calls have no more *)
(* than three arguments: no byte is written past the end of the buffer.      *)
BufferHolds ==
    SmallFiles[file] => write_cursor + (IF terminated THEN 1 ELSE 0) <= Capacity

(* --preserve writes bytecode "onto a file which can be executed"            *)
(* (README.md:39): what was loaded does what the source means, when the      *)
(* bytes left unwritten happen to be zero.                                   *)
LoadedMatches == phase = "executing" /\ ~dirty => OutputMatches

(* Saving and loading come to an end, and so does what was loaded.  The two  *)
(* loops of read_from_file stop where the cursor is equal to the size: they  *)
(* meet it, to the byte, or go on beyond the file.  What takes them there is *)
(* a byte that was left unwritten and is not zero, and nothing else.         *)
LoadedRunEnds == <>(\/ phase \in {"halted", "past_string"}
                    \/ phase = "past_end" /\ dirty
                    \/ phase = "executing" /\ status # "running")
=============================================================================
