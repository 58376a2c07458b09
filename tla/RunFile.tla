------------------------------- MODULE RunFile -------------------------------
(***************************************************************************)
(* `seascript file': compile_and_run of src/seascript.c, the parser and the *)
(* compiler composed with the SeaVM.  What the run prints is compared with  *)
(* the meaning of the source (Semantics).                                   *)
(***************************************************************************)
EXTENDS Semantics

CONSTANTS
    Files,          \* the source files
    SourceOf        \* the statements of each

VARIABLE file

runVars == <<file, vars>>

Compiled == [f \in Files |-> CompileSource(SourceOf[f], init_reftable(FALSE))]

\* ss_throw ends the program with code 1 before anything is executed.
compile_and_run(f) ==
    /\ file = f
    /\ prog = ImageOf(Compiled[f])
    /\ ip = 0
    /\ vm_init
    /\ status = IF Compiled[f].err THEN "exit" ELSE "running"
    /\ exit_code = IF Compiled[f].err THEN 1 ELSE 0
    /\ out = <<>>

Init_RunFile == \E f \in Files : compile_and_run(f)
Next_RunFile == Next /\ UNCHANGED file

RunFileSpec == Init_RunFile /\ [][Next_RunFile]_runVars /\ WF_runVars(Next_RunFile)
-----------------------------------------------------------------------------
Meanings == [f \in Files |-> Meaning(SourceOf[f])]
Accepted(f) == ~Compiled[f].err

(* A source that compiles and whose meaning is defined does what it means:   *)
(* it never prints anything else, and when it ends it has printed all of it  *)
(* and ended the way it should, at the end of the program or in exit() with  *)
(* its argument.  It cannot fail: no fault is an end that it means.          *)
OutputMatches ==
    LET m == Meanings[file]
    IN  Accepted(file) /\ m.ok =>
            /\ IsPrefix(out, m.out)
            /\ status # "running" =>
                  /\ out = m.out
                  /\ status = IF m.end = "exit" THEN "exit" ELSE "success"
                  /\ exit_code = m.code

(* Well-formed sources compile to code that the machine can be trusted with  *)
(* (Verified), with jumps forward only: what VerifiedCode proves of a run    *)
(* holds of theirs.                                                          *)
CompiledCodeVerifies ==
    ip = 0 /\ Accepted(file) /\ WellFormed(SourceOf[file]) =>
        JumpsForward(prog.code) /\ Verified(prog, MinDepth(prog.code))

(* Whatever the source, the compiled program comes to an end.                *)
RunEnds == <>(status # "running")

(* push_variable "returns its global id" (src/compiler.c:202): an id is the  *)
(* id of one variable, when no name is declared twice.                       *)
GlobalIdsDistinct ==
    Accepted(file) /\ NamesUnique(SourceOf[file]) =>
        LET refs == Compiled[file].refs
        IN  \A i, j \in DOMAIN refs : refs[i].ref = refs[j].ref => i = j

(* "Storing return value in variable: global var = foo(); // ok"             *)
(* (tests/language/function_call.ssc:13-15): a variable declared with a call *)
(* of a function that returns a number ends with that number.                *)
ReturnedValueStored ==
    LET s == SourceOf[file]
        Gives(f, n) == f.type = "FUNCTION" /\ f.scope = <<Give(<<Num(n)>>)>>
        Takes(v, f) == v.type = "VARIABLE" /\ v.states = <<CallTo(f.name, <<>>)>>
    IN  \A i, j \in DOMAIN s : \A n \in 0..MaxNumber :
            Gives(s[i], n) /\ Takes(s[j], s[i]) /\ status # "running" =>
                LET ref == get_reference_by_name(Compiled[file], s[j].name)
                IN  status = "success" /\ globals[ref] = Number(n)
=============================================================================
