----------------------------- MODULE VerifiedCode -----------------------------
(***************************************************************************)
(* The SeaVM on verified code: what a run of such code never does, although *)
(* vm_execute checks nothing.                                               *)
(***************************************************************************)
EXTENDS Verifier

\* For each image and each position in its code, a number of operands that are
\* on the frame's stack whenever that instruction is reached.
CONSTANT DepthAt

\* For each image and each position in its code, how many calls may be open there.
CONSTANT LevelAt

ASSUME ImagesVerified == \A image \in Images : Verified(image, DepthAt[image])
-----------------------------------------------------------------------------
Depth(i) == DepthAt[prog][i]

(* The machine is always at an instruction of the code, in the main program  *)
(* exactly when no call is open, and every open call was made from where its *)
(* nesting says: the outermost from the main program, the others from a      *)
(* function.                                                                 *)
ControlInv ==
    /\ status = "running" => /\ ip + 1 \in DOMAIN prog.code
                             /\ InMain(prog.code, ip + 1) <=> sp = 0
    /\ \A k \in 0..sp - 1 :
          /\ CallSite(k) \in DOMAIN prog.code
          /\ prog.code[CallSite(k)].op = "CALL"
          /\ InMain(prog.code, CallSite(k)) <=> k = 0

(* The depths are true of every stack in use: of the current one at the      *)
(* current instruction, of a caller's at the instruction it goes on with.    *)
DepthInv ==
    /\ status = "running" => Depth(ip + 1) <= Len(stack[sp])
    /\ \A k \in 0..sp - 1 : Depth(CallSite(k) + 1) <= Len(stack[k])

(* Verified code never reads a missing operand, never leaves the code, never *)
(* returns from the main program, never touches a cell that is not allocated.*)
(* What is left to go wrong is not in the code alone: calls too deep for the *)
(* machine, and strings that are no text.                                    *)
NoFault == status \in {"running", "success", "exit", "frame_overflow", "bad_pointer"}

\* No function calls itself, through others either, and no chain of calls is
\* longer than there are frames: the levels go up with each call.
Nested(code, level) ==
    /\ level \in [DOMAIN code -> Frames]
    /\ \A i \in DOMAIN code :
          /\ code[i].op = "CALL" => level[i] < level[code[i].arg + 1]
          /\ \A j \in Successors(code, i) : level[i] <= level[j]

(* Frames are not counted by CALL, and need not be for code whose functions  *)
(* call each other in an order: it never runs out of them.                   *)
FramesSuffice == Nested(prog.code, LevelAt[prog]) => status # "frame_overflow"

(* In code that only jumps forward no activation is ever twice at the same   *)
(* place: with each step the places of the open calls, read from the main    *)
(* program's on, get later, or one call is added.                            *)
ControlAdvances ==
    [][JumpsForward(prog.code) /\ status' = "running" =>
          \E k \in 0..sp : AdvanceAt(k)]_vars

(* Code that only jumps forward ends: recursion without end too, by running  *)
(* out of frames.                                                            *)
Termination == <>(status # "running")
=============================================================================
