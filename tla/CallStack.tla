------------------------------ MODULE CallStack ------------------------------
(***************************************************************************)
(* What CALL and RET promise, without frames, frame numbers or saved        *)
(* addresses: activations nest.  A caller is remembered whole, as it is     *)
(* when it calls, and goes on as it was, at the instruction after the call. *)
(***************************************************************************)
EXTENDS Integers, Sequences

CONSTANT Depth      \* calls that may be open at a time

VARIABLES
    callers,    \* the activations that wait for a callee, the latest last
    at,         \* the instruction being executed
    operands,   \* the operands of the current activation
    cells       \* its locals

vars == <<callers, at, operands, cells>>

Nothing == [id \in {} |-> 0]

Init ==
    /\ callers = <<>>
    /\ at = 0
    /\ operands = <<>>
    /\ cells = Nothing

\* The current activation goes on by itself.
Work ==
    /\ UNCHANGED callers
    /\ at' \in Int

Waiting == [site |-> at, operands |-> operands, cells |-> cells]

\* The callee is given nothing of its caller.
Call ==
    /\ Len(callers) < Depth
    /\ callers' = Append(callers, Waiting)
    /\ at' \in Int
    /\ operands' = <<>>
    /\ cells' = Nothing

\* The caller is given nothing of its callee.
Return ==
    /\ callers # <<>>
    /\ LET caller == callers[Len(callers)]
       IN  /\ at' = caller.site + 1
           /\ operands' = caller.operands
           /\ cells' = caller.cells
    /\ callers' = SubSeq(callers, 1, Len(callers) - 1)

Next == Work \/ Call \/ Return

Spec == Init /\ [][Next]_vars
=============================================================================
