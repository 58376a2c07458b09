------------------------------ MODULE SeaVMCalls ------------------------------
(***************************************************************************)
(* The SeaVM's frames implement activations that nest (CallStack): the      *)
(* frames below the current one are the callers, each with the address that *)
(* its call saved.                                                          *)
(***************************************************************************)
EXTENDS SeaVM

\* The activation that waits in the k-th frame, counted from 1.
Caller(k) == [site     |-> return_addresses[k - 1],
              operands |-> stack[k - 1],
              cells    |-> locals[k - 1]]

Calls == INSTANCE CallStack WITH
    callers  <- [k \in 1..sp |-> Caller(k)],
    at       <- ip,
    operands <- stack[sp],
    cells    <- locals[sp],
    Depth    <- FrameLimit - 1

(* Whatever the code, a call hides the caller and shows the callee nothing,  *)
(* and RET brings back exactly the caller that made the call, its operands   *)
(* and locals as they were, after the call (vm.c: CALL, LBLCALL and RET).    *)
CallsNest == Calls!Spec
=============================================================================
