---------------------------- MODULE SessionProofs ----------------------------
(***************************************************************************)
(* A shell session whose inputs all have verified code: each input finds a  *)
(* machine on which its code is safe, whatever the inputs before left.      *)
(***************************************************************************)
EXTENDS ShellMachine, VerifiedCodeProofs

USE FrameLimitAssumption, CellLimitAssumption

-----------------------------------------------------------------------------
(* The frames that are not in use hold nothing, for any code.                *)

AboveEmpty == \A k \in Frames : k > sp => stack[k] = <<>> /\ locals[k] = NoCells

\* Instructions that leave the frame, and the other frames, alone.
InFrame == \/ Nop \/ LoadConstant \/ Pop \/ Increment \/ Compare \/ Arithmetic
           \/ Store \/ Load \/ StoreLocal \/ LoadLocal
           \/ CallPrint \/ CallInput \/ CallConversion \/ CallTime

LEMMA InFrameFacts ==
  ASSUME TypeOK, InFrame
  PROVE  /\ sp' = sp
         /\ \A k \in Frames : k # sp => stack'[k] = stack[k] /\ locals'[k] = locals[k]
  <1>1. DOMAIN stack = Frames /\ DOMAIN locals = Frames
    BY DEF TypeOK
  <1>2. (\E s : Continue(s)) /\ (locals' = locals \/ StoreLocal)
    <2>1. CASE Nop \/ LoadConstant \/ Pop \/ Increment \/ Compare \/ Arithmetic
      BY <2>1 DEF Nop, LoadConstant, Pop, Increment, Compare, Arithmetic, memory
    <2>2. CASE Store \/ Load \/ StoreLocal \/ LoadLocal
      BY <2>2 DEF Store, Load, StoreLocal, LoadLocal, memory
    <2>3. CASE CallPrint \/ CallInput \/ CallConversion \/ CallTime
      BY <2>3 DEF CallPrint, CallInput, CallConversion, CallTime, memory
    <2>. QED BY <2>1, <2>2, <2>3 DEF InFrame
  <1>3. sp' = sp /\ \A k \in Frames : k # sp => stack'[k] = stack[k]
    BY <1>1, <1>2 DEF Continue, callframes
  <1>4. \A k \in Frames : k # sp => locals'[k] = locals[k]
    BY <1>1, <1>2 DEF StoreLocal
  <1>. QED BY <1>3, <1>4

LEMMA AboveStep ==
  ASSUME TypeOK, AboveEmpty, Next
  PROVE  AboveEmpty'
  <1>1. /\ DOMAIN stack = Frames /\ DOMAIN locals = Frames /\ sp \in Frames
        /\ \A k \in Frames : k \in Int
        /\ sp \in Int
    BY DEF TypeOK, Frames
  <1>2. CASE InFrame
    BY <1>1, <1>2, InFrameFacts DEF AboveEmpty
  <1>3. CASE Jump \/ JumpIf
    BY <1>3 DEF Jump, JumpIf, JumpTo, AboveEmpty, callframes, memory
  <1>4. CASE Call
    <2>1. PICK address : Enter(address)
      BY <1>4 DEF Call
    <2>2. /\ sp' = sp + 1
          /\ stack' = [stack EXCEPT ![sp + 1] = <<>>]
          /\ locals' = [locals EXCEPT ![sp + 1] = NoCells]
      BY <2>1 DEF Enter
    <2>. QED BY <1>1, <2>2 DEF AboveEmpty
  <1>5. CASE Return
    <2>1. /\ sp' = sp - 1
          /\ stack' = [stack EXCEPT ![sp] = <<>>]
          /\ locals' = [locals EXCEPT ![sp] = NoCells]
      BY <1>5 DEF Return
    <2>. QED BY <1>1, <2>1 DEF AboveEmpty
  <1>6. CASE Ending
    BY <1>6, EndingFacts DEF AboveEmpty, callframes, memory
  <1>. QED BY <1>2, <1>3, <1>4, <1>5, <1>6 DEF Next, InFrame, Ending

(* An input that is done was at an EXIT, which verified code has only in the *)
(* main program.                                                             *)
LEMMA DoneAtTop ==
  ASSUME SafeInv, Next, status' = "success"
  PROVE  sp' = 0
  <1>1. status = "running" /\ TypeOK
    BY NextRuns DEF SafeInv
  <1>2. ExitInstruction
    <2>1. CASE InFrame
      BY <1>1, <2>1 DEF InFrame, Nop, LoadConstant, Pop, Increment, Compare, Arithmetic,
             Store, Load, StoreLocal, LoadLocal, CallPrint, CallInput, CallConversion, CallTime,
             outcome
    <2>2. CASE Jump \/ JumpIf \/ Call \/ Return
      BY <1>1, <2>2 DEF Jump, JumpIf, JumpTo, Call, Enter, Return, outcome
    <2>3. CASE Ending
      BY <2>3 DEF Ending, CallExit, PrintUnknownType, EndOfCode, InvalidInstruction, WildJump,
             Underflow, FrameOverflow, FrameUnderflow, BadAddress, BadPointer, Fault, End
    <2>. QED BY <2>1, <2>2, <2>3 DEF Next, InFrame, Ending
  <1>3. cinstr.op = "EXIT" /\ sp' = sp
    BY <1>1, <1>2, ExecutingFacts DEF ExitInstruction, End, callframes
  <1>4. InMain(prog.code, ip + 1)
    BY <1>1, <1>3, RunningFacts DEF ArgumentOK
  <1>. QED BY <1>1, <1>3, <1>4, RunningFacts
-----------------------------------------------------------------------------
(* The invariant of a session.  What was executed last is of no importance   *)
(* at the prompt.                                                            *)

StateTypes ==
    /\ ip \in Int
    /\ sp \in Frames
    /\ stack \in [Frames -> Seq(Value)]
    /\ return_addresses \in [0..FrameLimit - 2 -> Int]
    /\ MemoryOK
    /\ OutcomeOK

SessionInv ==
    /\ StateTypes
    /\ StorageInv
    /\ AboveEmpty
    /\ NoFault
    /\ mode \in {"prompt", "executing", "closed"}
    /\ mode = "executing" =>
          prog \in Images /\ status = "running" /\ ControlInv /\ DepthInv
    /\ mode = "prompt" => sp = 0

LEMMA StateTypesMean == TypeOK <=> prog \in Images /\ StateTypes
  BY DEF TypeOK, StateTypes, MemoryOK, OutcomeOK

LEMMA StateTypesMeanNext == TypeOK' <=> prog' \in Images /\ StateTypes'
  BY DEF TypeOK, StateTypes, MemoryOK, OutcomeOK

LEMMA SessionStarts == Init_Machine([code |-> <<>>, pool |-> <<>>]) => SessionInv
  <1>. SUFFICES ASSUME Init_Machine([code |-> <<>>, pool |-> <<>>]) PROVE SessionInv
    OBVIOUS
  <1>1. StateTypes
    BY DEF Init_Machine, vm_init, StateTypes, MemoryOK, OutcomeOK, CellsOK, NoCells, Frames,
           Statuses, Data
  <1>2. AboveEmpty /\ StorageInv /\ NoFault
    BY DEF Init_Machine, vm_init, AboveEmpty, StorageInv, NoFault
  <1>. QED BY <1>1, <1>2 DEF Init_Machine, vm_init, SessionInv

(* The next input starts with no operand it counts on.                       *)
LEMMA BeginsSafe ==
  ASSUME SessionInv, NEW image \in Images, BeginInput(image)
  PROVE  SessionInv'
  <1>1. /\ mode = "prompt" /\ sp = 0 /\ sp' = 0 /\ prog' = image /\ ip' = 0
        /\ status' = "running" /\ mode' = "executing"
        /\ UNCHANGED <<stack, callframes, memory, exit_code, out>>
    BY DEF BeginInput, SessionInv, callframes
  <1>2. StateTypes'
    <2>1. MemoryOK'
      BY <1>1, UnchangedMemory DEF SessionInv, StateTypes
    <2>2. OutcomeOK'
      BY <1>1 DEF SessionInv, StateTypes, OutcomeOK, Statuses
    <2>. QED BY <1>1, <2>1, <2>2 DEF SessionInv, StateTypes, callframes
  <1>3. StorageInv' /\ AboveEmpty' /\ NoFault'
    BY <1>1 DEF SessionInv, StorageInv, AboveEmpty, NoFault, memory
  <1>4. Verified(image, DepthAt[image]) /\ image.code \in Seq(Instr)
    BY ImagesVerified, ImagesAssumption
  <1>5. 1 \in DOMAIN prog'.code /\ DepthAt[prog'][1] = 0
    BY <1>1, <1>4 DEF Verified
  <1>6. InMain(prog'.code, 1)
    BY DEF InMain
  <1>7. ControlInv'
    BY <1>1, <1>5, <1>6 DEF ControlInv
  <1>8. DepthInv'
    <2>1. Len(stack'[0]) \in Nat
      BY <1>2 DEF StateTypes, Frames
    <2>2. status' = "running" /\ ip' + 1 = 1 /\ sp' = 0 /\ Depth(1)' = 0
      BY <1>1, <1>5 DEF Depth
    <2>. QED BY <2>1, <2>2 DEF DepthInv, Depth
  <1>. QED BY <1>1, <1>2, <1>3, <1>7, <1>8 DEF SessionInv

LEMMA RunsSafe == ASSUME SessionInv, RunInput PROVE SessionInv'
  <1>1. SafeInv /\ Next /\ AboveEmpty
    BY StateTypesMean DEF RunInput, SessionInv, SafeInv
  <1>2. SafeInv'
    BY <1>1, SafeStep
  <1>3. StateTypes' /\ prog' \in Images
    BY <1>2, StateTypesMeanNext DEF SafeInv
  <1>4. AboveEmpty'
    BY <1>1, AboveStep DEF SafeInv
  <1>5. mode' \in {"prompt", "executing", "closed"}
    BY DEF RunInput
  <1>6. mode' = "executing" => status' = "running"
    BY DEF RunInput
  <1>7. mode' = "prompt" => sp' = 0
    <2>1. mode' = "prompt" => status' \in {"success", "end_of_code", "invalid_instruction"}
      BY DEF RunInput
    <2>2. mode' = "prompt" => status' = "success"
      BY <1>2, <2>1 DEF SafeInv, NoFault
    <2>. QED BY <1>1, <2>2, DoneAtTop
  <1>. QED BY <1>2, <1>3, <1>4, <1>5, <1>6, <1>7 DEF SessionInv, SafeInv

LEMMA NewMachineSafe == ASSUME SessionInv, NewMachine PROVE SessionInv'
  <1>1. mode = "prompt" /\ mode' = "prompt" /\ UNCHANGED <<ip, status, exit_code>>
    BY DEF NewMachine
  <1>2. StateTypes'
    BY <1>1 DEF NewMachine, SessionInv, StateTypes, MemoryOK, OutcomeOK, CellsOK, NoCells, Frames
  <1>3. AboveEmpty' /\ StorageInv' /\ NoFault'
    BY <1>1 DEF NewMachine, SessionInv, AboveEmpty, StorageInv, NoFault
  <1>. QED BY <1>1, <1>2, <1>3 DEF NewMachine, SessionInv

LEMMA SessionStays ==
  ASSUME SessionInv, UNCHANGED vars, mode' = mode \/ mode' = "closed"
  PROVE  SessionInv'
  <1>1. StateTypes' /\ StorageInv' /\ AboveEmpty' /\ NoFault'
    BY DEF SessionInv, StateTypes, MemoryOK, OutcomeOK, CellsOK, StorageInv, AboveEmpty,
           NoFault, vars, callframes, memory, outcome
  <1>2. prog' = prog /\ status' = status /\ sp' = sp
    BY DEF vars, callframes, outcome
  <1>3. (ControlInv => ControlInv') /\ (DepthInv => DepthInv')
    BY DEF ControlInv, DepthInv, CallSite, Depth, vars, callframes, outcome
  <1>. QED BY <1>1, <1>2, <1>3 DEF SessionInv

LEMMA SessionKept == SessionInv /\ [Next_Machine]_machineVars => SessionInv'
  <1>. SUFFICES ASSUME SessionInv, [Next_Machine]_machineVars PROVE SessionInv'
    OBVIOUS
  <1>1. CASE \E image \in Images : BeginInput(image)
    BY <1>1, BeginsSafe
  <1>2. CASE RunInput
    BY <1>2, RunsSafe
  <1>3. CASE NewMachine
    BY <1>3, NewMachineSafe
  <1>4. CASE Close \/ UNCHANGED machineVars
    BY <1>4, SessionStays DEF Close, machineVars
  <1>. QED BY <1>1, <1>2, <1>3, <1>4 DEF Next_Machine

LEMMA SessionSafe == MachineSpec => []SessionInv
  BY SessionStarts, SessionKept, PTL DEF MachineSpec
-----------------------------------------------------------------------------
(* Whatever verified inputs came before, the next one starts in the main     *)
(* frame, and the frames above it are empty (execute_input).                 *)
THEOREM PromptIsAtTop == MachineSpec => []PromptAtTop
  <1>1. SessionInv => PromptAtTop
    BY DEF SessionInv, PromptAtTop, AboveEmpty, Frames
  <1>. QED BY <1>1, SessionSafe, PTL

(* A session of verified inputs is as safe as each of them alone, on one     *)
(* machine that is never cleared: no operand, cell or address is missing.    *)
THEOREM SessionIsSafe == MachineSpec => []NoFault
  <1>1. SessionInv => NoFault
    BY DEF SessionInv
  <1>. QED BY <1>1, SessionSafe, PTL
=============================================================================
