----------------------------- MODULE SeaVMProofs -----------------------------
(***************************************************************************)
(* What holds of the SeaVM for every program, and every number of frames    *)
(* and cells: types, where open calls return to, the frames of callers, and *)
(* that it implements CallStack: whatever the code, activations nest.       *)
(***************************************************************************)
EXTENDS SeaVMCalls, SequenceTheorems, TLAPS

USE FrameLimitAssumption, CellLimitAssumption

-----------------------------------------------------------------------------
(* Values.                                                                   *)

LEMMA BoolIsValue == \A b : Bool(b) \in Value
  BY DEF Bool, Value, Data

LEMMA NumberIsValue == \A n : Number(n) \in Value
  BY MaxNumberAssumption DEF Number, Value, Data

LEMMA StringIsValue == \A t \in Data : String(t) \in Value
  BY DEF String, Value, Data

LEMMA GarbageIsValue == Garbage \in Value /\ Unknown \in Value
  BY DEF Garbage, Unknown, Value, Data

LEMMA BumpIsValue == \A v \in Value, n \in Int : Bump(v, n) \in Value
  BY NumberIsValue, GarbageIsValue DEF Bump, Value, Data

LEMMA ConversionsAreValues == \A v \in Value : TextOf(v) \in Value /\ NumberOf(v) \in Value
  <1>. TAKE v \in Value
  <1>1. TextOf(v) \in Value
    BY StringIsValue DEF TextOf, Value, Data
  <1>2. NumberOf(v) \in Value
    BY BoolIsValue, NumberIsValue, GarbageIsValue DEF NumberOf, Value
  <1>. QED BY <1>1, <1>2

LEMMA ArithIsValue == \A op, a, b : Arith(op, a, b) \in Value
  BY NumberIsValue, GarbageIsValue DEF Arith

LEMMA ShownAreValues == \A v \in Value : Shown(v) \subseteq Value
  BY BoolIsValue, StringIsValue DEF Shown, Value, Data

LEMMA ExitCodeType == \A v \in Value : ExitCode(v) \in Data
  BY DEF ExitCode, Value, Data
-----------------------------------------------------------------------------
(* Operand stacks.                                                           *)

(* The current frame, and what the instructions make of it, are stacks of    *)
(* values.                                                                   *)
LEMMA FrameTypes ==
  ASSUME TypeOK
  PROVE  /\ frame \in Seq(Value)
         /\ \A v \in Value : Append(frame, v) \in Seq(Value)
         /\ Len(frame) >= 1 => /\ top \in Value
                               /\ Popped(1) \in Seq(Value)
                               /\ \A v \in Value : Append(Popped(1), v) \in Seq(Value)
         /\ Len(frame) >= 2 => /\ top2 \in Value
                               /\ \A v \in Value : Append(Popped(2), v) \in Seq(Value)
  <1>1. frame \in Seq(Value)
    BY DEF TypeOK, frame
  <1>2. Len(frame) \in Nat /\ DOMAIN frame = 1..Len(frame)
    BY <1>1
  <1>3. \A i \in 1..Len(frame) : frame[i] \in Value
    BY <1>1, <1>2
  <1>4. ASSUME NEW n \in 1..2, Len(frame) >= n
        PROVE  Popped(n) \in Seq(Value)
    BY <1>1, <1>2, <1>3, <1>4, SubSeqProperties DEF Popped
  <1>. QED BY <1>1, <1>2, <1>3, <1>4 DEF top, top2

(* The operands an instruction needs are there while it executes.            *)
LEMMA ExecutingFacts ==
  ASSUME TypeOK, NEW op, Executing(op)
  PROVE  /\ status = "running"
         /\ ip \in Nat /\ ip + 1 \in DOMAIN prog.code
         /\ cinstr = prog.code[ip + 1] /\ cinstr \in Instr
         /\ cinstr.op = op
         /\ Len(frame) >= Operands(cinstr)
  <1>1. prog.code \in Seq(Instr)
    BY ImagesAssumption DEF TypeOK
  <1>. QED BY <1>1 DEF Executing, Fetching, cinstr, TypeOK

LEMMA CallingFacts ==
  ASSUME TypeOK, NEW f, Calling(f)
  PROVE  /\ cinstr.op = "CALLC" /\ cinstr.arg = f
         /\ f \in {ss_f_print, ss_f_exit, ss_f_to_string, ss_f_to_number} => Len(frame) >= 1
  BY ExecutingFacts DEF Calling, Operands

LEMMA PoolType ==
  ASSUME TypeOK
  PROVE  \A i \in DOMAIN prog.pool : prog.pool[i] \in Data
  <1>1. prog.pool \in Seq(Int \cup Text)
    BY ImagesAssumption DEF TypeOK
  <1>. QED BY <1>1 DEF Data

LEMMA LabelAddressType == ASSUME TypeOK PROVE \A label : LabelAddress(label) \in Int
  <1>1. Len(prog.code) \in Nat
    BY ImagesAssumption DEF TypeOK
  <1>. QED BY <1>1 DEF LabelAddress

(* Writing a cell that is allocated keeps an array of cells what it is.      *)
LEMMA WithCellOK ==
  ASSUME NEW cells, NEW size \in Nat, CellsOK(cells, size), NEW v \in Value, NEW id,
         id \in 0..Grown(size, id) - 1
  PROVE  Grown(size, id) \in Nat /\ CellsOK(WithCell(cells, id, v), Grown(size, id))
  BY DEF CellsOK, WithCell, Grown

LEMMA CellIsValue ==
  ASSUME NEW cells, NEW size, CellsOK(cells, size), NEW id
  PROVE  Cell(cells, id) \in Value
  BY GarbageIsValue DEF CellsOK, Cell
-----------------------------------------------------------------------------
(* Type correctness.                                                         *)

MachineOK == /\ prog \in Images
             /\ ip \in Int
             /\ sp \in Frames
             /\ stack \in [Frames -> Seq(Value)]
             /\ return_addresses \in [0..FrameLimit - 2 -> Int]

MemoryOK == /\ global_size \in Nat
            /\ CellsOK(globals, global_size)
            /\ local_size \in [Frames -> Nat]
            /\ DOMAIN locals = Frames
            /\ \A k \in Frames : CellsOK(locals[k], local_size[k])

OutcomeOK == /\ status \in Statuses
             /\ exit_code \in Data
             /\ out \in Seq(Value)

LEMMA TypeParts == TypeOK <=> MachineOK /\ MemoryOK /\ OutcomeOK
  BY DEF TypeOK, MachineOK, MemoryOK, OutcomeOK

LEMMA TypePartsNext == TypeOK' <=> MachineOK' /\ MemoryOK' /\ OutcomeOK'
  BY DEF TypeOK, MachineOK, MemoryOK, OutcomeOK

LEMMA ContinueType ==
  ASSUME MachineOK, NEW s \in Seq(Value), Continue(s)
  PROVE  MachineOK'
  BY DEF MachineOK, Continue, callframes, Frames

LEMMA UnchangedMemory == MemoryOK /\ UNCHANGED memory => MemoryOK'
  BY DEF MemoryOK, memory, CellsOK

LEMMA UnchangedOutcome == OutcomeOK /\ UNCHANGED outcome => OutcomeOK'
  BY DEF OutcomeOK, outcome

(* Instructions that only put an allowed stack in the place of the current.  *)
LEMMA StraightType ==
  ASSUME TypeOK,
         \/ Nop \/ LoadConstant \/ Pop \/ Increment \/ Compare \/ Arithmetic
         \/ Load \/ LoadLocal \/ CallInput \/ CallConversion \/ CallTime
  PROVE  TypeOK'
  <1>1. MachineOK /\ MemoryOK /\ OutcomeOK
    BY TypeParts
  <1>2. UNCHANGED <<memory, outcome>>
    BY DEF Nop, LoadConstant, Pop, Increment, Compare, Arithmetic, Load, LoadLocal,
           CallInput, CallConversion, CallTime
  <1>3. SUFFICES \E s \in Seq(Value) : Continue(s)
    BY <1>1, <1>2, ContinueType, UnchangedMemory, UnchangedOutcome, TypePartsNext
  <1>4. CASE Nop
    BY <1>4, FrameTypes DEF Nop
  <1>5. CASE LoadConstant
    BY <1>5, FrameTypes, PoolType, BoolIsValue, NumberIsValue, StringIsValue
       DEF LoadConstant
  <1>6. CASE Pop
    BY <1>6, FrameTypes, ExecutingFacts DEF Pop, Operands
  <1>7. CASE Increment
    <2>1. Len(frame) >= 1
      <3>1. CASE Executing("INC")
        BY <3>1, ExecutingFacts DEF Operands
      <3>2. CASE Executing("DEC")
        BY <3>2, ExecutingFacts DEF Operands
      <3>. QED BY <1>7, <3>1, <3>2 DEF Increment
    <2>2. Bump(top, 1) \in Value /\ Bump(top, -1) \in Value
      BY <2>1, FrameTypes, BumpIsValue, 1 \in Int, -1 \in Int
    <2>. QED BY <1>7, <2>1, <2>2, FrameTypes DEF Increment
  <1>8. CASE Compare
    BY <1>8, FrameTypes, BoolIsValue DEF Compare
  <1>9. CASE Arithmetic
    BY <1>9, FrameTypes, ExecutingFacts, ArithIsValue DEF Arithmetic, Operands
  <1>10. CASE Load
    BY <1>1, <1>10, FrameTypes, CellIsValue DEF Load, MemoryOK
  <1>11. CASE LoadLocal
    BY <1>1, <1>11, FrameTypes, CellIsValue DEF LoadLocal, MemoryOK, MachineOK
  <1>12. CASE CallInput
    BY <1>12, FrameTypes, StringIsValue DEF CallInput, Data
  <1>13. CASE CallConversion
    <2>1. Len(frame) >= 1
      BY <1>13, CallingFacts DEF CallConversion
    <2>. QED BY <1>13, <2>1, FrameTypes, ConversionsAreValues DEF CallConversion
  <1>14. CASE CallTime
    BY <1>14, FrameTypes, GarbageIsValue DEF CallTime
  <1>. QED BY <1>4, <1>5, <1>6, <1>7, <1>8, <1>9, <1>10, <1>11, <1>12, <1>13, <1>14

(* The rest of the instructions, one lemma for each way of changing frames.  *)
LEMMA JumpType == ASSUME TypeOK, Jump \/ JumpIf PROVE TypeOK'
  <1>1. \E address \in Int : JumpTo(address)
    <2>1. cinstr.arg \in Int /\ ip + 1 \in Int
      <3>1. \E op : Executing(op)
        BY DEF Jump, JumpIf
      <3>. QED BY <3>1, ExecutingFacts DEF Instr
    <2>. QED BY <2>1, LabelAddressType DEF Jump, JumpIf
  <1>. QED BY <1>1 DEF JumpTo, TypeOK, callframes, memory, outcome, CellsOK

LEMMA CallType == ASSUME TypeOK, Call PROVE TypeOK'
  <1>1. PICK address \in Int : Enter(address)
    <2>1. CASE Executing("CALL")
      BY <2>1, ExecutingFacts, LabelAddressType DEF Call, Instr
    <2>2. CASE Executing("LBLCALL")
      BY <2>2, ExecutingFacts, LabelAddressType DEF Call, Instr
    <2>. QED BY <2>1, <2>2 DEF Call
  <1>2. sp \in 0..FrameLimit - 2
    BY <1>1 DEF Enter, TypeOK, Frames
  <1>3. MachineOK'
    <2>1. stack' \in [Frames -> Seq(Value)]
      BY <1>1, <1>2, <<>> \in Seq(Value) DEF Enter, TypeOK
    <2>2. return_addresses' \in [0..FrameLimit - 2 -> Int]
      BY <1>1, <1>2 DEF Enter, TypeOK
    <2>3. sp' \in Frames /\ ip' \in Int /\ prog' = prog
      BY <1>1, <1>2 DEF Enter, Frames
    <2>. QED BY <2>1, <2>2, <2>3 DEF TypeOK, MachineOK
  <1>4. MemoryOK'
    <2>1. \A k \in Frames : CellsOK(locals[k], local_size[k])'
      <3>. TAKE k \in Frames
      <3>1. CASE k = sp + 1
        BY <1>1, <3>1 DEF Enter, TypeOK, CellsOK, NoCells
      <3>2. CASE k # sp + 1
        BY <1>1, <3>2 DEF Enter, TypeOK, CellsOK
      <3>. QED BY <3>1, <3>2
    <2>. QED BY <1>1, <2>1 DEF Enter, TypeOK, MemoryOK, CellsOK
  <1>5. OutcomeOK'
    BY <1>1 DEF Enter, TypeOK, OutcomeOK, outcome
  <1>. QED BY <1>3, <1>4, <1>5, TypePartsNext

LEMMA ReturnType == ASSUME TypeOK, Return PROVE TypeOK'
  <1>1. sp - 1 \in 0..FrameLimit - 2 /\ sp \in Frames
    BY DEF Return, TypeOK, Frames
  <1>2. MachineOK'
    <2>1. stack' \in [Frames -> Seq(Value)]
      BY <1>1, <<>> \in Seq(Value) DEF Return, TypeOK
    <2>2. sp' \in Frames /\ ip' \in Int
      BY <1>1, SMTT(20) DEF Return, TypeOK, Frames
    <2>. QED BY <2>1, <2>2 DEF Return, TypeOK, MachineOK
  <1>3. MemoryOK'
    <2>1. \A k \in Frames : CellsOK(locals[k], local_size[k])'
      <3>. TAKE k \in Frames
      <3>1. CASE k = sp
        BY <3>1 DEF Return, TypeOK, CellsOK, NoCells
      <3>2. CASE k # sp
        BY <3>2 DEF Return, TypeOK, CellsOK
      <3>. QED BY <3>1, <3>2
    <2>. QED BY <2>1 DEF Return, TypeOK, MemoryOK, CellsOK
  <1>4. OutcomeOK'
    BY DEF Return, TypeOK, OutcomeOK, outcome
  <1>. QED BY <1>2, <1>3, <1>4, TypePartsNext

LEMMA StoreType == ASSUME TypeOK, Store PROVE TypeOK'
  <1>1. top \in Value /\ Popped(1) \in Seq(Value)
    BY ExecutingFacts, FrameTypes DEF Store, Operands
  <1>2. MachineOK'
    BY <1>1, TypeParts, ContinueType DEF Store
  <1>3. MemoryOK'
    <2>1. CellsOK(globals', global_size') /\ global_size' \in Nat
      BY <1>1, WithCellOK DEF Store, TypeOK
    <2>. QED BY <2>1 DEF Store, TypeOK, MemoryOK, CellsOK
  <1>. QED BY <1>2, <1>3, TypeParts, TypePartsNext, UnchangedOutcome DEF Store

LEMMA StoreLocalType == ASSUME TypeOK, StoreLocal PROVE TypeOK'
  <1>1. top \in Value /\ Popped(1) \in Seq(Value)
    BY ExecutingFacts, FrameTypes DEF StoreLocal, Operands
  <1>2. MachineOK'
    BY <1>1, TypeParts, ContinueType DEF StoreLocal
  <1>3. MemoryOK'
    <2>1. sp \in Frames /\ DOMAIN locals = Frames /\ local_size \in [Frames -> Nat]
      BY DEF TypeOK
    <2>2. CellsOK(locals'[sp], local_size'[sp]) /\ local_size'[sp] \in Nat
      BY <1>1, <2>1, WithCellOK DEF StoreLocal, TypeOK
    <2>3. \A k \in Frames \ {sp} : locals'[k] = locals[k] /\ local_size'[k] = local_size[k]
      BY <2>1 DEF StoreLocal
    <2>4. local_size' \in [Frames -> Nat]
      BY <2>1, <2>2 DEF StoreLocal
    <2>. QED BY <2>1, <2>2, <2>3, <2>4 DEF StoreLocal, TypeOK, MemoryOK, CellsOK
  <1>. QED BY <1>2, <1>3, TypeParts, TypePartsNext, UnchangedOutcome DEF StoreLocal

LEMMA PrintType == ASSUME TypeOK, CallPrint PROVE TypeOK'
  <1>1. top \in Value /\ \A v \in Value : Append(Popped(1), v) \in Seq(Value)
    BY CallingFacts, FrameTypes DEF CallPrint
  <1>2. MachineOK'
    BY <1>1, TypeParts, ContinueType, BoolIsValue DEF CallPrint
  <1>3. OutcomeOK'
    BY <1>1, ShownAreValues DEF CallPrint, OutcomeOK, TypeOK
  <1>. QED BY <1>2, <1>3, TypeParts, TypePartsNext, UnchangedMemory DEF CallPrint

(* The ways a run ends.                                                      *)
Ending == \/ ExitInstruction \/ CallExit \/ PrintUnknownType \/ EndOfCode
          \/ InvalidInstruction \/ WildJump \/ Underflow \/ FrameOverflow
          \/ FrameUnderflow \/ BadAddress \/ BadPointer

LEMMA EndingFacts ==
  ASSUME TypeOK, Ending
  PROVE  /\ status' \in Statuses \ {"running"}
         /\ exit_code' \in Data
         /\ ip' \in {0, ip}
         /\ UNCHANGED <<prog, stack, callframes, memory, out>>
  <1>1. CASE ExitInstruction
    BY <1>1, ExecutingFacts DEF ExitInstruction, End, Statuses, Data, Instr
  <1>2. CASE CallExit
    BY <1>2, CallingFacts, FrameTypes, ExitCodeType DEF CallExit, End, Statuses
  <1>3. CASE PrintUnknownType \/ EndOfCode \/ InvalidInstruction
    BY <1>3 DEF PrintUnknownType, EndOfCode, InvalidInstruction, End, Statuses, Data
  <1>4. CASE \/ WildJump \/ Underflow \/ FrameOverflow \/ FrameUnderflow
             \/ BadAddress \/ BadPointer
    BY <1>4 DEF WildJump, Underflow, FrameOverflow, FrameUnderflow, BadAddress, BadPointer,
                Fault, End, Faults, Statuses, Data
  <1>. QED BY <1>1, <1>2, <1>3, <1>4 DEF Ending

LEMMA EndingType == ASSUME TypeOK, Ending PROVE TypeOK'
  BY EndingFacts DEF TypeOK, callframes, memory, CellsOK

(* Every step keeps the types; every program starts with them.               *)
LEMMA TypeStep == TypeOK /\ [Next]_vars => TypeOK'
  <1>. SUFFICES ASSUME TypeOK, [Next]_vars PROVE TypeOK'
    OBVIOUS
  <1>1. CASE UNCHANGED vars
    BY <1>1 DEF vars, callframes, memory, outcome, TypeOK, CellsOK
  <1>2. CASE Next
    BY <1>2, StraightType, JumpType, CallType, ReturnType, StoreType, StoreLocalType,
       PrintType, EndingType DEF Next, Ending
  <1>. QED BY <1>1, <1>2

LEMMA TypeInit == Init => TypeOK
  BY DEF Init, vm_init, TypeOK, CellsOK, NoCells, Frames, Statuses, Data

(* TypeOK for every program, and every size of the machine.                  *)
THEOREM TypeCorrect == Spec => []TypeOK
  BY TypeInit, TypeStep, PTL DEF Spec
-----------------------------------------------------------------------------
(* Callers: their frames, and where they are.                                *)

LEMMA ContinueKeepsOthers ==
  ASSUME TypeOK, NEW s, Continue(s)
  PROVE  /\ \A k \in Frames \ {sp} : stack'[k] = stack[k]
         /\ UNCHANGED <<prog, callframes>>
  BY DEF Continue, TypeOK

(* No step writes a frame below the current one.                             *)
LEMMA CallersStep ==
  ASSUME TypeOK, [Next]_vars, NEW k \in Frames, k < sp
  PROVE  stack'[k] = stack[k] /\ locals'[k] = locals[k]
  <1>. sp \in Frames /\ k # sp /\ k # sp + 1 /\ DOMAIN stack = Frames /\ DOMAIN locals = Frames
    BY DEF TypeOK, Frames
  <1>1. CASE UNCHANGED vars
    BY <1>1 DEF vars, memory
  <1>2. CASE Jump \/ JumpIf
    BY <1>2 DEF Jump, JumpIf, JumpTo, memory
  <1>3. CASE Call
    <2>1. PICK address : Enter(address)
      BY <1>3 DEF Call
    <2>. QED BY <2>1 DEF Enter
  <1>4. CASE Return
    BY <1>4 DEF Return
  <1>5. CASE Ending
    BY <1>5, EndingFacts DEF memory
  <1>6. CASE \/ Nop \/ LoadConstant \/ Pop \/ Increment \/ Compare \/ Arithmetic
             \/ Load \/ LoadLocal \/ CallInput \/ CallConversion \/ CallTime
    <2>1. (\E s : Continue(s)) /\ UNCHANGED memory
      BY <1>6 DEF Nop, LoadConstant, Pop, Increment, Compare, Arithmetic, Load, LoadLocal,
                  CallInput, CallConversion, CallTime
    <2>. QED BY <2>1, ContinueKeepsOthers DEF memory
  <1>7. CASE Store
    BY <1>7, ContinueKeepsOthers DEF Store
  <1>8. CASE StoreLocal
    <2>1. locals'[k] = locals[k]
      BY <1>8 DEF StoreLocal
    <2>. QED BY <1>8, <2>1, ContinueKeepsOthers DEF StoreLocal
  <1>9. CASE CallPrint
    BY <1>9, ContinueKeepsOthers DEF CallPrint, memory
  <1>. QED BY <1>1, <1>2, <1>3, <1>4, <1>5, <1>6, <1>7, <1>8, <1>9 DEF Next, Ending

(* CallerFramesKept for every program.                                       *)
THEOREM CallersAreKept == Spec => CallerFramesKept
  <1>1. TypeOK /\ [Next]_vars
          => [\A k \in Frames : k < sp => stack'[k] = stack[k] /\ locals'[k] = locals[k]]_vars
    BY CallersStep
  <1>. QED BY <1>1, TypeCorrect, PTL DEF Spec, CallerFramesKept

(* A step calls, returns, or leaves the open calls as they are.              *)
LEMMA OpenCalls ==
  ASSUME TypeOK, [Next]_vars
  PROVE  /\ prog' = prog
         /\ \/ UNCHANGED callframes
            \/ /\ \E op \in {"CALL", "LBLCALL"} : Executing(op)
               /\ sp' = sp + 1 /\ sp < FrameLimit - 1
               /\ return_addresses' = [return_addresses EXCEPT ![sp] = ip]
            \/ sp' = sp - 1 /\ sp > 0 /\ UNCHANGED return_addresses
  <1>1. CASE UNCHANGED vars
    BY <1>1 DEF vars
  <1>2. CASE Jump \/ JumpIf
    BY <1>2 DEF Jump, JumpIf, JumpTo
  <1>3. CASE Call
    BY <1>3 DEF Call, Enter
  <1>4. CASE Return
    BY <1>4 DEF Return
  <1>5. CASE Ending
    BY <1>5, EndingFacts
  <1>6. CASE \/ Nop \/ LoadConstant \/ Pop \/ Increment \/ Compare \/ Arithmetic
             \/ Load \/ LoadLocal \/ CallInput \/ CallConversion \/ CallTime
    BY <1>6 DEF Nop, LoadConstant, Pop, Increment, Compare, Arithmetic, Load, LoadLocal,
                CallInput, CallConversion, CallTime, Continue
  <1>7. CASE Store \/ StoreLocal \/ CallPrint
    BY <1>7 DEF Store, StoreLocal, CallPrint, Continue
  <1>. QED BY <1>1, <1>2, <1>3, <1>4, <1>5, <1>6, <1>7 DEF Next, Ending

LEMMA ReturnsStep == TypeOK /\ ReturnsAfterCall /\ [Next]_vars => ReturnsAfterCall'
  <1>. SUFFICES ASSUME TypeOK, ReturnsAfterCall, [Next]_vars, NEW k \in 0..sp' - 1
                PROVE  /\ return_addresses'[k] + 1 \in DOMAIN prog.code
                       /\ prog.code[return_addresses'[k] + 1].op \in {"CALL", "LBLCALL"}
    BY OpenCalls DEF ReturnsAfterCall, CallSite
  <1>1. CASE UNCHANGED callframes
    BY <1>1 DEF callframes, ReturnsAfterCall, CallSite
  <1>2. CASE sp' = sp - 1 /\ UNCHANGED return_addresses
    BY <1>2 DEF ReturnsAfterCall, CallSite, TypeOK, Frames
  <1>3. CASE /\ \E op \in {"CALL", "LBLCALL"} : Executing(op)
             /\ sp' = sp + 1 /\ sp < FrameLimit - 1
             /\ return_addresses' = [return_addresses EXCEPT ![sp] = ip]
    <2>1. ip + 1 \in DOMAIN prog.code /\ prog.code[ip + 1].op \in {"CALL", "LBLCALL"}
      BY <1>3, ExecutingFacts
    <2>2. k \in 0..FrameLimit - 2 /\ sp \in 0..FrameLimit - 2
      BY <1>3 DEF TypeOK, Frames
    <2>3. CASE k = sp
      BY <1>3, <2>1, <2>2, <2>3 DEF TypeOK
    <2>4. CASE k # sp
      <3>1. k \in 0..sp - 1 /\ return_addresses'[k] = return_addresses[k]
        BY <1>3, <2>2, <2>4 DEF TypeOK
      <3>. QED BY <3>1 DEF ReturnsAfterCall, CallSite
    <2>. QED BY <2>3, <2>4
  <1>. QED BY <1>1, <1>2, <1>3, OpenCalls

(* ReturnsAfterCall for every program.                                       *)
THEOREM ReturnsGoAfterCalls == Spec => []ReturnsAfterCall
  <1>1. Init => ReturnsAfterCall
    BY DEF Init, vm_init, ReturnsAfterCall
  <1>. QED BY <1>1, ReturnsStep, TypeCorrect, PTL DEF Spec

-----------------------------------------------------------------------------
(* The callers of the activation that runs, as CallStack lists them.         *)

Callers == [k \in 1..sp |-> Caller(k)]

-----------------------------------------------------------------------------
(* Functions from 1..n are sequences of length n.                            *)

LEMMA ListLength ==
  ASSUME NEW S, NEW n \in Nat, NEW f \in [1..n -> S]
  PROVE  f \in Seq(S) /\ Len(f) = n
  <1>1. f \in Seq(S)
    BY SeqDef
  <1>2. DOMAIN f = 1..Len(f) /\ Len(f) \in Nat
    BY <1>1, LenProperties
  <1>. QED BY <1>1, <1>2

LEMMA EmptyList == ASSUME NEW f \in [1..0 -> {}] PROVE f = <<>>
  BY ListLength, EmptySeq

LEMMA ListAppended ==
  ASSUME NEW S, NEW n \in Nat, NEW f \in [1..n -> S], NEW g \in [1..n + 1 -> S],
         \A k \in 1..n : g[k] = f[k]
  PROVE  g = Append(f, g[n + 1])
  <1>1. g \in Seq(S) /\ Len(g) = n + 1 /\ g[n + 1] \in S
    BY ListLength, n + 1 \in Nat
  <1>2. f \in Seq(S) /\ Len(f) = n
    BY ListLength
  <1>3. /\ Append(f, g[n + 1]) \in Seq(S) /\ Len(Append(f, g[n + 1])) = n + 1
        /\ \A k \in 1..n : Append(f, g[n + 1])[k] = f[k]
        /\ Append(f, g[n + 1])[n + 1] = g[n + 1]
    BY <1>1, <1>2, AppendProperties
  <1>4. \A k \in 1..n + 1 : g[k] = Append(f, g[n + 1])[k]
    BY <1>3
  <1>. QED BY <1>1, <1>3, <1>4, SeqEqual

LEMMA ListShortened ==
  ASSUME NEW S, NEW n \in Nat \ {0}, NEW f \in [1..n -> S], NEW g \in [1..n - 1 -> S],
         \A k \in 1..n - 1 : g[k] = f[k]
  PROVE  f # <<>> /\ g = SubSeq(f, 1, n - 1)
  <1>1. f \in Seq(S) /\ Len(f) = n
    BY ListLength
  <1>2. g \in Seq(S) /\ Len(g) = n - 1
    BY ListLength, n - 1 \in Nat
  <1>3. \A k \in 1..n - 1 : f[k] \in S
    OBVIOUS
  <1>4. /\ SubSeq(f, 1, n - 1) \in Seq(S) /\ Len(SubSeq(f, 1, n - 1)) = n - 1
        /\ \A k \in 1..n - 1 : SubSeq(f, 1, n - 1)[k] = f[k]
    <2>1. /\ SubSeq(f, 1, n - 1) \in Seq(S)
          /\ Len(SubSeq(f, 1, n - 1)) = IF 1 <= n - 1 THEN n - 1 - 1 + 1 ELSE 0
          /\ \A i \in 1..n - 1 - 1 + 1 : SubSeq(f, 1, n - 1)[i] = f[1 + i - 1]
      BY <1>3, SubSeqProperties, 1 \in Int, n - 1 \in Int
    <2>. QED BY <2>1
  <1>5. \A k \in 1..n - 1 : g[k] = SubSeq(f, 1, n - 1)[k]
    BY <1>4
  <1>6. f # <<>>
    BY <1>1, EmptySeq
  <1>. QED BY <1>2, <1>4, <1>5, <1>6, SeqEqual
-----------------------------------------------------------------------------
(* The frames below the current one as callers.                              *)

LEMMA CallersList == ASSUME TypeOK PROVE sp \in Nat /\ Len(Callers) = sp
  <1>1. sp \in Nat
    BY DEF TypeOK, Frames
  <1>2. Callers \in [1..sp -> {Caller(k) : k \in 1..sp}]
    BY DEF Callers
  <1>. QED BY <1>1, <1>2, ListLength

LEMMA CallersInit == Init => Calls!Init
  <1>. SUFFICES ASSUME Init PROVE Calls!Init
    OBVIOUS
  <1>1. sp = 0 /\ ip = 0 /\ stack[sp] = <<>> /\ locals[sp] = NoCells
    BY DEF Init, vm_init, Frames
  <1>2. Callers = <<>>
    <2>1. Callers \in [1..0 -> {}]
      BY <1>1 DEF Callers
    <2>. QED BY <2>1, EmptyList
  <1>3. NoCells = Calls!Nothing
    BY DEF NoCells, Calls!Nothing
  <1>. QED BY <1>1, <1>2, <1>3 DEF Calls!Init, Callers

(* The activation in a frame that a step does not touch is what it was.      *)
LEMMA CallerSame ==
  ASSUME TypeOK, [Next]_vars, NEW k \in 1..sp,
         return_addresses'[k - 1] = return_addresses[k - 1]
  PROVE  Caller(k)' = Caller(k)
  <1>1. k - 1 \in Frames /\ k - 1 < sp
    BY DEF TypeOK, Frames
  <1>2. stack'[k - 1] = stack[k - 1] /\ locals'[k - 1] = locals[k - 1]
    BY <1>1, CallersStep
  <1>. QED BY <1>2 DEF Caller

LEMMA CallStep == ASSUME TypeOK, Call PROVE Calls!Call
  <1>1. PICK address \in Int : Enter(address)
    <2>1. CASE Executing("CALL")
      BY <2>1, ExecutingFacts, LabelAddressType DEF Call, Instr
    <2>2. CASE Executing("LBLCALL")
      BY <2>2, ExecutingFacts, LabelAddressType DEF Call, Instr
    <2>. QED BY <2>1, <2>2 DEF Call
  <1>2. sp \in 0..FrameLimit - 2 /\ sp' = sp + 1 /\ ip' \in Int
    BY <1>1 DEF Enter, TypeOK, Frames
  <1>3. stack'[sp'] = <<>> /\ locals'[sp'] = Calls!Nothing
    <2>1. NoCells = Calls!Nothing
      BY DEF NoCells, Calls!Nothing
    <2>. QED BY <1>1, <1>2, <2>1 DEF Enter, TypeOK, Frames
  <1>4. Callers' = Append(Callers, Calls!Waiting)
    <2>1. \A k \in 1..sp : Caller(k)' = Caller(k)
      <3>1. \A k \in 1..sp : return_addresses'[k - 1] = return_addresses[k - 1]
        BY <1>1, <1>2 DEF Enter, TypeOK
      <3>2. [Next]_vars
        BY DEF Next
      <3>. QED BY <3>1, <3>2, CallerSame
    <2>2. \A k : k = sp + 1 => Caller(k)' = Calls!Waiting
      BY <1>1, <1>2 DEF Enter, TypeOK, Frames, Caller, Calls!Waiting
    <2>. DEFINE S == {Caller(k) : k \in 1..sp} \cup {Calls!Waiting}
    <2>3. Callers \in [1..sp -> S]
      BY DEF Callers
    <2>4. Callers' = [k \in 1..sp + 1 |-> Caller(k)']
      BY <1>2 DEF Callers
    <2>5. \A k \in 1..sp + 1 : k \in 1..sp \/ k = sp + 1
      BY <1>2
    <2>6. Callers' \in [1..sp + 1 -> S]
      BY <2>1, <2>2, <2>4, <2>5
    <2>7. \A k \in 1..sp : Callers'[k] = Callers[k]
      BY <1>2, <2>1, <2>4 DEF Callers
    <2>8. Callers'[sp + 1] = Calls!Waiting
      BY <1>2, <2>2, <2>4
    <2>. HIDE DEF S
    <2>. QED BY <1>2, <2>3, <2>6, <2>7, <2>8, ListAppended
  <1>5. Len(Callers) < FrameLimit - 1
    BY <1>2, CallersList
  <1>. QED BY <1>2, <1>3, <1>4, <1>5, Zenon DEF Calls!Call, Callers

LEMMA ReturnStep == ASSUME TypeOK, Return PROVE Calls!Return
  <1>1. sp \in 1..FrameLimit - 1 /\ sp' = sp - 1
    BY DEF Return, TypeOK, Frames
  <1>2. /\ ip' = Callers[sp].site + 1
        /\ stack'[sp'] = Callers[sp].operands
        /\ locals'[sp'] = Callers[sp].cells
    BY <1>1 DEF Return, TypeOK, Frames, Callers, Caller
  <1>3. Callers # <<>> /\ Callers' = SubSeq(Callers, 1, sp - 1)
    <2>1. \A k \in 1..sp - 1 : Caller(k)' = Caller(k)
      <3>1. \A k \in 1..sp : return_addresses'[k - 1] = return_addresses[k - 1]
        BY DEF Return
      <3>2. [Next]_vars
        BY DEF Next
      <3>. QED BY <1>1, <3>1, <3>2, CallerSame
    <2>. DEFINE S == {Caller(k) : k \in 1..sp}
    <2>2. Callers \in [1..sp -> S]
      BY DEF Callers
    <2>3. Callers' = [k \in 1..sp - 1 |-> Caller(k)']
      BY <1>1 DEF Callers
    <2>4. \A k \in 1..sp - 1 : k \in 1..sp
      BY <1>1
    <2>5. Callers' \in [1..sp - 1 -> S]
      BY <2>1, <2>3, <2>4
    <2>6. \A k \in 1..sp - 1 : Callers'[k] = Callers[k]
      BY <2>1, <2>3, <2>4 DEF Callers
    <2>7. sp \in Nat \ {0}
      BY <1>1
    <2>. HIDE DEF S
    <2>. QED BY <2>2, <2>5, <2>6, <2>7, ListShortened
  <1>. QED BY <1>1, <1>2, <1>3, CallersList DEF Calls!Return, Callers

(* An instruction that neither calls nor returns is work of one activation.  *)
LEMMA WorkStep ==
  ASSUME TypeOK, [Next]_vars, UNCHANGED callframes
  PROVE  Calls!Work
  <1>1. sp' = sp /\ UNCHANGED return_addresses
    BY DEF callframes
  <1>2. Callers' = Callers
    <2>1. \A k \in 1..sp : Caller(k)' = Caller(k)
      BY <1>1, CallerSame
    <2>. QED BY <1>1, <2>1 DEF Callers
  <1>3. ip' \in Int
    BY TypeStep DEF TypeOK
  <1>. QED BY <1>2, <1>3 DEF Calls!Work, Callers

(* Every step calls, returns, or leaves the open calls as they are.          *)
LEMMA StepKinds ==
  ASSUME TypeOK, [Next]_vars
  PROVE  Call \/ Return \/ UNCHANGED callframes
  <1>1. CASE UNCHANGED vars
    BY <1>1 DEF vars
  <1>2. CASE Jump \/ JumpIf
    BY <1>2 DEF Jump, JumpIf, JumpTo
  <1>3. CASE Ending
    BY <1>3, EndingFacts
  <1>4. CASE \/ Nop \/ LoadConstant \/ Pop \/ Increment \/ Compare \/ Arithmetic
             \/ Load \/ LoadLocal \/ CallInput \/ CallConversion \/ CallTime
    BY <1>4 DEF Nop, LoadConstant, Pop, Increment, Compare, Arithmetic, Load, LoadLocal,
                CallInput, CallConversion, CallTime, Continue
  <1>5. CASE Store \/ StoreLocal \/ CallPrint
    BY <1>5 DEF Store, StoreLocal, CallPrint, Continue
  <1>. QED BY <1>1, <1>2, <1>3, <1>4, <1>5 DEF Next, Ending

LEMMA RefinementStep == TypeOK /\ [Next]_vars => [Calls!Next]_(Calls!vars)
  <1>. SUFFICES ASSUME TypeOK, [Next]_vars PROVE Calls!Next
    OBVIOUS
  <1>1. CASE Call
    BY <1>1, CallStep DEF Calls!Next
  <1>2. CASE Return
    BY <1>2, ReturnStep DEF Calls!Next
  <1>3. CASE UNCHANGED callframes
    BY <1>3, WorkStep DEF Calls!Next
  <1>. QED BY <1>1, <1>2, <1>3, StepKinds

(* CallsNest for every program, and every number of frames.                  *)
THEOREM ActivationsNest == Spec => CallsNest
  BY CallersInit, RefinementStep, TypeCorrect, PTL DEF Spec, CallsNest, Calls!Spec
=============================================================================
