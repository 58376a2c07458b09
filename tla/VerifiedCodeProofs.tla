-------------------------- MODULE VerifiedCodeProofs --------------------------
(***************************************************************************)
(* Verified code on the SeaVM: it stays in its code, finds its operands and *)
(* its cells, and returns only from functions.  The inductive invariant is  *)
(* SafeInv: where control is, what is on the stacks, which cells there are. *)
(***************************************************************************)
EXTENDS VerifiedCode, SeaVMProofs

USE FrameLimitAssumption, CellLimitAssumption

\* Global cells are never fewer than vm_init allocated.
StorageInv == global_size >= CellLimit

SafeInv == TypeOK /\ ControlInv /\ DepthInv /\ StorageInv /\ NoFault

(* What verification says of the instruction at position i.                  *)
LEMMA VerifiedAt ==
  ASSUME TypeOK, NEW i \in DOMAIN prog.code
  PROVE  /\ Operands(prog.code[i]) <= Depth(i)
         /\ Depth(i) \in Nat
         /\ ArgumentOK(prog, DepthAt[prog], i)
         /\ \A j \in Successors(prog.code, i) :
               /\ j \in DOMAIN prog.code
               /\ InMain(prog.code, j) <=> InMain(prog.code, i)
               /\ Depth(j) <= Depth(i) + Growth(prog.code[i])
  BY ImagesVerified DEF TypeOK, Verified, Depth

(* A running machine is at an instruction whose operands are on the stack.   *)
LEMMA RunningFacts ==
  ASSUME SafeInv, status = "running"
  PROVE  /\ ip + 1 \in DOMAIN prog.code
         /\ cinstr = prog.code[ip + 1]
         /\ InMain(prog.code, ip + 1) <=> sp = 0
         /\ Depth(ip + 1) <= Len(frame)
         /\ Operands(cinstr) <= Len(frame)
         /\ ArgumentOK(prog, DepthAt[prog], ip + 1)
  <1>1. ip + 1 \in DOMAIN prog.code /\ Depth(ip + 1) <= Len(frame)
    BY DEF SafeInv, ControlInv, DepthInv, frame
  <1>2. Len(frame) \in Nat
    BY FrameTypes DEF SafeInv
  <1>3. prog.code[ip + 1] \in Instr
    BY <1>1, ImagesAssumption DEF SafeInv, TypeOK
  <1>4. Operands(cinstr) \in Nat
    BY DEF Operands
  <1>. QED BY <1>1, <1>2, <1>4, VerifiedAt DEF SafeInv, ControlInv, cinstr
-----------------------------------------------------------------------------
(* How the frame's stack grows.                                              *)

LEMMA StackLengths ==
  ASSUME TypeOK
  PROVE  /\ Len(frame) \in Nat
         /\ \A v : Len(Append(frame, v)) = Len(frame) + 1
         /\ Len(frame) >= 1 => /\ Len(Popped(1)) = Len(frame) - 1
                               /\ \A v : Len(Append(Popped(1), v)) = Len(frame)
         /\ Len(frame) >= 2 => \A v : Len(Append(Popped(2), v)) = Len(frame) - 1
  <1>1. frame \in Seq(Value)
    BY FrameTypes
  <1>2. ASSUME NEW n \in 1..2, Len(frame) >= n
        PROVE  Popped(n) \in Seq(Value) /\ Len(Popped(n)) = Len(frame) - n
    BY <1>1, <1>2, SubSeqProperties DEF Popped
  <1>. QED BY <1>1, <1>2

(* The instructions that go straight on.                                     *)
Straight == \/ Nop \/ LoadConstant \/ Pop \/ Increment \/ Compare \/ Arithmetic
            \/ Load \/ Store \/ CallPrint \/ CallInput \/ CallConversion \/ CallTime

\* The step goes on at a successor, with the growth of the instruction.
GoesOn == /\ UNCHANGED <<prog, callframes, status>>
          /\ ip' + 1 \in Successors(prog.code, ip + 1)
          /\ Len(stack'[sp]) = Len(frame) + Growth(cinstr)
          /\ global_size' >= global_size

LEMMA ContinueGoesOn ==
  ASSUME TypeOK, NEW s, Continue(s), Len(s) = Len(frame) + Growth(cinstr),
         cinstr.op \notin {"EXIT", "RET", "JUMP", "JUMPIF"},
         ~(cinstr.op = "CALLC" /\ cinstr.arg = ss_f_exit),
         UNCHANGED status, global_size' >= global_size
  PROVE  GoesOn
  <1>1. stack'[sp] = s /\ ip' = ip + 1 /\ UNCHANGED <<prog, callframes>>
    BY DEF Continue, TypeOK
  <1>2. Successors(prog.code, ip + 1) = {ip + 1 + 1}
    BY DEF Successors, cinstr
  <1>. QED BY <1>1, <1>2 DEF GoesOn

LEMMA StraightGoesOn ==
  ASSUME SafeInv, status = "running", Straight
  PROVE  GoesOn
  <1>. TypeOK /\ global_size \in Nat
    BY DEF SafeInv, TypeOK
  <1>. Operands(cinstr) <= Len(frame) /\ Len(frame) \in Nat
    BY RunningFacts, StackLengths
  <1>1. CASE Nop
    <2>1. CASE Executing("NOP")
      <3>1. cinstr.op = "NOP"
        BY <2>1, ExecutingFacts
      <3>2. Growth(cinstr) = 0
        BY <3>1 DEF Growth
      <3>. QED BY <1>1, <3>1, <3>2, ContinueGoesOn DEF Nop, memory, outcome
    <2>2. CASE Executing("LBL")
      BY <2>2, ExecutingFacts, RunningFacts DEF ArgumentOK, CompiledOps
    <2>. QED BY <1>1, <2>1, <2>2 DEF Nop
  <1>2. CASE LoadConstant
    <2>1. cinstr.op \in {"LOADBOOL", "LOADC", "LOADPOOL"}
      BY <1>2, ExecutingFacts DEF LoadConstant
    <2>2. Growth(cinstr) = 1
      BY <2>1 DEF Growth
    <2>4. \E s : Continue(s) /\ Len(s) = Len(frame) + 1
      BY <1>2, StackLengths DEF LoadConstant
    <2>5. UNCHANGED status /\ global_size' >= global_size
      BY <1>2 DEF LoadConstant, memory, outcome
    <2>. QED BY <2>1, <2>2, <2>4, <2>5, ContinueGoesOn
  <1>3. CASE Pop
    <2>1. cinstr.op \in {"POP"}
      BY <1>3, ExecutingFacts DEF Pop
    <2>2. Growth(cinstr) = -1
      BY <2>1 DEF Growth
    <2>3. Len(frame) >= 1
      BY <2>1 DEF Operands
    <2>4. \E s : Continue(s) /\ Len(s) = Len(frame) - 1
      BY <1>3, <2>3, StackLengths DEF Pop
    <2>5. UNCHANGED status /\ global_size' >= global_size
      BY <1>3 DEF Pop, memory, outcome
    <2>. QED BY <2>1, <2>2, <2>4, <2>5, ContinueGoesOn
  <1>4. CASE Increment
    <2>1. cinstr.op \in {"INC", "DEC"}
      BY <1>4, ExecutingFacts DEF Increment
    <2>2. Growth(cinstr) = 0
      BY <2>1 DEF Growth
    <2>3. Len(frame) >= 1
      BY <2>1 DEF Operands
    <2>4. \E s : Continue(s) /\ Len(s) = Len(frame)
      BY <1>4, <2>3, StackLengths DEF Increment
    <2>5. UNCHANGED status /\ global_size' >= global_size
      BY <1>4 DEF Increment, memory, outcome
    <2>. QED BY <2>1, <2>2, <2>4, <2>5, ContinueGoesOn
  <1>5. CASE Compare
    <2>1. cinstr.op \in {"EQ", "LT", "GT", "NOT"}
      BY <1>5, ExecutingFacts DEF Compare
    <2>2. Growth(cinstr) = 1
      BY <2>1 DEF Growth
    <2>4. \E s : Continue(s) /\ Len(s) = Len(frame) + 1
      BY <1>5, StackLengths DEF Compare
    <2>5. UNCHANGED status /\ global_size' >= global_size
      BY <1>5 DEF Compare, memory, outcome
    <2>. QED BY <2>1, <2>2, <2>4, <2>5, ContinueGoesOn
  <1>6. CASE Arithmetic
    <2>1. cinstr.op \in {"ADD", "SUB", "MUL", "DIV"}
      BY <1>6, ExecutingFacts DEF Arithmetic
    <2>2. Growth(cinstr) = -1
      BY <2>1 DEF Growth
    <2>3. Len(frame) >= 2
      BY <2>1 DEF Operands
    <2>4. \E s : Continue(s) /\ Len(s) = Len(frame) - 1
      BY <1>6, <2>3, StackLengths DEF Arithmetic
    <2>5. UNCHANGED status /\ global_size' >= global_size
      BY <1>6 DEF Arithmetic, memory, outcome
    <2>. QED BY <2>1, <2>2, <2>4, <2>5, ContinueGoesOn
  <1>7. CASE Load
    <2>1. cinstr.op \in {"LOAD"}
      BY <1>7, ExecutingFacts DEF Load
    <2>2. Growth(cinstr) = 1
      BY <2>1 DEF Growth
    <2>4. \E s : Continue(s) /\ Len(s) = Len(frame) + 1
      BY <1>7, StackLengths DEF Load
    <2>5. UNCHANGED status /\ global_size' >= global_size
      BY <1>7 DEF Load, memory, outcome
    <2>. QED BY <2>1, <2>2, <2>4, <2>5, ContinueGoesOn
  <1>8. CASE Store
    <2>1. cinstr.op \in {"STORE"}
      BY <1>8, ExecutingFacts DEF Store
    <2>2. Growth(cinstr) = -1
      BY <2>1 DEF Growth
    <2>3. Len(frame) >= 1
      BY <2>1 DEF Operands
    <2>4. \E s : Continue(s) /\ Len(s) = Len(frame) - 1
      BY <1>8, <2>3, StackLengths DEF Store
    <2>5. UNCHANGED status /\ global_size' >= global_size
      BY <1>8 DEF Store, memory, outcome, Grown
    <2>. QED BY <2>1, <2>2, <2>4, <2>5, ContinueGoesOn
  <1>9. CASE CallPrint
    <2>1. cinstr.op = "CALLC" /\ cinstr.arg \in {ss_f_print}
      BY <1>9, CallingFacts DEF CallPrint
    <2>2. Growth(cinstr) = 0
      BY <2>1 DEF Growth, ss_f_input, ss_f_time, ss_f_print
    <2>3. Len(frame) >= 1
      BY <2>1 DEF Operands, ss_f_print
    <2>4. \E s : Continue(s) /\ Len(s) = Len(frame)
      BY <1>9, <2>3, StackLengths DEF CallPrint
    <2>5. UNCHANGED status /\ global_size' >= global_size
      BY <1>9 DEF CallPrint, memory, outcome
    <2>6. cinstr.arg # ss_f_exit
      BY <2>1 DEF ss_f_exit, ss_f_print
    <2>. QED BY <2>1, <2>2, <2>4, <2>5, <2>6, ContinueGoesOn
  <1>10. CASE CallInput
    <2>1. cinstr.op = "CALLC" /\ cinstr.arg \in {ss_f_input}
      BY <1>10, CallingFacts DEF CallInput
    <2>2. Growth(cinstr) = 1
      BY <2>1 DEF Growth, ss_f_input, ss_f_time
    <2>4. \E s : Continue(s) /\ Len(s) = Len(frame) + 1
      BY <1>10, StackLengths DEF CallInput
    <2>5. UNCHANGED status /\ global_size' >= global_size
      BY <1>10 DEF CallInput, memory, outcome
    <2>6. cinstr.arg # ss_f_exit
      BY <2>1 DEF ss_f_exit, ss_f_input
    <2>. QED BY <2>1, <2>2, <2>4, <2>5, <2>6, ContinueGoesOn
  <1>11. CASE CallConversion
    <2>1. cinstr.op = "CALLC" /\ cinstr.arg \in {ss_f_to_string, ss_f_to_number}
      BY <1>11, CallingFacts DEF CallConversion
    <2>2. Growth(cinstr) = 0
      BY <2>1 DEF Growth, ss_f_input, ss_f_time, ss_f_to_string, ss_f_to_number
    <2>3. Len(frame) >= 1
      BY <2>1 DEF Operands, ss_f_to_string, ss_f_to_number
    <2>4. \E s : Continue(s) /\ Len(s) = Len(frame)
      BY <1>11, <2>3, StackLengths DEF CallConversion
    <2>5. UNCHANGED status /\ global_size' >= global_size
      BY <1>11 DEF CallConversion, memory, outcome
    <2>6. cinstr.arg # ss_f_exit
      BY <2>1 DEF ss_f_exit, ss_f_to_string, ss_f_to_number
    <2>. QED BY <2>1, <2>2, <2>4, <2>5, <2>6, ContinueGoesOn
  <1>12. CASE CallTime
    <2>1. cinstr.op = "CALLC" /\ cinstr.arg \in {ss_f_time}
      BY <1>12, CallingFacts DEF CallTime
    <2>2. Growth(cinstr) = 1
      BY <2>1 DEF Growth, ss_f_input, ss_f_time
    <2>4. \E s : Continue(s) /\ Len(s) = Len(frame) + 1
      BY <1>12, StackLengths DEF CallTime
    <2>5. UNCHANGED status /\ global_size' >= global_size
      BY <1>12 DEF CallTime, memory, outcome
    <2>6. cinstr.arg # ss_f_exit
      BY <2>1 DEF ss_f_exit, ss_f_time
    <2>. QED BY <2>1, <2>2, <2>4, <2>5, <2>6, ContinueGoesOn
  <1>. QED BY <1>1, <1>2, <1>3, <1>4, <1>5, <1>6, <1>7, <1>8, <1>9, <1>10, <1>11, <1>12
           DEF Straight
-----------------------------------------------------------------------------
(* SafeInv is inductive: one lemma for each way of going on.                 *)

\* ControlInv, DepthInv and StorageInv after a step that keeps the program.
LEMMA NextState ==
  ASSUME prog' = prog,
         status' = "running" => /\ ip' + 1 \in DOMAIN prog.code
                                /\ InMain(prog.code, ip' + 1) <=> sp' = 0
                                /\ Depth(ip' + 1) <= Len(stack'[sp']),
         \A k \in 0..sp' - 1 :
            LET site == return_addresses'[k] + 1
            IN  /\ site \in DOMAIN prog.code
                /\ prog.code[site].op = "CALL"
                /\ InMain(prog.code, site) <=> k = 0
                /\ Depth(site + 1) <= Len(stack'[k])
  PROVE  ControlInv' /\ DepthInv'
  BY DEF ControlInv, DepthInv, CallSite, Depth

LEMMA CallerFacts ==
  ASSUME SafeInv, NEW k \in 0..sp - 1
  PROVE  LET site == return_addresses[k] + 1
         IN  /\ site \in DOMAIN prog.code
             /\ prog.code[site].op = "CALL"
             /\ InMain(prog.code, site) <=> k = 0
             /\ Depth(site + 1) <= Len(stack[k])
  BY DEF SafeInv, ControlInv, DepthInv, CallSite

LEMMA CompiledOnly ==
  ASSUME SafeInv, status = "running"
  PROVE  cinstr.op \in CompiledOps
  <1>1. ArgumentOK(prog, DepthAt[prog], ip + 1) /\ cinstr = prog.code[ip + 1]
    BY RunningFacts
  <1>2. CASE cinstr.op \in {"CALL", "RET", "EXIT", "LOADPOOL", "STORE", "LOAD", "CALLC"}
    BY <1>2 DEF CompiledOps, Opcodes
  <1>3. CASE cinstr.op \notin {"CALL", "RET", "EXIT", "LOADPOOL", "STORE", "LOAD", "CALLC"}
    BY <1>1, <1>3 DEF ArgumentOK
  <1>. QED BY <1>2, <1>3

LEMMA NextRuns == Next => status = "running"
  BY DEF Next, Nop, LoadConstant, Pop, Increment, Compare, Arithmetic, Jump, JumpIf, Call,
         Return, Store, Load, StoreLocal, LoadLocal, CallPrint, CallInput, CallConversion,
         CallTime, ExitInstruction, CallExit, PrintUnknownType, EndOfCode,
         InvalidInstruction, WildJump, Underflow, FrameOverflow, FrameUnderflow,
         BadAddress, BadPointer, Executing, Calling, Fetching

LEMMA GoesOnSafe ==
  ASSUME SafeInv, status = "running", [Next]_vars, GoesOn
  PROVE  ControlInv' /\ DepthInv' /\ StorageInv' /\ NoFault'
  <1>1. TypeOK /\ sp \in Frames /\ prog' = prog /\ UNCHANGED <<sp, return_addresses>>
    BY DEF SafeInv, TypeOK, GoesOn, callframes
  <1>2. /\ ip' + 1 \in DOMAIN prog.code
        /\ InMain(prog.code, ip' + 1) <=> sp = 0
        /\ Depth(ip' + 1) <= Len(stack'[sp])
    <2>1. /\ ip + 1 \in DOMAIN prog.code /\ cinstr = prog.code[ip + 1]
          /\ InMain(prog.code, ip + 1) <=> sp = 0
          /\ Depth(ip + 1) <= Len(frame)
      BY RunningFacts
    <2>2. /\ ip' + 1 \in DOMAIN prog.code
          /\ InMain(prog.code, ip' + 1) <=> InMain(prog.code, ip + 1)
          /\ Depth(ip' + 1) <= Depth(ip + 1) + Growth(cinstr)
      BY <1>1, <2>1, VerifiedAt DEF GoesOn
    <2>3. Depth(ip + 1) \in Nat /\ Depth(ip' + 1) \in Nat /\ Len(frame) \in Nat
      BY <1>1, <2>1, <2>2, VerifiedAt, StackLengths
    <2>4. Growth(cinstr) \in Int
      BY DEF Growth
    <2>5. Len(stack'[sp]) = Len(frame) + Growth(cinstr)
      BY DEF GoesOn
    <2>6. Depth(ip' + 1) <= Len(stack'[sp])
      BY <2>1, <2>2, <2>3, <2>4, <2>5
    <2>. QED BY <2>1, <2>2, <2>6
  <1>3. ASSUME NEW k \in 0..sp - 1
        PROVE  stack'[k] = stack[k]
    <2>1. k \in Frames /\ k < sp
      BY <1>1 DEF Frames
    <2>. QED BY <1>1, <2>1, CallersStep
  <1>4. ControlInv' /\ DepthInv'
    BY <1>1, <1>2, <1>3, CallerFacts, NextState
  <1>5. StorageInv'
    <2>1. global_size \in Nat /\ global_size' \in Nat /\ global_size' >= global_size
      BY TypeStep DEF GoesOn, SafeInv, TypeOK
    <2>. QED BY <2>1 DEF SafeInv, StorageInv
  <1>6. NoFault'
    BY DEF GoesOn, NoFault
  <1>. QED BY <1>4, <1>5, <1>6

LEMMA JumpGoesOn ==
  ASSUME SafeInv, Jump \/ JumpIf
  PROVE  GoesOn
  <1>1. status = "running" /\ TypeOK
    BY NextRuns DEF Next, SafeInv
  <1>2. /\ cinstr.op \in {"JUMP", "JUMPIF"}
        /\ JumpTo(cinstr.arg) \/ (cinstr.op = "JUMPIF" /\ JumpTo(ip + 1))
    <2>1. cinstr.op \in CompiledOps
      BY <1>1, CompiledOnly
    <2>2. CASE Jump
      BY <1>1, <2>1, <2>2, ExecutingFacts DEF Jump, CompiledOps
    <2>3. CASE JumpIf
      <3>1. PICK taken \in BOOLEAN :
               \/ Executing("JUMPIF") /\ JumpTo(IF taken THEN cinstr.arg ELSE ip + 1)
               \/ Executing("LBLJMPIF")
        BY <2>3 DEF JumpIf
      <3>2. cinstr.op = "JUMPIF" /\ JumpTo(IF taken THEN cinstr.arg ELSE ip + 1)
        BY <1>1, <2>1, <3>1, ExecutingFacts DEF CompiledOps
      <3>. QED BY <3>2
    <2>. QED BY <2>2, <2>3
  <1>3. Growth(cinstr) = 0
    BY <1>2 DEF Growth
  <1>4. ip' + 1 \in Successors(prog.code, ip + 1)
    <2>1. ip' = cinstr.arg \/ (cinstr.op = "JUMPIF" /\ ip' = ip + 1)
      BY <1>2 DEF JumpTo
    <2>. QED BY <1>2, <2>1 DEF Successors, cinstr
  <1>5. UNCHANGED <<prog, stack, callframes, status, global_size>>
    BY <1>2 DEF JumpTo, memory, outcome
  <1>. QED BY <1>1, <1>3, <1>4, <1>5, StackLengths DEF GoesOn, TypeOK, frame

LEMMA CallSafe ==
  ASSUME SafeInv, [Next]_vars, Call
  PROVE  ControlInv' /\ DepthInv' /\ StorageInv' /\ NoFault'
  <1>1. status = "running" /\ TypeOK
    BY NextRuns DEF Next, SafeInv
  <1>2. Executing("CALL") /\ Enter(cinstr.arg) /\ cinstr.op = "CALL"
    BY <1>1, CompiledOnly, ExecutingFacts DEF Call, CompiledOps
  <1>3. /\ prog' = prog /\ sp' = sp + 1 /\ ip' = cinstr.arg
        /\ return_addresses' = [return_addresses EXCEPT ![sp] = ip]
        /\ sp \in 0..FrameLimit - 2
        /\ stack' = [stack EXCEPT ![sp + 1] = <<>>]
        /\ UNCHANGED <<status, global_size>>
    BY <1>1, <1>2 DEF Enter, TypeOK, Frames, outcome
  <1>4. /\ ip + 1 \in DOMAIN prog.code /\ cinstr = prog.code[ip + 1]
        /\ InMain(prog.code, ip + 1) <=> sp = 0
        /\ Depth(ip + 1) <= Len(frame)
    BY <1>1, RunningFacts
  <1>5. /\ ip' + 1 \in DOMAIN prog.code
        /\ ~InMain(prog.code, ip' + 1)
        /\ Depth(ip' + 1) = 0
    BY <1>1, <1>2, <1>3, <1>4, RunningFacts DEF ArgumentOK, Depth
  <1>6. Depth(ip + 1 + 1) <= Len(frame)
    <2>1. Growth(cinstr) = 0 /\ ip + 1 + 1 \in Successors(prog.code, ip + 1)
      BY <1>2, <1>4 DEF Growth, Successors
    <2>2. /\ ip + 1 + 1 \in DOMAIN prog.code
          /\ Depth(ip + 1 + 1) <= Depth(ip + 1) + Growth(cinstr)
      BY <1>1, <1>4, <2>1, VerifiedAt
    <2>3. Depth(ip + 1) \in Nat /\ Depth(ip + 1 + 1) \in Nat /\ Len(frame) \in Nat
      BY <1>1, <1>4, <2>2, VerifiedAt, StackLengths
    <2>. QED BY <1>4, <2>1, <2>2, <2>3
  <1>7. sp' # 0 /\ stack'[sp'] = <<>> /\ sp' \in Frames
    BY <1>1, <1>3 DEF TypeOK, Frames
  <1>8. ASSUME NEW k \in 0..sp' - 1
        PROVE  LET site == return_addresses'[k] + 1
               IN  /\ site \in DOMAIN prog.code
                   /\ prog.code[site].op = "CALL"
                   /\ InMain(prog.code, site) <=> k = 0
                   /\ Depth(site + 1) <= Len(stack'[k])
    <2>0. k \in 0..FrameLimit - 2 /\ k \in Frames /\ k # sp + 1
      BY <1>3 DEF Frames
    <2>1. stack'[k] = stack[k]
      BY <1>1, <1>3, <2>0 DEF TypeOK
    <2>2. CASE k = sp
      <3>1. return_addresses'[k] = ip /\ stack[k] = frame
        BY <1>1, <1>3, <2>2 DEF TypeOK, frame
      <3>. QED BY <1>2, <1>4, <1>6, <2>1, <2>2, <3>1
    <2>3. CASE k # sp
      <3>1. k \in 0..sp - 1 /\ return_addresses'[k] = return_addresses[k]
        BY <1>1, <1>3, <2>0, <2>3 DEF TypeOK
      <3>. QED BY <2>1, <3>1, CallerFacts
    <2>. QED BY <2>2, <2>3
  <1>9. ControlInv' /\ DepthInv'
    <2>1. Depth(ip' + 1) <= Len(stack'[sp'])
      BY <1>5, <1>7
    <2>. QED BY <1>3, <1>5, <1>7, <1>8, <2>1, NextState
  <1>. QED BY <1>1, <1>3, <1>9 DEF SafeInv, StorageInv, NoFault

LEMMA ReturnSafe ==
  ASSUME SafeInv, [Next]_vars, Return
  PROVE  ControlInv' /\ DepthInv' /\ StorageInv' /\ NoFault'
  <1>1. status = "running" /\ TypeOK
    BY NextRuns DEF Next, SafeInv
  <1>2. /\ prog' = prog /\ sp > 0 /\ sp' = sp - 1
        /\ ip' = return_addresses[sp - 1] + 1
        /\ UNCHANGED <<return_addresses, status, global_size>>
    BY DEF Return, outcome
  <1>3. ASSUME NEW k \in 0..sp - 1
        PROVE  stack'[k] = stack[k]
    <2>1. k \in Frames /\ k < sp
      BY <1>1 DEF TypeOK, Frames
    <2>. QED BY <1>1, <2>1, CallersStep
  <1>4. sp - 1 \in 0..sp - 1 /\ sp \in Nat
    BY <1>1, <1>2 DEF TypeOK, Frames
  <1>5. /\ ip' \in DOMAIN prog.code
        /\ prog.code[ip'].op = "CALL"
        /\ InMain(prog.code, ip') <=> sp' = 0
        /\ Depth(ip' + 1) <= Len(stack'[sp'])
    <2>1. LET site == return_addresses[sp - 1] + 1
          IN  /\ site \in DOMAIN prog.code
              /\ prog.code[site].op = "CALL"
              /\ InMain(prog.code, site) <=> sp - 1 = 0
              /\ Depth(site + 1) <= Len(stack[sp - 1])
      BY <1>4, CallerFacts
    <2>. QED BY <1>2, <1>3, <1>4, <2>1
  <1>6. /\ ip' + 1 \in DOMAIN prog.code
        /\ InMain(prog.code, ip' + 1) <=> InMain(prog.code, ip')
    <2>1. ip' + 1 \in Successors(prog.code, ip')
      BY <1>5 DEF Successors
    <2>. QED BY <1>1, <1>5, <2>1, VerifiedAt
  <1>7. ASSUME NEW k \in 0..sp' - 1
        PROVE  LET site == return_addresses'[k] + 1
               IN  /\ site \in DOMAIN prog.code
                   /\ prog.code[site].op = "CALL"
                   /\ InMain(prog.code, site) <=> k = 0
                   /\ Depth(site + 1) <= Len(stack'[k])
    <2>1. k \in 0..sp - 1
      BY <1>2, <1>4
    <2>. QED BY <1>2, <1>3, <2>1, CallerFacts
  <1>8. ControlInv' /\ DepthInv'
    BY <1>2, <1>5, <1>6, <1>7, NextState
  <1>. QED BY <1>1, <1>2, <1>8 DEF SafeInv, StorageInv, NoFault

(* Verified code ends in no other way than NoFault lists.                    *)
LEMMA EndingSafe ==
  ASSUME SafeInv, Ending
  PROVE  ControlInv' /\ DepthInv' /\ StorageInv' /\ NoFault'
  <1>1. status = "running" /\ TypeOK
    BY NextRuns DEF Next, Ending, SafeInv
  <1>2. /\ status' # "running"
        /\ UNCHANGED <<prog, stack, sp, return_addresses, global_size>>
    BY <1>1, EndingFacts DEF callframes, memory
  <1>3. ControlInv' /\ DepthInv'
    BY <1>2, CallerFacts, NextState
  <1>4. StorageInv'
    BY <1>2 DEF SafeInv, StorageInv
  <1>5. /\ ip + 1 \in DOMAIN prog.code /\ prog.code \in Seq(Instr)
        /\ Operands(cinstr) <= Len(frame) /\ Len(frame) \in Nat
        /\ cinstr.op \in CompiledOps
        /\ cinstr = prog.code[ip + 1]
        /\ ArgumentOK(prog, DepthAt[prog], ip + 1)
    BY <1>1, RunningFacts, CompiledOnly, StackLengths, ImagesAssumption DEF TypeOK
  <1>6. ip \in 0..Len(prog.code) - 1
    BY <1>1, <1>5 DEF TypeOK
  <1>7. CASE ExitInstruction \/ CallExit \/ PrintUnknownType \/ FrameOverflow \/ BadPointer
    BY <1>3, <1>4, <1>7 DEF ExitInstruction, CallExit, PrintUnknownType, FrameOverflow, BadPointer, Fault,
                End, NoFault
  <1>8. ~(EndOfCode \/ WildJump)
    BY <1>5, <1>6 DEF EndOfCode, WildJump
  <1>9. ~InvalidInstruction
    BY <1>5 DEF InvalidInstruction, CompiledOps
  <1>10. ~Underflow
    <2>1. Operands(cinstr) \in Nat
      BY DEF Operands
    <2>. QED BY <1>5, <2>1 DEF Underflow
  <1>11. ~FrameUnderflow
    <2>1. SUFFICES ASSUME FrameUnderflow PROVE FALSE
      OBVIOUS
    <2>2. cinstr.op = "RET" /\ sp = 0
      BY <1>1, <2>1, ExecutingFacts DEF FrameUnderflow
    <2>. QED BY <1>1, <1>5, <2>2, RunningFacts DEF ArgumentOK
  <1>12. ~BadAddress
    <2>1. cinstr.op = "LOADPOOL" => cinstr.arg + 1 \in DOMAIN prog.pool
      BY <1>5 DEF ArgumentOK
    <2>2. cinstr.op \in {"STORE", "LOAD"} => cinstr.arg \in 0..global_size - 1
      BY <1>1, <1>5, SMTT(20) DEF ArgumentOK, SafeInv, StorageInv, TypeOK
    <2>3. cinstr.op = "CALLC" => cinstr.arg \in ss_functions
      BY <1>5 DEF ArgumentOK
    <2>4. cinstr.op \notin {"LSTORE", "LLOAD"}
      BY <1>5 DEF CompiledOps
    <2>5. \A op : Executing(op) => cinstr.op = op
      BY <1>1, ExecutingFacts
    <2>. QED BY <2>1, <2>2, <2>3, <2>4, <2>5 DEF BadAddress, Grown
  <1>. QED BY <1>3, <1>4, <1>7, <1>8, <1>9, <1>10, <1>11, <1>12 DEF Ending

LEMMA SafeStep == SafeInv /\ [Next]_vars => SafeInv'
  <1>. SUFFICES ASSUME SafeInv, [Next]_vars PROVE SafeInv'
    OBVIOUS
  <1>1. TypeOK /\ TypeOK'
    BY TypeStep DEF SafeInv
  <1>2. CASE UNCHANGED vars
    BY <1>1, <1>2 DEF vars, callframes, memory, outcome, SafeInv, ControlInv, DepthInv,
                      StorageInv, NoFault, CallSite, Depth
  <1>3. CASE Next
    <2>1. status = "running"
      BY <1>3, NextRuns
    <2>2. ~(StoreLocal \/ LoadLocal)
      BY <1>1, <2>1, CompiledOnly, ExecutingFacts DEF StoreLocal, LoadLocal, CompiledOps
    <2>3. CASE Straight \/ Jump \/ JumpIf
      BY <1>1, <2>1, <2>3, StraightGoesOn, JumpGoesOn, GoesOnSafe DEF SafeInv
    <2>4. CASE Call \/ Return \/ Ending
      BY <1>1, <2>4, CallSafe, ReturnSafe, EndingSafe DEF SafeInv
    <2>. QED BY <1>3, <2>2, <2>3, <2>4 DEF Next, Straight, Ending
  <1>. QED BY <1>2, <1>3

LEMMA SafeInit == Init => SafeInv
  <1>. SUFFICES ASSUME Init PROVE SafeInv
    OBVIOUS
  <1>1. TypeOK /\ prog \in Images /\ ip = 0 /\ sp = 0 /\ status = "running"
    BY TypeInit DEF Init, vm_init
  <1>2. Verified(prog, DepthAt[prog]) /\ prog.code \in Seq(Instr)
    BY <1>1, ImagesVerified, ImagesAssumption
  <1>3. 1 \in DOMAIN prog.code /\ Depth(1) = 0
    BY <1>2 DEF Verified, Depth
  <1>4. InMain(prog.code, 1)
    BY DEF InMain
  <1>5. stack[0] = <<>>
    BY DEF Init, vm_init, Frames
  <1>6. ControlInv
    BY <1>1, <1>3, <1>4 DEF ControlInv
  <1>7. DepthInv
    BY <1>1, <1>3, <1>5 DEF DepthInv
  <1>. QED BY <1>1, <1>6, <1>7 DEF SafeInv, StorageInv, NoFault, Init, vm_init

LEMMA Safe == Spec => []SafeInv
  BY SafeInit, SafeStep, PTL DEF Spec
-----------------------------------------------------------------------------
(* ControlInv: the nesting of calls in verified code.                        *)
THEOREM ControlHolds == Spec => []ControlInv
  BY Safe, PTL DEF SafeInv

(* DepthInv: the depths that verification computed are there at run time.    *)
THEOREM DepthHolds == Spec => []DepthInv
  BY Safe, PTL DEF SafeInv

(* NoFault: verified code, though the VM checks nothing, is safe to run.     *)
THEOREM VerifiedCodeIsSafe == Spec => []NoFault
  BY Safe, PTL DEF SafeInv
-----------------------------------------------------------------------------
(* How control moves in verified code: on, into a function, back, or nowhere. *)

Entered ==
    /\ cinstr.op = "CALL" /\ sp \in 0..FrameLimit - 2
    /\ sp' = sp + 1 /\ ip' = cinstr.arg
    /\ return_addresses' = [return_addresses EXCEPT ![sp] = ip]
    /\ UNCHANGED <<prog, status>>

Left == /\ sp > 0 /\ sp' = sp - 1
        /\ ip' = return_addresses[sp - 1] + 1
        /\ UNCHANGED <<prog, return_addresses, status>>

LEMMA WaysOn ==
  ASSUME SafeInv, Next
  PROVE  GoesOn \/ Entered \/ Left \/ Ending
  <1>1. TypeOK /\ status = "running" /\ cinstr.op \in CompiledOps
    BY NextRuns, CompiledOnly DEF SafeInv
  <1>2. ~(StoreLocal \/ LoadLocal)
    BY <1>1, ExecutingFacts DEF StoreLocal, LoadLocal, CompiledOps
  <1>3. CASE Straight \/ Jump \/ JumpIf
    BY <1>1, <1>3, StraightGoesOn, JumpGoesOn
  <1>4. CASE Call
    <2>1. Executing("CALL") /\ Enter(cinstr.arg) /\ cinstr.op = "CALL"
      BY <1>1, <1>4, ExecutingFacts DEF Call, CompiledOps
    <2>. QED BY <1>1, <2>1 DEF Entered, Enter, TypeOK, Frames, outcome
  <1>5. CASE Return
    BY <1>5 DEF Return, Left, outcome
  <1>. QED BY <1>2, <1>3, <1>4, <1>5 DEF Next, Straight, Ending
-----------------------------------------------------------------------------
(* In code that nests, the number of open calls is at most the level of the  *)
(* instruction reached, and a caller's number at most that of its call.      *)
Level(i) == LevelAt[prog][i]

LevelInv == Nested(prog.code, LevelAt[prog]) =>
    /\ status = "running" => sp <= Level(ip + 1)
    /\ \A k \in 0..sp - 1 : k <= Level(CallSite(k))
    /\ status # "frame_overflow"

(* What nesting says of a position, of its call and of its successors.       *)
LEMMA NestedAt ==
  ASSUME Nested(prog.code, LevelAt[prog]), NEW i \in DOMAIN prog.code
  PROVE  /\ Level(i) \in Frames
         /\ prog.code[i].op = "CALL" => Level(i) < Level(prog.code[i].arg + 1)
         /\ \A j \in Successors(prog.code, i) : Level(i) <= Level(j)
  BY DEF Nested, Level

LEMMA LevelStep == SafeInv /\ LevelInv /\ [Next]_vars => LevelInv'
  <1>. SUFFICES ASSUME SafeInv, LevelInv, [Next]_vars,
                       Nested(prog.code, LevelAt[prog])'
                PROVE  /\ status' = "running" => sp' <= LevelAt[prog'][ip' + 1]
                       /\ \A k \in 0..sp' - 1 : k <= LevelAt[prog'][return_addresses'[k] + 1]
                       /\ status' # "frame_overflow"
    BY DEF LevelInv, Level, CallSite
  <1>1. TypeOK /\ sp \in Nat /\ prog' = prog
    <2>1. TypeOK
      BY DEF SafeInv
    <2>2. prog' = prog
      BY <2>1, OpenCalls
    <2>. QED BY <2>1, <2>2 DEF TypeOK, Frames
  <1>2. /\ Nested(prog.code, LevelAt[prog])
        /\ status = "running" => sp <= Level(ip + 1)
        /\ \A k \in 0..sp - 1 : k <= Level(return_addresses[k] + 1)
        /\ status # "frame_overflow"
    BY <1>1 DEF LevelInv, CallSite
  <1>3. CASE UNCHANGED vars
    BY <1>2, <1>3 DEF vars, callframes, outcome, Level
  <1>4. CASE Next
    <2>1. /\ status = "running" /\ ip + 1 \in DOMAIN prog.code
          /\ cinstr = prog.code[ip + 1]
          /\ ArgumentOK(prog, DepthAt[prog], ip + 1)
      BY <1>4, NextRuns, RunningFacts
    <2>2. Level(ip + 1) \in Frames /\ sp <= Level(ip + 1)
      BY <1>2, <2>1, NestedAt
    <2>3. CASE GoesOn
      <3>1. ip' + 1 \in Successors(prog.code, ip + 1) /\ UNCHANGED <<sp, return_addresses, status>>
        BY <2>3 DEF GoesOn, callframes
      <3>2. ip' + 1 \in DOMAIN prog.code
        BY <1>1, <2>1, <3>1, VerifiedAt
      <3>3. Level(ip + 1) <= Level(ip' + 1) /\ Level(ip' + 1) \in Frames
        BY <1>2, <2>1, <3>1, <3>2, NestedAt
      <3>4. sp <= Level(ip' + 1)
        BY <1>1, <2>2, <3>3 DEF Frames
      <3>. QED BY <1>1, <1>2, <3>1, <3>4 DEF Level
    <2>4. CASE Entered
      <3>1. cinstr.op = "CALL" /\ cinstr.arg + 1 \in DOMAIN prog.code
        BY <2>1, <2>4 DEF Entered, ArgumentOK
      <3>2. Level(ip + 1) < Level(cinstr.arg + 1) /\ Level(cinstr.arg + 1) \in Frames
        BY <1>2, <2>1, <3>1, NestedAt
      <3>3. sp + 1 <= Level(cinstr.arg + 1)
        BY <1>1, <2>2, <3>2 DEF Frames
      <3>4. ASSUME NEW k \in 0..sp
            PROVE  k <= Level(return_addresses'[k] + 1)
        <4>1. CASE k = sp
          BY <1>1, <2>2, <2>4, <4>1 DEF Entered, TypeOK
        <4>2. CASE k # sp
          <5>1. k \in 0..sp - 1 /\ return_addresses'[k] = return_addresses[k]
            BY <1>1, <2>4, <4>2 DEF Entered, TypeOK
          <5>. QED BY <1>2, <5>1
        <4>. QED BY <4>1, <4>2
      <3>5. sp' = sp + 1 /\ ip' = cinstr.arg /\ status' = "running"
        BY <2>1, <2>4 DEF Entered
      <3>6. 0..sp' - 1 = 0..sp
        BY <1>1, <3>5
      <3>. QED BY <1>1, <3>3, <3>4, <3>5, <3>6 DEF Level
    <2>5. CASE Left
      <3>1. sp - 1 \in 0..sp - 1 /\ sp' = sp - 1 /\ UNCHANGED <<return_addresses, status>>
            /\ ip' = return_addresses[sp - 1] + 1
        BY <1>1, <2>5 DEF Left
      <3>2. ip' \in DOMAIN prog.code /\ prog.code[ip'].op = "CALL"
        BY <3>1, CallerFacts
      <3>3. ip' + 1 \in Successors(prog.code, ip')
        BY <3>2 DEF Successors
      <3>4. ip' + 1 \in DOMAIN prog.code
        BY <1>1, <3>2, <3>3, VerifiedAt
      <3>5. /\ Level(ip') <= Level(ip' + 1)
            /\ Level(ip') \in Frames /\ Level(ip' + 1) \in Frames
        BY <1>2, <3>2, <3>3, <3>4, NestedAt
      <3>6. sp - 1 <= Level(ip')
        BY <1>2, <3>1
      <3>7. sp - 1 <= Level(ip' + 1)
        BY <1>1, <3>5, <3>6 DEF Frames
      <3>8. \A k \in 0..sp' - 1 : k \in 0..sp - 1
        BY <1>1, <3>1
      <3>. QED BY <1>1, <1>2, <3>1, <3>7, <3>8 DEF Level
    <2>6. CASE Ending
      <3>1. status' # "running" /\ UNCHANGED <<sp, return_addresses>>
        BY <1>1, <2>6, EndingFacts DEF callframes
      <3>2. ~FrameOverflow
        <4>1. SUFFICES ASSUME FrameOverflow PROVE FALSE
          OBVIOUS
        <4>2. cinstr.op = "CALL" /\ sp = FrameLimit - 1
          BY <1>1, <2>1, <4>1, CompiledOnly, ExecutingFacts DEF FrameOverflow, CompiledOps
        <4>3. cinstr.arg + 1 \in DOMAIN prog.code
          BY <2>1, <4>2 DEF ArgumentOK
        <4>4. Level(ip + 1) < Level(cinstr.arg + 1) /\ Level(cinstr.arg + 1) \in Frames
          BY <1>2, <2>1, <4>2, <4>3, NestedAt
        <4>. QED BY <1>1, <2>2, <4>2, <4>4 DEF Frames
      <3>3. status' # "frame_overflow"
        BY <2>6, <3>2 DEF Ending, ExitInstruction, CallExit, PrintUnknownType, EndOfCode,
                          InvalidInstruction, WildJump, Underflow, FrameUnderflow, BadAddress,
                          BadPointer, Fault, End
      <3>. QED BY <1>1, <1>2, <3>1, <3>3 DEF Level
    <2>. QED BY <1>4, <2>3, <2>4, <2>5, <2>6, WaysOn
  <1>. QED BY <1>3, <1>4

LEMMA LevelInit == Init => LevelInv
  <1>. SUFFICES ASSUME Init, Nested(prog.code, LevelAt[prog])
                PROVE  /\ sp <= Level(ip + 1)
                       /\ \A k \in 0..sp - 1 : k <= Level(CallSite(k))
                       /\ status # "frame_overflow"
    BY DEF LevelInv
  <1>1. SafeInv /\ status = "running" /\ sp = 0
    BY SafeInit DEF Init, vm_init
  <1>2. Level(ip + 1) \in Frames
    BY <1>1, RunningFacts, NestedAt
  <1>. QED BY <1>1, <1>2 DEF Frames

(* FramesSuffice: functions that call each other in an order never run out   *)
(* of frames, however many there are and however many calls they make.       *)
THEOREM FramesAreEnough == Spec => []FramesSuffice
  <1>1. LevelInv => FramesSuffice
    BY DEF LevelInv, FramesSuffice
  <1>. QED BY <1>1, Safe, LevelInit, LevelStep, PTL DEF Spec
-----------------------------------------------------------------------------
(* In code that only jumps forward every successor is further on.            *)
LEMMA SuccessorsAhead ==
  ASSUME TypeOK, JumpsForward(prog.code), NEW i \in DOMAIN prog.code,
         NEW j \in Successors(prog.code, i)
  PROVE  j > i
  <1>1. prog.code \in Seq(Instr)
    BY ImagesAssumption DEF TypeOK
  <1>2. i \in Nat
    BY <1>1
  <1>. QED BY <1>2 DEF Successors, JumpsForward

LEMMA StepAdvances ==
  ASSUME SafeInv, Next, JumpsForward(prog.code), status' = "running"
  PROVE  \E k \in 0..sp : AdvanceAt(k)
  <1>1. TypeOK /\ sp \in Nat /\ ip \in Int
    BY DEF SafeInv, TypeOK, Frames
  <1>2. ip + 1 \in DOMAIN prog.code
    BY NextRuns, RunningFacts
  <1>3. CASE GoesOn
    <2>1. UNCHANGED <<sp, return_addresses>>
      BY <1>3 DEF GoesOn, callframes
    <2>2. ip' > ip
      <3>1. ip' + 1 > ip + 1
        BY <1>1, <1>2, <1>3, SuccessorsAhead DEF GoesOn
      <3>2. ip' \in Int /\ ip \in Int
        BY TypeStep DEF SafeInv, TypeOK
      <3>3. \A m, n \in Int : m + 1 > n + 1 => m > n
        OBVIOUS
      <3>. QED BY <3>1, <3>2, <3>3
    <2>3. PICK k \in 0..sp : k = sp
      BY <1>1
    <2>4. PlaceOf(k)' > PlaceOf(k)
      <3>1. ~(k < sp) /\ ~(k < sp')
        BY <1>1, <2>1, <2>3
      <3>. QED BY <2>2, <3>1 DEF PlaceOf
    <2>5. \A j \in 0..k - 1 : PlaceOf(j)' = PlaceOf(j)
      BY <1>1, <2>1, <2>3 DEF PlaceOf
    <2>6. AdvanceAt(k)
      BY <1>1, <2>1, <2>3, <2>4, <2>5 DEF AdvanceAt
    <2>. QED BY <2>6
  <1>4. CASE Entered
    <2>1. sp' = sp + 1 /\ return_addresses'[sp] = ip
      BY <1>1, <1>4 DEF Entered, TypeOK
    <2>2. \A j \in 0..sp - 1 : return_addresses'[j] = return_addresses[j]
      BY <1>1, <1>4 DEF Entered, TypeOK
    <2>3. PICK k \in 0..sp : k = sp
      BY <1>1
    <2>4. PlaceOf(k)' = PlaceOf(k)
      BY <1>1, <2>1, <2>3 DEF PlaceOf
    <2>5. \A j \in 0..k - 1 : PlaceOf(j)' = PlaceOf(j)
      BY <1>1, <2>1, <2>2, <2>3 DEF PlaceOf
    <2>6. AdvanceAt(k)
      BY <2>1, <2>3, <2>4, <2>5 DEF AdvanceAt
    <2>. QED BY <2>6
  <1>5. CASE Left
    <2>1. /\ sp > 0 /\ sp' = sp - 1 /\ return_addresses' = return_addresses
          /\ ip' = return_addresses[sp - 1] + 1
      BY <1>5 DEF Left
    <2>2. return_addresses[sp - 1] \in Int
      BY <1>1, <2>1 DEF TypeOK, Frames
    <2>3. PICK k \in 0..sp : k = sp - 1
      BY <1>1, <2>1
    <2>4. AdvanceAt(k)
      BY <1>1, <2>1, <2>2, <2>3 DEF AdvanceAt, PlaceOf
    <2>. QED BY <2>4
  <1>6. CASE Ending
    BY <1>1, <1>6, EndingFacts
  <1>. QED BY <1>3, <1>4, <1>5, <1>6, WaysOn

(* ControlAdvances: however functions are called, code that only jumps       *)
(* forward never takes an activation to the same place twice.                *)
THEOREM ControlMovesOn == Spec => ControlAdvances
  <1>1. SafeInv /\ [Next]_vars
          => [JumpsForward(prog.code) /\ status' = "running" =>
                 \E k \in 0..sp : AdvanceAt(k)]_vars
    BY StepAdvances
  <1>. QED BY <1>1, Safe, PTL DEF Spec, ControlAdvances
=============================================================================
