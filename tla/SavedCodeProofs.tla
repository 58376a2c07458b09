---------------------------- MODULE SavedCodeProofs ----------------------------
(***************************************************************************)
(* Verified code that is saved to a file, loaded in another process and     *)
(* executed there (save_to_file, read_from_file, execute_bytecode): what    *)
(* the file keeps is enough for the code to be safe to run.                 *)
(***************************************************************************)
EXTENDS VerifiedCodeProofs, BytecodeFileProofs

USE FrameLimitAssumption, CellLimitAssumption

\* The image without the arguments that are not saved.
KeptImage(i) == [code |-> Kept(i.code), pool |-> i.pool]

-----------------------------------------------------------------------------
(* What is not saved means nothing to the instruction it belongs to.         *)

LEMMA KeptInstr ==
  ASSUME NEW i \in Instr
  PROVE  /\ Loaded(i).op = i.op
         /\ Loaded(i) \in Instr
         /\ Operands(Loaded(i)) = Operands(i)
         /\ Growth(Loaded(i)) = Growth(i)
         /\ i.op \in {"EXIT", "LOADBOOL", "LOADC", "LOADPOOL", "JUMP", "JUMPIF", "CALL",
                      "CALLC", "STORE", "LOAD"} => Loaded(i) = i
  <1>1. /\ Loaded(i).op = i.op /\ Loaded(i) \in Instr
        /\ Loaded(i) # i => Loaded(i) = [i EXCEPT !.arg = 0] /\ bytes_to_read[i.op] = 0
    BY DEF Loaded, Instr
  <1>2. i.op \in {"EXIT", "LOADBOOL", "LOADC", "LOADPOOL", "JUMP", "JUMPIF", "CALL",
                  "CALLC", "STORE", "LOAD"} => bytes_to_read[i.op] # 0
    BY DEF bytes_to_read, Opcodes
  <1>3. i.op = "CALLC" => Loaded(i) = i
    BY <1>1, <1>2
  <1>4. Operands(Loaded(i)) = Operands(i)
    BY <1>1, <1>3 DEF Operands
  <1>5. Growth(Loaded(i)) = Growth(i)
    BY <1>1, <1>3 DEF Growth
  <1>. QED BY <1>1, <1>2, <1>4, <1>5

LEMMA KeptCode ==
  ASSUME NEW code \in Seq(Instr)
  PROVE  /\ DOMAIN Kept(code) = DOMAIN code
         /\ \A k \in DOMAIN code : Kept(code)[k] = Loaded(code[k])
         /\ \A k \in DOMAIN code : /\ InMain(Kept(code), k) <=> InMain(code, k)
                                   /\ Successors(Kept(code), k) = Successors(code, k)
  <1>1. /\ DOMAIN Kept(code) = DOMAIN code
        /\ \A k \in DOMAIN code : Kept(code)[k] = Loaded(code[k])
    BY DEF Kept, Loaded
  <1>2. DOMAIN code = 1..Len(code) /\ Len(code) \in Nat /\ \A k \in DOMAIN code : code[k] \in Instr
    OBVIOUS
  <1>3. \A k \in DOMAIN code : Kept(code)[k].op = code[k].op
    BY <1>1, <1>2, KeptInstr
  <1>4. ASSUME NEW k \in DOMAIN code
        PROVE  InMain(Kept(code), k) <=> InMain(code, k)
    <2>1. \A j \in 1..k - 1 : j \in DOMAIN code
      BY <1>2
    <2>. QED BY <1>3, <2>1 DEF InMain
  <1>5. ASSUME NEW k \in DOMAIN code
        PROVE  Successors(Kept(code), k) = Successors(code, k)
    <2>1. code[k].op \in {"CALLC", "JUMP", "JUMPIF"} => Kept(code)[k] = code[k]
      BY <1>1, <1>2, KeptInstr
    <2>2. Kept(code)[k].op = code[k].op
      BY <1>3
    <2>3. CASE code[k].op \in {"CALLC", "JUMP", "JUMPIF"}
      BY <2>1, <2>3 DEF Successors
    <2>4. CASE code[k].op \notin {"CALLC", "JUMP", "JUMPIF"}
      BY <2>2, <2>4 DEF Successors
    <2>. QED BY <2>3, <2>4
  <1>. QED BY <1>1, <1>4, <1>5

(* A verifier that passes the code passes what a file keeps of it, with the  *)
(* same depths: Images may as well hold the kept image of each of its own.   *)
LEMMA KeptIsVerified ==
  ASSUME NEW i \in Images, NEW depth, Verified(i, depth)
  PROVE  Verified(KeptImage(i), depth)
  <1>. DEFINE code == i.code
              kept == Kept(code)
  <1>1. code \in Seq(Instr)
    BY ImagesAssumption
  <1>2. /\ DOMAIN kept = DOMAIN code
        /\ \A k \in DOMAIN code : kept[k] = Loaded(code[k])
        /\ \A k \in DOMAIN code : InMain(kept, k) <=> InMain(code, k)
        /\ \A k \in DOMAIN code : Successors(kept, k) = Successors(code, k)
    BY <1>1, KeptCode
  <1>3. KeptImage(i).code = kept /\ KeptImage(i).pool = i.pool
    BY DEF KeptImage
  <1>4. 1 \in DOMAIN code
    BY <1>1 DEF Verified
  <1>5. kept # <<>>
    BY <1>2, <1>4
  <1>6. ASSUME NEW k \in DOMAIN code
        PROVE  /\ Operands(kept[k]) <= depth[k]
               /\ ArgumentOK(KeptImage(i), depth, k)
               /\ \A j \in Successors(kept, k) :
                     /\ j \in DOMAIN kept
                     /\ InMain(kept, j) <=> InMain(kept, k)
                     /\ depth[j] <= depth[k] + Growth(kept[k])
    <2>1. /\ Operands(code[k]) <= depth[k]
          /\ ArgumentOK(i, depth, k)
          /\ \A j \in Successors(code, k) :
                /\ j \in DOMAIN code
                /\ InMain(code, j) <=> InMain(code, k)
                /\ depth[j] <= depth[k] + Growth(code[k])
      BY DEF Verified
    <2>2. code[k] \in Instr
      BY <1>1
    <2>3. /\ kept[k].op = code[k].op /\ Operands(kept[k]) = Operands(code[k])
          /\ Growth(kept[k]) = Growth(code[k])
          /\ code[k].op \in {"CALL", "LOADPOOL", "STORE", "LOAD", "CALLC"} => kept[k] = code[k]
      BY <1>2, <2>2, KeptInstr
    <2>4. ArgumentOK(KeptImage(i), depth, k)
      <3>. HIDE DEF code, kept
      <3>1. CASE code[k].op \in {"CALL", "LOADPOOL", "STORE", "LOAD", "CALLC"}
        BY <1>2, <1>3, <2>1, <2>3, <3>1 DEF ArgumentOK, code
      <3>2. CASE code[k].op \notin {"CALL", "LOADPOOL", "STORE", "LOAD", "CALLC"}
        BY <1>2, <1>3, <2>1, <2>3, <3>2 DEF ArgumentOK, code
      <3>. QED BY <3>1, <3>2
    <2>. HIDE DEF code, kept
    <2>. QED BY <1>2, <2>1, <2>3, <2>4
  <1>7. depth \in [DOMAIN code -> Nat] /\ depth[1] = 0
    BY DEF Verified
  <1>. HIDE DEF code, kept
  <1>. QED BY <1>2, <1>3, <1>5, <1>6, <1>7 DEF Verified
-----------------------------------------------------------------------------
(* The invariant: the machine of the second process is untouched until what  *)
(* was loaded is the saved code, and then it is safe.                        *)

LoadedInv ==
    /\ ExecutionInv
    /\ phase = "executing" /\ Clean => SafeInv

LEMMA LoadedInvMeans == LoadedInv => LoadedIsSafe
  BY DEF LoadedInv, SafeInv, NoFault, LoadedIsSafe, Clean

LEMMA LoadedInvStarts == image \in Images /\ Init_File("saving") => LoadedInv
  BY ExecutionInvStarts DEF LoadedInv, Init_File

\* What SafeInit says of the state that a step arrives at.
LEMMA SafeInitNext == Init' => SafeInv'
  BY SafeInit, PTL

LEMMA ExecutionBeginsSafe ==
  ASSUME ExecutionInv, ExecutionInv', BeginExecution, Clean', \A i \in Images : KeptImage(i) \in Images
  PROVE  SafeInv'
  <1>1. phase = "strings" /\ phase' = "executing" /\ Untouched
    BY DEF BeginExecution, ExecutionInv
  <1>2. holder' = Kept(Code)' /\ strings' = Pool' /\ image' \in Images
    BY <1>1 DEF ExecutionInv, FileInv, EndInv, FileTypes
  <1>3. prog' = [code |-> holder', pool |-> strings']
    BY <1>1 DEF ExecutionInv
  <1>4. prog' = KeptImage(image')
    BY <1>2, <1>3 DEF KeptImage, Code, Pool
  <1>5. prog' \in Images
    BY <1>2, <1>4
  <1>6. /\ ip' = 0 /\ vm_init' /\ status' = "running" /\ exit_code' = 0 /\ out' = <<>>
    BY <1>1 DEF BeginExecution, Untouched, vm_init, callframes, memory
  <1>7. Init'
    BY <1>5, <1>6 DEF Init
  <1>. QED BY <1>7, SafeInitNext

LEMMA LoadedInvKept ==
  ASSUME \A i \in Images : KeptImage(i) \in Images
  PROVE  LoadedInv /\ [Next_File]_fileVars => LoadedInv'
  <1>. SUFFICES ASSUME LoadedInv, [Next_File]_fileVars PROVE LoadedInv'
    OBVIOUS
  <1>1. ExecutionInv'
    BY ExecutionInvKept DEF LoadedInv
  <1>. SUFFICES ASSUME phase' = "executing", Clean' PROVE SafeInv'
    BY <1>1 DEF LoadedInv
  <1>2. CASE phase # "executing"
    <2>1. BeginExecution
      BY <1>2 DEF Next_File, SaveInstruction, BeginPool, append_string, CloseFile, OpenFile,
                  ReadInstruction, ReadPool, ReadString, Execute, fileVars
    <2>. QED BY <1>1, <2>1, ExecutionBeginsSafe DEF LoadedInv
  <1>3. CASE phase = "executing"
    <2>1. UNCHANGED saver /\ [Next]_vars
      BY <1>3 DEF Next_File, SaveInstruction, BeginPool, append_string, CloseFile, OpenFile,
                  ReadInstruction, ReadPool, ReadString, BeginExecution, Execute, fileVars
    <2>2. Clean
      BY <2>1, FileStays DEF saver
    <2>. QED BY <1>3, <2>1, <2>2, SafeStep DEF LoadedInv
  <1>. QED BY <1>2, <1>3
-----------------------------------------------------------------------------
(* LoadedIsSafe: verified code is as safe when it comes from a file as when  *)
(* it comes from the compiler, as long as its strings come back: neither     *)
(* read_from_file nor vm_execute checks anything (execute_bytecode).  That   *)
(* Images has the kept images costs nothing: KeptIsVerified.                 *)
THEOREM SavedCodeIsSafe ==
  ASSUME \A i \in Images : KeptImage(i) \in Images
  PROVE  FileSpec => []LoadedIsSafe
  <1>1. LoadedInv /\ [Next_File]_fileVars => LoadedInv'
    BY LoadedInvKept
  <1>. QED BY LoadedInvStarts, LoadedInvMeans, <1>1, PTL DEF FileSpec
=============================================================================
