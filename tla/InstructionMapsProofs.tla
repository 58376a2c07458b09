------------------------ MODULE InstructionMapsProofs ------------------------
(***************************************************************************)
(* Which writes of the compiler can pass the end of a buffer, for every     *)
(* source, every size of the buffers, and any number of shell inputs.       *)
(***************************************************************************)
EXTENDS InstructionMaps, SequenceTheorems, TLAPS

USE SizesAssumption, MapBoundsAssumption

-----------------------------------------------------------------------------
(* Maps.                                                                     *)

(* A map within its block has room after it was grown, and is within its     *)
(* block, grown, when an instruction has been appended.                      *)
LEMMA AppendWithin ==
  ASSUME NEW m \in Map, Within(m)
  PROVE  /\ Fits(Grown(m))
         /\ append_instruction(m) \in Map
         /\ Within(append_instruction(m))
  BY DEF Map, Within, Fits, Grown, Longer, append_instruction

(* Copying into a map with room leaves room.                                 *)
LEMMA CopyLeavesRoom ==
  ASSUME NEW m \in Map, Fits(m)
  PROVE  /\ Grown(Longer(m)) \in Map
         /\ Within(Grown(Longer(m)))
         /\ Fits(Grown(Longer(m)))
  <1>1. Longer(m) = [length |-> m.length + 1, size |-> m.size]
    BY DEF Map, Longer
  <1>2. CASE m.length + 1 = m.size
    <2>1. Grown(Longer(m)) = [length |-> m.length + 1, size |-> 2 * m.size]
      BY <1>1, <1>2 DEF Grown
    <2>. QED BY <1>2, <2>1 DEF Map, Within, Fits
  <1>3. CASE m.length + 1 # m.size
    BY <1>1, <1>3 DEF Map, Within, Fits, Grown
  <1>. QED BY <1>2, <1>3

LEMMA InitMapWithin == init_map \in Map /\ Within(init_map)
  BY DEF init_map, Map, Within

LEMMA InnermostBody ==
  ASSUME RoomKept, open # <<>>
  PROVE  innermost \in DOMAIN bodies
  <1>1. open \in Seq(DOMAIN bodies) /\ Len(open) \in Nat \ {0}
    BY EmptySeq DEF RoomKept
  <1>. QED BY <1>1, ElementOfSeq DEF innermost

LEMMA CurrentMap == ASSUME RoomKept PROVE current \in Map /\ Within(current)
  <1>1. CASE open = <<>>
    BY <1>1 DEF RoomKept, current
  <1>2. CASE open # <<>>
    BY <1>2, InnermostBody, ElementOfSeq DEF RoomKept, current
  <1>. QED BY <1>1, <1>2

(* Writing the current map changes nothing else.                             *)
LEMMA SetCurrentMaps ==
  ASSUME RoomKept, NEW m \in Map, Within(m), SetCurrent(m)
  PROVE  /\ map' \in Map /\ Within(map')
         /\ bodies' \in Seq(Map) /\ Len(bodies') = Len(bodies)
         /\ DOMAIN bodies' = DOMAIN bodies
         /\ \A i \in DOMAIN bodies' : Within(bodies'[i])
  <1>1. CASE open = <<>>
    BY <1>1 DEF RoomKept, SetCurrent
  <1>2. CASE open # <<>>
    <2>1. innermost \in 1..Len(bodies) /\ bodies \in Seq(Map) /\ DOMAIN bodies = 1..Len(bodies)
      BY <1>2, InnermostBody DEF RoomKept
    <2>2. bodies' = [bodies EXCEPT ![innermost] = m] /\ map' = map
      BY <1>2 DEF SetCurrent
    <2>3. /\ bodies' \in Seq(Map) /\ Len(bodies') = Len(bodies)
          /\ \A i \in 1..Len(bodies) : bodies'[i] = IF i = innermost THEN m ELSE bodies[i]
      BY <2>1, <2>2, ExceptSeq
    <2>. QED BY <2>1, <2>2, <2>3 DEF RoomKept
  <1>. QED BY <1>1, <1>2
-----------------------------------------------------------------------------
(* What every step keeps.                                                    *)

IInv == RoomKept /\ OverrunOnlyAtLabel

(* A step of compile_objects: the current map is written, the rest is kept.  *)
LEMMA CompilingStep ==
  ASSUME IInv, linking = 0, overrun = "none",
         NEW m \in Map, Within(m), SetCurrent(m),
         references' \in 0..ReferenceSize,
         UNCHANGED <<shell_env, open, functions_size, linker, inputs, overrun>>
  PROVE  IInv'
  <1>1. /\ map' \in Map /\ Within(map')
        /\ bodies' \in Seq(Map) /\ Len(bodies') = Len(bodies) /\ DOMAIN bodies' = DOMAIN bodies
        /\ \A i \in DOMAIN bodies' : Within(bodies'[i])
    BY SetCurrentMaps DEF IInv
  <1>2. copied' = -1 /\ linking' = 0 /\ overrun' = "none"
    BY DEF IInv, RoomKept, linker
  <1>3. RoomKept'
    BY <1>1, <1>2 DEF IInv, RoomKept, linker
  <1>. QED BY <1>2, <1>3 DEF IInv, OverrunOnlyAtLabel

(* A write past the end changes nothing but the verdict.                     *)
LEMMA OverrunStep ==
  ASSUME IInv, NEW routine \in Routines, Overrun(routine),
         routine \notin {"append_instruction", "append_function"},
         routine = "compile_objects" => references = ReferenceSize,
         routine = "push_instructions" => copied = 0 /\ map.length = map.size
  PROVE  IInv'
  BY DEF IInv, RoomKept, OverrunOnlyAtLabel, Overrun, linker, Fits, Within

LEMMA PushInstructionStep == ASSUME IInv, PushInstruction PROVE IInv'
  <1>1. current \in Map /\ Within(current)
    BY CurrentMap DEF IInv
  <1>2. /\ SetCurrent(append_instruction(current))
        /\ UNCHANGED <<shell_env, open, functions_size, references, linker, inputs, overrun>>
    BY <1>1, AppendWithin DEF PushInstruction
  <1>3. linking = 0 /\ overrun = "none" /\ references' \in 0..ReferenceSize
    BY <1>2 DEF PushInstruction, Compiling, IInv, RoomKept
  <1>. QED BY <1>1, <1>2, <1>3, AppendWithin, CompilingStep

LEMMA PushVariableStep == ASSUME IInv, PushVariable PROVE IInv'
  <1>1. current \in Map /\ Within(current)
    BY CurrentMap DEF IInv
  <1>2. Fits(Grown(current))
    BY <1>1, AppendWithin
  <1>3. linking = 0 /\ overrun = "none" /\ references \in 0..ReferenceSize
    BY DEF PushVariable, Compiling, IInv, RoomKept
  <1>4. CASE references >= ReferenceSize
    <2>1. Overrun("compile_objects") /\ references = ReferenceSize
      BY <1>2, <1>3, <1>4 DEF PushVariable
    <2>. QED BY <2>1, OverrunStep DEF Routines
  <1>5. CASE ~(references >= ReferenceSize)
    <2>1. /\ SetCurrent(append_instruction(current))
          /\ references' = references + 1
          /\ UNCHANGED <<shell_env, open, functions_size, linker, inputs, overrun>>
      BY <1>2, <1>5 DEF PushVariable
    <2>2. references' \in 0..ReferenceSize
      BY <1>3, <1>5, <2>1
    <2>. QED BY <1>1, <1>3, <2>1, <2>2, AppendWithin, CompilingStep
  <1>. QED BY <1>4, <1>5

LEMMA OpenFunctionStep == ASSUME IInv, OpenFunction PROVE IInv'
  <1>1. /\ bodies \in Seq(Map) /\ Len(bodies) \in Nat /\ Len(bodies) <= functions_size
        /\ functions_size \in Nat \ {0} /\ open \in Seq(DOMAIN bodies)
        /\ DOMAIN bodies = 1..Len(bodies)
    BY DEF IInv, RoomKept
  <1>2. Len(bodies) < GrownTable /\ GrownTable \in Nat \ {0}
    <2>1. CASE Len(bodies) = functions_size
      BY <1>1, <2>1 DEF GrownTable
    <2>2. CASE Len(bodies) # functions_size
      <3>1. GrownTable = functions_size
        BY <2>2 DEF GrownTable
      <3>2. \A n, size \in Nat : n <= size /\ n # size => n < size
        OBVIOUS
      <3>3. Len(bodies) < functions_size
        <4>1. Len(bodies) \in Nat /\ functions_size \in Nat /\ Len(bodies) <= functions_size
          BY <1>1
        <4>. QED BY <2>2, <3>2, <4>1, Zenon
      <3>. QED BY <1>1, <3>1, <3>3
    <2>. QED BY <2>1, <2>2
  <1>3. /\ functions_size' = GrownTable
        /\ bodies' = Append(bodies, init_map)
        /\ open' = Append(open, Len(bodies) + 1)
        /\ UNCHANGED <<shell_env, map, references, linker, inputs, overrun>>
    BY <1>2 DEF OpenFunction
  <1>4. linking = 0 /\ overrun = "none"
    BY DEF OpenFunction, Compiling
  <1>5. /\ bodies' \in Seq(Map) /\ Len(bodies') = Len(bodies) + 1
        /\ DOMAIN bodies' = 1..Len(bodies) + 1
        /\ \A i \in DOMAIN bodies' : Within(bodies'[i])
    <2>1. /\ bodies' \in Seq(Map) /\ Len(bodies') = Len(bodies) + 1
          /\ \A i \in 1..Len(bodies) : bodies'[i] = bodies[i]
          /\ bodies'[Len(bodies) + 1] = init_map
      BY <1>1, <1>3, InitMapWithin, AppendProperties
    <2>2. DOMAIN bodies' = 1..Len(bodies) + 1
      BY <2>1
    <2>3. ASSUME NEW i \in DOMAIN bodies' PROVE Within(bodies'[i])
      <3>1. CASE i \in 1..Len(bodies)
        BY <1>1, <2>1, <3>1 DEF IInv, RoomKept
      <3>2. CASE i = Len(bodies) + 1
        BY <2>1, <3>2, InitMapWithin
      <3>. QED BY <1>1, <2>2, <3>1, <3>2
    <2>. QED BY <2>1, <2>2, <2>3
  <1>6. open' \in Seq(DOMAIN bodies')
    <2>1. open \in Seq(DOMAIN bodies')
      <3>1. DOMAIN bodies \subseteq DOMAIN bodies'
        BY <1>1, <1>5
      <3>. QED BY <1>1, <3>1, SeqMonotonic
    <2>2. Len(bodies) + 1 \in DOMAIN bodies'
      BY <1>1, <1>5
    <2>. QED BY <1>3, <2>1, <2>2, AppendProperties
  <1>7. copied' = -1 /\ linking' = 0 /\ overrun' = "none"
    BY <1>1, <1>3, <1>4 DEF IInv, RoomKept, linker
  <1>8. RoomKept'
    BY <1>1, <1>2, <1>3, <1>5, <1>6, <1>7 DEF IInv, RoomKept, linker
  <1>. QED BY <1>7, <1>8 DEF IInv, OverrunOnlyAtLabel

LEMMA CloseFunctionStep == ASSUME IInv, CloseFunction PROVE IInv'
  <1>1. open \in Seq(DOMAIN bodies) /\ Len(open) \in Nat \ {0}
    BY EmptySeq DEF IInv, RoomKept, CloseFunction
  <1>2. open' \in Seq(DOMAIN bodies)
    <2>1. \A i \in 1..Len(open) - 1 : open[i] \in DOMAIN bodies
      BY <1>1, ElementOfSeq
    <2>. QED BY <1>1, <2>1, SubSeqProperties, 1 \in Int, Len(open) - 1 \in Int DEF CloseFunction
  <1>3. UNCHANGED <<shell_env, map, bodies, functions_size, references, linker, inputs, overrun>>
    BY DEF CloseFunction
  <1>. QED BY <1>2, <1>3 DEF IInv, RoomKept, OverrunOnlyAtLabel, linker, Fits, Within

LEMMA OpenScopeStep == ASSUME IInv, OpenScope PROVE IInv'
  <1>. DEFINE m == [current EXCEPT !.length = 0]
  <1>1. m \in Map /\ Within(m)
    BY CurrentMap DEF IInv, Map, Within
  <1>2. /\ SetCurrent(m)
        /\ UNCHANGED <<shell_env, open, functions_size, references, linker, inputs, overrun>>
    BY DEF OpenScope
  <1>3. linking = 0 /\ overrun = "none" /\ references' \in 0..ReferenceSize
    BY <1>2 DEF OpenScope, Compiling, IInv, RoomKept
  <1>. HIDE DEF m
  <1>. QED BY <1>1, <1>2, <1>3, CompilingStep

(* An append of compile keeps the invariant wherever the link goes on.       *)
LEMMA LinkAppendStep ==
  ASSUME IInv, NEW i \in Nat, NEW n \in {-1, 0}, LinkAppend(i, n), overrun = "none",
         i \notin DOMAIN bodies => n = -1
  PROVE  IInv'
  <1>1. map \in Map /\ Within(map)
    BY DEF IInv, RoomKept
  <1>2. /\ map' = append_instruction(map) /\ linking' = i /\ copied' = n
        /\ UNCHANGED <<shell_env, bodies, open, functions_size, references, inputs, overrun>>
    BY <1>1, AppendWithin DEF LinkAppend
  <1>3. map' \in Map /\ Within(map')
    BY <1>1, <1>2, AppendWithin
  <1>. QED BY <1>2, <1>3 DEF IInv, RoomKept, OverrunOnlyAtLabel, Within

LEMMA LinkStep ==
  ASSUME IInv, PushExit \/ \E i \in DOMAIN bodies : PushLabel(i) \/ PushReturn(i)
  PROVE  IInv'
  <1>1. CASE PushExit
    BY <1>1, LinkAppendStep DEF PushExit, Compiling
  <1>2. ASSUME NEW i \in DOMAIN bodies, PushLabel(i) \/ PushReturn(i) PROVE IInv'
    <2>1. i \in Nat /\ i + 1 \in Nat
      BY <1>2 DEF IInv, RoomKept
    <2>. QED BY <1>2, <2>1, LinkAppendStep DEF PushLabel, PushReturn, Linking
  <1>. QED BY <1>1, <1>2

LEMMA CopyStep ==
  ASSUME IInv, NEW i \in DOMAIN bodies, push_instructions(i)
  PROVE  IInv'
  <1>1. map \in Map /\ Within(map) /\ copied \in Nat /\ overrun = "none" /\ linking = i
    BY DEF IInv, RoomKept, push_instructions, Copying, Linking
  <1>2. CASE Fits(map)
    <2>1. /\ map' = Grown(Longer(map)) /\ copied' = copied + 1
          /\ UNCHANGED <<shell_env, bodies, open, functions_size, references, linking, inputs,
                         overrun>>
      BY <1>2 DEF push_instructions
    <2>2. map' \in Map /\ Within(map') /\ Fits(map')
      BY <1>1, <1>2, <2>1, CopyLeavesRoom
    <2>3. RoomKept'
      BY <1>1, <2>1, <2>2 DEF IInv, RoomKept, Within, Fits
    <2>. QED BY <1>1, <2>1, <2>3 DEF IInv, OverrunOnlyAtLabel
  <1>3. CASE ~Fits(map)
    <2>1. Overrun("push_instructions")
      BY <1>3 DEF push_instructions
    <2>2. copied = 0 /\ map.length = map.size
      BY <1>1, <1>3 DEF IInv, RoomKept, Map, Within, Fits
    <2>. QED BY <2>1, <2>2, OverrunStep DEF Routines
  <1>. QED BY <1>2, <1>3

LEMMA NextInputStep == ASSUME IInv, NextInput PROVE IInv'
  <1>1. map' \in Map /\ Within(map')
    <2>1. map' = [map EXCEPT !.length = 0]
      BY DEF NextInput
    <2>2. map' = [length |-> 0, size |-> map.size]
      BY <2>1 DEF IInv, RoomKept, Map
    <2>. QED BY <2>2 DEF IInv, RoomKept, Map, Within
  <1>2. copied = -1
    BY DEF IInv, RoomKept, NextInput
  <1>3. RoomKept'
    BY <1>1, <1>2 DEF IInv, RoomKept, NextInput, Within
  <1>. QED BY <1>3 DEF IInv, OverrunOnlyAtLabel, NextInput

LEMMA IInvStep == IInv /\ [Next]_vars => IInv'
  <1>. SUFFICES ASSUME IInv, [Next]_vars PROVE IInv'
    OBVIOUS
  <1>1. CASE UNCHANGED vars
    BY <1>1 DEF vars, linker, IInv, RoomKept, OverrunOnlyAtLabel, Fits, Within
  <1>2. CASE Next
    BY <1>2, PushInstructionStep, PushVariableStep, OpenFunctionStep, CloseFunctionStep,
       OpenScopeStep, LinkStep, CopyStep, NextInputStep DEF Next
  <1>. QED BY <1>1, <1>2

LEMMA IInvInit == Init => IInv
  BY InitMapWithin, EmptySeq DEF Init, IInv, RoomKept, OverrunOnlyAtLabel

(* No map is longer than its block, for blocks and growth of any sizes: what *)
(* push_instruction and push_instructions leave to each other is enough.     *)
THEOREM RoomIsKept == Spec => []RoomKept
  <1>1. IInv => RoomKept
    BY DEF IInv
  <1>. QED BY IInvInit, IInvStep, <1>1, PTL DEF Spec

(* The only writes past an end are those that OverrunOnlyAtLabel names, for  *)
(* buffers of any sizes.                                                     *)
THEOREM BuffersHold == Spec => []OverrunOnlyAtLabel
  <1>1. IInv => OverrunOnlyAtLabel
    BY DEF IInv
  <1>. QED BY IInvInit, IInvStep, <1>1, PTL DEF Spec
=============================================================================
