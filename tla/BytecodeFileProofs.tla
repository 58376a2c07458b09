-------------------------- MODULE BytecodeFileProofs --------------------------
(***************************************************************************)
(* Saving and loading a bytecode file, for every image, whatever memory     *)
(* holds.                                                                   *)
(***************************************************************************)
EXTENDS BytecodeFile, SequenceTheorems, TLAPS

-----------------------------------------------------------------------------
(* The format.                                                               *)

(* Each opcode has one code, and the code has the opcode.                    *)
LEMMA OpcodesHaveCodes ==
  ASSUME NEW op \in Opcodes
  PROVE  OpcodeOf[op] \in 0..28 /\ opcodes[OpcodeOf[op] + 1] = op
  <1>1. Len(opcodes) - 1 = 28
    BY DEF opcodes
  <1>2. \E n \in 0..28 : opcodes[n + 1] = op
    BY DEF Opcodes, opcodes
  <1>3. OpcodeOf[op] = CHOOSE n \in 0..28 : opcodes[n + 1] = op
    BY <1>1 DEF OpcodeOf
  <1>. QED BY <1>2, <1>3

LEMMA PlaceValues ==
  ASSUME NEW a \in Nat, NEW b \in Nat, NEW c \in Nat, NEW d \in Nat,
         NEW x \in Nat, NEW y \in Nat, NEW z \in Nat,
         a = (256 * b) + x, b = (256 * c) + y, c = (256 * d) + z
  PROVE  a = x + (256 * y) + (65536 * z) + (16777216 * d)
  <1>1. 256 * b = (65536 * c) + (256 * y)
    BY SMT
  <1>2. 65536 * c = (16777216 * d) + (65536 * z)
    BY SMT
  <1>. QED BY <1>1, <1>2, SMT

(* The four bytes of an argument make up the argument.                       *)
LEMMA BytesOfArgument ==
  ASSUME NEW arg \in Nat, arg <= MaxArgument
  PROVE  /\ \A k \in Nat : k > 0 => ByteOf(arg, k) \in 0..255
         /\ arg = ByteOf(arg, 1) + (256 * ByteOf(arg, 2)) + (65536 * ByteOf(arg, 3))
                    + (16777216 * ByteOf(arg, 4))
         /\ arg <= 255 => arg = ByteOf(arg, 1)
  <1>1. /\ ByteOf(arg, 1) = arg % 256
        /\ ByteOf(arg, 2) = (arg \div 256) % 256
        /\ ByteOf(arg, 3) = (arg \div 65536) % 256
        /\ ByteOf(arg, 4) = (arg \div 16777216) % 256
        /\ \A k \in Nat : k > 4 => ByteOf(arg, k) = 0
    BY SMT DEF ByteOf, Place
  <1>2. /\ arg = (256 * (arg \div 256)) + (arg % 256)
        /\ arg \div 256 \in Nat /\ arg % 256 \in 0..255
    BY SMT
  <1>3. /\ arg \div 256 = (256 * (arg \div 65536)) + ((arg \div 256) % 256)
        /\ arg \div 65536 \in Nat /\ (arg \div 256) % 256 \in 0..255
    BY SMT
  <1>4. /\ arg \div 65536 = (256 * (arg \div 16777216)) + ((arg \div 65536) % 256)
        /\ arg \div 16777216 \in Nat /\ (arg \div 65536) % 256 \in 0..255
    BY SMT
  <1>5. arg \div 16777216 < 128
    BY SMT DEF MaxArgument
  <1>6. (arg \div 16777216) % 256 = arg \div 16777216
    BY <1>4, <1>5, SMT
  <1>7. \A k \in Nat : k > 0 => ByteOf(arg, k) \in 0..255
    <2>1. ASSUME NEW k \in Nat, k > 0, k <= 4 PROVE ByteOf(arg, k) \in 0..255
      <3>1. k = 1 \/ k = 2 \/ k = 3 \/ k = 4
        BY <2>1
      <3>. QED BY <1>1, <1>2, <1>3, <1>4, <1>5, <1>6, <3>1, SMTT(20)
    <2>. QED BY <1>1, <2>1, SMT
  <1>8. arg <= 255 => arg = ByteOf(arg, 1)
    BY <1>1, <1>2, SMT
  <1>9. arg = ByteOf(arg, 1) + (256 * ByteOf(arg, 2)) + (65536 * ByteOf(arg, 3))
                    + (16777216 * ByteOf(arg, 4))
    <2>1. /\ arg % 256 \in Nat /\ (arg \div 256) % 256 \in Nat
          /\ (arg \div 65536) % 256 \in Nat
      BY <1>2, <1>3, <1>4, SMT
    <2>2. arg = (arg % 256) + (256 * ((arg \div 256) % 256))
                  + (65536 * ((arg \div 65536) % 256)) + (16777216 * (arg \div 16777216))
      BY <1>2, <1>3, <1>4, <2>1, PlaceValues
    <2>. QED BY <1>1, <1>6, <2>2
  <1>. QED BY <1>7, <1>8, <1>9

LEMMA BytesToRead == ASSUME NEW op \in Opcodes PROVE bytes_to_read[op] \in {0, 1, 4, 8}
  BY DEF bytes_to_read

LEMMA MaxArgumentType == MaxArgument \in Nat /\ MaxArgument > 255
  BY SMT DEF MaxArgument

LEMMA FunctionIsSeq ==
  ASSUME NEW S, NEW n \in Nat, NEW f \in [1..n -> S]
  PROVE  f \in Seq(S) /\ Len(f) = n
  OBVIOUS

LEMMA BytesWritten ==
  ASSUME NEW i \in Instr, Fits(i)
  PROVE  \A k \in 1..bytes_to_read[i.op] : ByteOf(i.arg, k) \in 0..255
  <1>. DEFINE n == bytes_to_read[i.op]
  <1>1. n \in {0, 1, 4, 8}
    BY BytesToRead DEF Fits
  <1>2. CASE n = 0
    BY <1>2
  <1>3. CASE n # 0
    <2>1. i.arg \in Nat /\ i.arg <= MaxArgument
      BY <1>1, <1>3, MaxArgumentType DEF Fits
    <2>. QED BY <1>1, <2>1, BytesOfArgument
  <1>. QED BY <1>2, <1>3

(* What is written for an instruction.                                       *)
LEMMA EncodedBytes ==
  ASSUME NEW i \in Instr, Fits(i)
  PROVE  /\ Encoded(i) \in Seq(0..255)
         /\ Len(Encoded(i)) = 1 + bytes_to_read[i.op]
         /\ Encoded(i)[1] = OpcodeOf[i.op]
         /\ \A k \in 1..bytes_to_read[i.op] : Encoded(i)[1 + k] = ByteOf(i.arg, k)
  <1>. DEFINE n == bytes_to_read[i.op]
  <1>1. n \in {0, 1, 4, 8} /\ OpcodeOf[i.op] \in 0..28
    BY BytesToRead, OpcodesHaveCodes DEF Fits
  <1>2. write_bytes(i.arg, n) \in Seq(0..255) /\ Len(write_bytes(i.arg, n)) = n
    <2>1. n \in Nat
      BY <1>1
    <2>2. write_bytes(i.arg, n) \in [1..n -> 0..255]
      BY BytesWritten DEF write_bytes
    <2>. HIDE DEF n
    <2>. QED BY <2>1, <2>2, FunctionIsSeq
  <1>3. \A k \in 1..n : write_bytes(i.arg, n)[k] = ByteOf(i.arg, k)
    BY DEF write_bytes
  <1>4. <<OpcodeOf[i.op]>> \in Seq(0..255) /\ Len(<<OpcodeOf[i.op]>>) = 1
    BY <1>1
  <1>. HIDE DEF n
  <1>. QED BY <1>1, <1>2, <1>3, <1>4, ConcatProperties DEF Encoded, n

\* What is left of an instruction that is saved and loaded.
Loaded(i) == IF bytes_to_read[i.op] = 0 THEN [i EXCEPT !.arg = 0] ELSE i

(* The bytes written for an instruction, at any place, are read back as it.  *)
LEMMA DecodedAsWritten ==
  ASSUME NEW i \in Instr, Fits(i), NEW first \in Nat,
         \A k \in 1..bytes_to_read[i.op] : ByteAt(first + k - 1) = ByteOf(i.arg, k)
  PROVE  Decoded(i.op, first) = Loaded(i)
  <1>. DEFINE n == bytes_to_read[i.op]
              s == [k \in 1..n |-> ByteAt(first + k - 1)]
  <1>1. n \in {0, 1, 4, 8}
    BY BytesToRead DEF Fits
  <1>2. s = [k \in 1..n |-> ByteOf(i.arg, k)]
    OBVIOUS
  <1>3. s \in Seq(0..255) /\ Len(s) = n
    <2>1. n \in Nat
      BY <1>1
    <2>2. s \in [1..n -> 0..255]
      BY <1>2, BytesWritten
    <2>. HIDE DEF n, s
    <2>. QED BY <2>1, <2>2, FunctionIsSeq
  <1>4. i = [op |-> i.op, arg |-> i.arg]
    BY DEF Instr
  <1>5. CASE n = 0
    BY <1>3, <1>4, <1>5 DEF Decoded, Loaded, Argument
  <1>6. CASE n # 0
    <2>1. Argument(s) = i.arg
      <3>1. i.arg \in Nat /\ i.arg <= MaxArgument
        BY <1>1, <1>6, MaxArgumentType DEF Fits
      <3>2. n = 1 => i.arg <= 255
        BY SMT DEF Fits
      <3>3. CASE n = 1
        <4>1. Argument(s) = s[1] /\ s[1] = ByteOf(i.arg, 1)
          BY <1>2, <1>3, <3>3 DEF Argument
        <4>. QED BY <3>1, <3>2, <3>3, <4>1, BytesOfArgument
      <3>4. CASE n \in {4, 8}
        <4>1. Argument(s) = s[1] + (256 * s[2]) + (65536 * s[3]) + (16777216 * s[4])
          BY <1>3, <3>4, SMT DEF Argument
        <4>2. /\ s[1] = ByteOf(i.arg, 1) /\ s[2] = ByteOf(i.arg, 2)
              /\ s[3] = ByteOf(i.arg, 3) /\ s[4] = ByteOf(i.arg, 4)
          BY <1>2, <3>4
        <4>. QED BY <3>1, <4>1, <4>2, BytesOfArgument
      <3>. QED BY <1>1, <1>6, <3>3, <3>4
    <2>. QED BY <1>4, <1>6, <2>1 DEF Decoded, Loaded
  <1>. QED BY <1>5, <1>6
-----------------------------------------------------------------------------
(* Where things are in the file.                                             *)

\* The first n of things of these sizes, one after the other from start on:
\* the i-th is at offs[i].
Layout(offs, start, size, n) ==
    /\ offs \in [1..n + 1 -> Nat]
    /\ offs[1] = start
    /\ \A i \in 1..n : offs[i + 1] = offs[i] + size[i]
    /\ \A i \in 1..n + 1 : offs[i] <= offs[n + 1]

Widths(code) == [i \in DOMAIN code |-> 1 + bytes_to_read[code[i].op]]
Lengths(pool) == [i \in DOMAIN pool |-> Len(Bytes[pool[i]]) + 1]

\* The instruction, and the text, is in the file after its first p bytes.
InstrIn(i, bs, p) == /\ bs[p + 1] = OpcodeOf[i.op]
                     /\ \A k \in 1..bytes_to_read[i.op] : bs[(p + 1) + k] = ByteOf(i.arg, k)
TextIn(text, bs, p) == \A k \in 1..Len(Bytes[text]) : bs[p + k] = Bytes[text][k]

CodeIn(code, bs, offs, n) ==
    /\ Layout(offs, 0, Widths(code), n)
    /\ offs[n + 1] <= Len(bs)
    /\ \A i \in 1..n : InstrIn(code[i], bs, offs[i])

PoolIn(pool, bs, offs, start, n) ==
    /\ Layout(offs, start, Lengths(pool), n)
    /\ offs[n + 1] = Len(bs)
    /\ \A i \in 1..n : TextIn(pool[i], bs, offs[i])

\* The byte behind each of the strings is zero.
EndedIn(bs, offs, n) == \A i \in 1..n : bs[offs[i + 1]] = 0

\* The layout with one thing more.
Next1(offs, size, n) ==
    [i \in 1..(n + 1) + 1 |-> IF i = (n + 1) + 1 THEN offs[n + 1] + size[n + 1] ELSE offs[i]]

LEMMA LayoutGrows ==
  ASSUME NEW n \in Nat, NEW offs, NEW start \in Nat, NEW size,
         Layout(offs, start, size, n), size[n + 1] \in Nat \ {0}
  PROVE  /\ Layout(Next1(offs, size, n), start, size, n + 1)
         /\ \A i \in 1..n + 1 : Next1(offs, size, n)[i] = offs[i]
         /\ Next1(offs, size, n)[(n + 1) + 1] = offs[n + 1] + size[n + 1]
  <1>. DEFINE o == Next1(offs, size, n)
  <1>1. /\ offs \in [1..n + 1 -> Nat] /\ offs[1] = start
        /\ \A i \in 1..n : offs[i + 1] = offs[i] + size[i]
        /\ \A i \in 1..n + 1 : offs[i] <= offs[n + 1]
    BY DEF Layout
  <1>2. /\ o \in [1..(n + 1) + 1 -> Nat]
        /\ o[(n + 1) + 1] = offs[n + 1] + size[n + 1]
        /\ \A i \in 1..n + 1 : o[i] = offs[i]
    BY <1>1 DEF Next1
  <1>. HIDE DEF o
  <1>3. o[1] = start
    BY <1>1, <1>2
  <1>4. ASSUME NEW i \in 1..n + 1 PROVE o[i + 1] = o[i] + size[i]
    <2>1. CASE i = n + 1
      BY <1>2, <2>1
    <2>2. CASE i # n + 1
      <3>1. i \in 1..n /\ i + 1 \in 1..n + 1
        BY <2>2
      <3>. QED BY <1>1, <1>2, <3>1
    <2>. QED BY <2>1, <2>2
  <1>5. ASSUME NEW i \in 1..(n + 1) + 1 PROVE o[i] <= o[(n + 1) + 1]
    <2>1. offs[n + 1] \in Nat /\ n + 1 \in 1..n + 1
      BY <1>1
    <2>2. CASE i = (n + 1) + 1
      BY <1>2, <2>1, <2>2
    <2>3. CASE i # (n + 1) + 1
      <3>1. i \in 1..n + 1
        BY <2>3
      <3>2. o[i] = offs[i] /\ offs[i] \in Nat /\ offs[i] <= offs[n + 1]
        BY <1>1, <1>2, <3>1
      <3>. QED BY <1>2, <2>1, <3>2
    <2>. QED BY <2>2, <2>3
  <1>6. Layout(o, start, size, n + 1)
    BY <1>2, <1>3, <1>4, <1>5 DEF Layout
  <1>. QED BY <1>2, <1>6 DEF o

(* The i-th thing begins and ends within the whole.                          *)
LEMMA LayoutFacts ==
  ASSUME NEW n \in Nat, NEW offs, NEW start \in Nat, NEW size, Layout(offs, start, size, n),
         NEW i \in 1..n
  PROVE  /\ offs[i] \in Nat /\ offs[i + 1] \in Nat /\ offs[n + 1] \in Nat
         /\ offs[i + 1] = offs[i] + size[i]
         /\ offs[i + 1] <= offs[n + 1]
  <1>1. i + 1 \in 1..n + 1 /\ i \in 1..n + 1 /\ n + 1 \in 1..n + 1
    OBVIOUS
  <1>. QED BY <1>1 DEF Layout

LEMMA LayoutEnds ==
  ASSUME NEW n \in Nat, NEW offs, NEW start \in Nat, NEW size, Layout(offs, start, size, n)
  PROVE  offs[n + 1] \in Nat /\ start <= offs[n + 1] /\ (n = 0 => offs[n + 1] = start)
  <1>1. 1 \in 1..n + 1 /\ n + 1 \in 1..n + 1
    OBVIOUS
  <1>. QED BY <1>1 DEF Layout

\* What can be saved: code and a pool.
Savable(code, pool) ==
    /\ code \in Seq(Instr) /\ \A i \in 1..Len(code) : Fits(code[i])
    /\ pool \in Seq(Int \cup Text)
    /\ \A i \in 1..Len(pool) : pool[i] \in DOMAIN Bytes

LEMMA SavableFacts ==
  ASSUME NEW code, NEW pool, Savable(code, pool)
  PROVE  /\ Len(code) \in Nat /\ DOMAIN code = 1..Len(code)
         /\ \A i \in 1..Len(code) : /\ code[i] \in Instr /\ Fits(code[i])
                                    /\ bytes_to_read[code[i].op] \in {0, 1, 4, 8}
                                    /\ Widths(code)[i] = 1 + bytes_to_read[code[i].op]
                                    /\ Widths(code)[i] \in Nat \ {0}
         /\ Len(pool) \in Nat /\ DOMAIN pool = 1..Len(pool)
         /\ \A i \in 1..Len(pool) : /\ pool[i] \in DOMAIN Bytes
                                    /\ Bytes[pool[i]] \in Seq(1..255)
                                    /\ Len(Bytes[pool[i]]) \in Nat
                                    /\ Lengths(pool)[i] = Len(Bytes[pool[i]]) + 1
                                    /\ Lengths(pool)[i] \in Nat \ {0}
  <1>1. /\ Len(code) \in Nat /\ DOMAIN code = 1..Len(code)
        /\ Len(pool) \in Nat /\ DOMAIN pool = 1..Len(pool)
    BY DEF Savable
  <1>2. ASSUME NEW i \in 1..Len(code)
        PROVE  /\ code[i] \in Instr /\ Fits(code[i])
               /\ bytes_to_read[code[i].op] \in {0, 1, 4, 8}
               /\ Widths(code)[i] = 1 + bytes_to_read[code[i].op]
               /\ Widths(code)[i] \in Nat \ {0}
    <2>1. code[i] \in Instr /\ Fits(code[i])
      BY DEF Savable
    <2>2. bytes_to_read[code[i].op] \in {0, 1, 4, 8}
      BY <2>1, BytesToRead DEF Fits
    <2>3. Widths(code)[i] = 1 + bytes_to_read[code[i].op]
      BY <1>1 DEF Widths
    <2>. QED BY <2>1, <2>2, <2>3
  <1>3. ASSUME NEW i \in 1..Len(pool)
        PROVE  /\ pool[i] \in DOMAIN Bytes
               /\ Bytes[pool[i]] \in Seq(1..255)
               /\ Len(Bytes[pool[i]]) \in Nat
               /\ Lengths(pool)[i] = Len(Bytes[pool[i]]) + 1
               /\ Lengths(pool)[i] \in Nat \ {0}
    <2>1. pool[i] \in DOMAIN Bytes
      BY DEF Savable
    <2>2. Bytes[pool[i]] \in Seq(1..255)
      BY <2>1, BytesAssumption
    <2>3. Lengths(pool)[i] = Len(Bytes[pool[i]]) + 1
      BY <1>1 DEF Lengths
    <2>. QED BY <2>1, <2>2, <2>3
  <1>. QED BY <1>1, <1>2, <1>3

LEMMA ImagesSavable == ASSUME NEW i \in Images PROVE Savable(i.code, i.pool)
  <1>1. i.code \in Seq(Instr) /\ i.pool \in Seq(Int \cup Text)
    BY ImagesAssumption
  <1>2. /\ \A k \in DOMAIN i.code : Fits(i.code[k])
        /\ \A k \in DOMAIN i.pool : i.pool[k] \in DOMAIN Bytes
    BY SavedAssumption
  <1>. QED BY <1>1, <1>2 DEF Savable

(* Bytes that are appended leave those before them where they are.           *)
LEMMA Appended ==
  ASSUME NEW s \in Seq(0..255), NEW t \in Seq(0..255)
  PROVE  /\ s \o t \in Seq(0..255) /\ Len(s \o t) = Len(s) + Len(t)
         /\ Len(s) \in Nat /\ Len(t) \in Nat
         /\ \A k \in 1..Len(s) : (s \o t)[k] = s[k]
         /\ \A k \in 1..Len(t) : (s \o t)[Len(s) + k] = t[k]
  OBVIOUS

LEMMA CodeStays ==
  ASSUME NEW code, NEW pool, Savable(code, pool), NEW n \in 0..Len(code), NEW offs,
         NEW bs \in Seq(0..255), NEW t \in Seq(0..255), CodeIn(code, bs, offs, n)
  PROVE  CodeIn(code, bs \o t, offs, n)
  <1>1. n \in Nat /\ \A i \in 1..n : i \in 1..Len(code)
    BY SavableFacts
  <1>2. Layout(offs, 0, Widths(code), n) /\ offs[n + 1] <= Len(bs)
    BY DEF CodeIn
  <1>3. offs[n + 1] <= Len(bs \o t)
    BY <1>1, <1>2, LayoutEnds, Appended
  <1>4. ASSUME NEW i \in 1..n PROVE InstrIn(code[i], bs \o t, offs[i])
    <2>1. /\ offs[i] \in Nat /\ offs[i + 1] \in Nat /\ offs[n + 1] \in Nat
          /\ offs[i + 1] = offs[i] + Widths(code)[i]
          /\ offs[i + 1] <= offs[n + 1]
      BY <1>1, <1>2, LayoutFacts
    <2>2. /\ bytes_to_read[code[i].op] \in Nat
          /\ Widths(code)[i] = 1 + bytes_to_read[code[i].op]
      <3>1. /\ bytes_to_read[code[i].op] \in {0, 1, 4, 8}
            /\ Widths(code)[i] = 1 + bytes_to_read[code[i].op]
        BY <1>1, SavableFacts
      <3>. QED BY <3>1
    <2>. DEFINE b == bytes_to_read[code[i].op]
                p == offs[i]
    <2>3. p + 1 + b <= Len(bs) /\ Len(bs) \in Nat
      <3>1. p \in Nat /\ b \in Nat /\ offs[i + 1] = p + (1 + b)
        BY <2>1, <2>2
      <3>2. Len(bs) \in Nat
        OBVIOUS
      <3>. HIDE DEF p, b
      <3>. QED BY <1>2, <2>1, <3>1, <3>2
    <2>4. InstrIn(code[i], bs, offs[i])
      BY DEF CodeIn
    <2>5. offs[i] + 1 \in 1..Len(bs)
      <3>1. p \in Nat /\ b \in Nat /\ offs[i] = p
        BY <2>1, <2>2
      <3>. HIDE DEF p, b
      <3>. QED BY <2>3, <3>1
    <2>6. \A k \in 1..b : (p + 1) + k \in 1..Len(bs)
      <3>1. p \in Nat /\ b \in Nat
        BY <2>1, <2>2
      <3>. HIDE DEF p, b
      <3>. QED BY <2>3, <3>1
    <2>7. \A k \in 1..Len(bs) : (bs \o t)[k] = bs[k]
      BY Appended
    <2>. QED BY <2>4, <2>5, <2>6, <2>7 DEF InstrIn
  <1>. QED BY <1>2, <1>3, <1>4 DEF CodeIn

(* The next instruction.                                                     *)
LEMMA CodeGrows ==
  ASSUME NEW code, NEW pool, Savable(code, pool), NEW n \in 0..Len(code) - 1, NEW offs,
         NEW bs \in Seq(0..255), CodeIn(code, bs, offs, n), offs[n + 1] = Len(bs)
  PROVE  LET after == bs \o Encoded(code[n + 1])
             o == Next1(offs, Widths(code), n)
         IN  /\ after \in Seq(0..255)
             /\ CodeIn(code, after, o, n + 1) /\ o[(n + 1) + 1] = Len(after)
  <1>. DEFINE i0 == code[n + 1]
              b == bytes_to_read[i0.op]
              e == Encoded(i0)
              after == bs \o e
              o == Next1(offs, Widths(code), n)
  <1>1. n \in Nat /\ n \in 0..Len(code) /\ n + 1 \in 1..Len(code)
    BY SavableFacts
  <1>2. i0 \in Instr /\ Fits(i0) /\ b \in {0, 1, 4, 8} /\ Widths(code)[n + 1] = 1 + b
    BY <1>1, SavableFacts
  <1>3. /\ e \in Seq(0..255) /\ Len(e) = 1 + b
        /\ e[1] = OpcodeOf[i0.op]
        /\ \A k \in 1..b : e[1 + k] = ByteOf(i0.arg, k)
    BY <1>2, EncodedBytes
  <1>4. CodeIn(code, after, offs, n)
    <2>. HIDE DEF e
    <2>. QED BY <1>1, <1>3, CodeStays
  <1>5. /\ after \in Seq(0..255) /\ Len(after) = Len(bs) + (1 + b) /\ Len(bs) \in Nat
        /\ \A k \in 1..1 + b : after[Len(bs) + k] = e[k]
    <2>. HIDE DEF e, b
    <2>1. /\ after \in Seq(0..255) /\ Len(after) = Len(bs) + Len(e) /\ Len(bs) \in Nat
          /\ \A k \in 1..Len(e) : after[Len(bs) + k] = e[k]
      BY <1>3, Appended, ZenonT(40)
    <2>. HIDE DEF after
    <2>. QED BY <1>3, <2>1
  <1>6. InstrIn(i0, after, Len(bs))
    <2>. HIDE DEF e, after
    <2>1. 1 \in 1..1 + b /\ \A k \in 1..b : 1 + k \in 1..1 + b
      BY <1>2
    <2>2. after[Len(bs) + 1] = OpcodeOf[i0.op]
      BY <1>3, <1>5, <2>1
    <2>3. ASSUME NEW k \in 1..b PROVE after[(Len(bs) + 1) + k] = ByteOf(i0.arg, k)
      <3>1. after[Len(bs) + (1 + k)] = e[1 + k]
        BY <1>5, <2>1
      <3>2. (Len(bs) + 1) + k = Len(bs) + (1 + k)
        BY <1>2, <1>5
      <3>. QED BY <1>3, <3>1, <3>2
    <2>. QED BY <2>2, <2>3 DEF InstrIn
  <1>7. /\ Layout(o, 0, Widths(code), n + 1)
        /\ \A i \in 1..n + 1 : o[i] = offs[i]
        /\ o[(n + 1) + 1] = Len(bs) + (1 + b)
    <2>1. Layout(offs, 0, Widths(code), n) /\ Widths(code)[n + 1] \in Nat \ {0}
      BY <1>1, <1>2 DEF CodeIn
    <2>. QED BY <1>1, <1>2, <2>1, LayoutGrows
  <1>. HIDE DEF o, after
  <1>8. ASSUME NEW i \in 1..n + 1 PROVE InstrIn(code[i], after, o[i])
    <2>1. CASE i = n + 1
      BY <1>6, <1>7, <2>1
    <2>2. CASE i # n + 1
      <3>1. i \in 1..n
        BY <1>1, <2>2
      <3>2. InstrIn(code[i], after, offs[i])
        BY <1>4, <3>1 DEF CodeIn
      <3>. QED BY <1>7, <3>2
    <2>. QED BY <2>1, <2>2
  <1>9. o[(n + 1) + 1] <= Len(after) /\ o[(n + 1) + 1] = Len(after)
    BY <1>2, <1>5, <1>7
  <1>10. CodeIn(code, after, o, n + 1)
    BY <1>7, <1>8, <1>9 DEF CodeIn
  <1>. QED BY <1>5, <1>9, <1>10 DEF o, after

(* The next string, and whatever byte is behind it.                          *)
LEMMA PoolGrows ==
  ASSUME NEW code, NEW pool, Savable(code, pool), NEW n \in 0..Len(pool) - 1,
         NEW offs, NEW start \in Nat, NEW bs \in Seq(0..255), PoolIn(pool, bs, offs, start, n),
         NEW x \in 0..255
  PROVE  LET after == bs \o Bytes[pool[n + 1]] \o <<x>>
             o == Next1(offs, Lengths(pool), n)
         IN  /\ after \in Seq(0..255)
             /\ PoolIn(pool, after, o, start, n + 1)
             /\ EndedIn(bs, offs, n) /\ x = 0 => EndedIn(after, o, n + 1)
  <1>. DEFINE t == Bytes[pool[n + 1]]
              m == Len(bs)
              l == Len(t)
              after == bs \o t \o <<x>>
              o == Next1(offs, Lengths(pool), n)
  <1>1. n \in Nat /\ n + 1 \in 1..Len(pool) /\ m \in Nat
    BY SavableFacts
  <1>2. /\ t \in Seq(0..255) /\ l \in Nat /\ Lengths(pool)[n + 1] = l + 1
        /\ <<x>> \in Seq(0..255) /\ Len(<<x>>) = 1 /\ <<x>>[1] = x
    <2>1. t \in Seq(1..255) /\ l \in Nat /\ Lengths(pool)[n + 1] = l + 1
      BY <1>1, SavableFacts
    <2>. HIDE DEF t
    <2>. QED BY <2>1
  <1>3. /\ after \in Seq(0..255) /\ Len(after) = m + l + 1
        /\ \A k \in 1..m : after[k] = bs[k]
        /\ \A k \in 1..l : after[m + k] = t[k]
        /\ after[m + l + 1] = x
    <2>. DEFINE both == bs \o t
    <2>. HIDE DEF t
    <2>1. /\ both \in Seq(0..255) /\ Len(both) = m + l
          /\ \A k \in 1..m : both[k] = bs[k]
          /\ \A k \in 1..l : both[m + k] = t[k]
      BY <1>2, Appended
    <2>. DEFINE xs == <<x>>
    <2>3. after = both \o xs
      BY DEF both
    <2>. HIDE DEF both, xs, after
    <2>2. /\ after \in Seq(0..255) /\ Len(after) = (m + l) + 1
          /\ \A k \in 1..m + l : after[k] = both[k]
          /\ after[(m + l) + 1] = x
      <3>1. xs \in Seq(0..255) /\ Len(xs) = 1 /\ xs[1] = x
        BY <1>2 DEF xs
      <3>2. /\ after \in Seq(0..255) /\ Len(after) = Len(both) + Len(xs)
            /\ \A k \in 1..Len(both) : after[k] = both[k]
            /\ \A k \in 1..Len(xs) : after[Len(both) + k] = xs[k]
        <4>1. both \in Seq(0..255)
          BY <2>1
        <4>2. /\ both \o xs \in Seq(0..255) /\ Len(both \o xs) = Len(both) + Len(xs)
              /\ \A k \in 1..Len(both) : (both \o xs)[k] = both[k]
              /\ \A k \in 1..Len(xs) : (both \o xs)[Len(both) + k] = xs[k]
          BY <3>1, <4>1, Appended, ZenonT(40)
        <4>. QED BY <2>3, <4>2, Zenon
      <3>. QED BY <2>1, <3>1, <3>2
    <2>4. (\A k \in 1..m : k \in 1..m + l) /\ (\A k \in 1..l : m + k \in 1..m + l)
      BY <1>1, <1>2
    <2>. HIDE DEF after, m, l
    <2>. QED BY <2>1, <2>2, <2>3, <2>4
  <1>4. /\ Layout(offs, start, Lengths(pool), n) /\ offs[n + 1] = m
        /\ \A i \in 1..n : TextIn(pool[i], bs, offs[i])
    BY DEF PoolIn
  <1>5. /\ Layout(o, start, Lengths(pool), n + 1)
        /\ \A i \in 1..n + 1 : o[i] = offs[i]
        /\ o[(n + 1) + 1] = m + (l + 1)
    <2>1. Lengths(pool)[n + 1] \in Nat \ {0}
      BY <1>1, SavableFacts
    <2>. HIDE DEF l, t, m
    <2>2. /\ Layout(o, start, Lengths(pool), n + 1)
          /\ \A i \in 1..n + 1 : o[i] = offs[i]
          /\ o[(n + 1) + 1] = offs[n + 1] + Lengths(pool)[n + 1]
      BY <1>1, <1>4, <2>1, LayoutGrows
    <2>. QED BY <1>2, <1>4, <2>2
  <1>. HIDE DEF o, after, m, l, t
  <1>6. ASSUME NEW i \in 1..n
        PROVE  /\ TextIn(pool[i], after, offs[i])
               /\ offs[i + 1] \in 1..m
    <2>. DEFINE p == offs[i]
                w == Len(Bytes[pool[i]])
    <2>1. /\ p \in Nat /\ offs[i + 1] = p + Lengths(pool)[i] /\ offs[i + 1] <= m
      BY <1>1, <1>4, LayoutFacts, SMTT(20)
    <2>2. w \in Nat /\ Lengths(pool)[i] = w + 1
      BY <1>1, SavableFacts
    <2>3. \A k \in 1..w : p + k \in 1..m
      <3>. HIDE DEF p, w
      <3>. QED BY <1>1, <2>1, <2>2
    <2>4. TextIn(pool[i], after, p)
      BY <1>3, <1>4, <2>3 DEF TextIn
    <2>5. offs[i + 1] \in 1..m
      <3>. HIDE DEF p, w
      <3>. QED BY <1>1, <2>1, <2>2
    <2>. QED BY <2>4, <2>5
  <1>7. ASSUME NEW i \in 1..n + 1 PROVE TextIn(pool[i], after, o[i])
    <2>1. CASE i = n + 1
      <3>1. o[i] = m
        BY <1>1, <1>4, <1>5, <2>1
      <3>. QED BY <1>3, <2>1, <3>1 DEF TextIn, t, l
    <2>2. CASE i # n + 1
      BY <1>1, <1>5, <1>6, <2>2
    <2>. QED BY <2>1, <2>2
  <1>8. PoolIn(pool, after, o, start, n + 1)
    <2>1. o[(n + 1) + 1] = Len(after)
      BY <1>1, <1>2, <1>3, <1>5
    <2>. QED BY <1>5, <1>7, <2>1 DEF PoolIn
  <1>9. ASSUME EndedIn(bs, offs, n), x = 0, NEW i \in 1..n + 1 PROVE after[o[i + 1]] = 0
    <2>1. CASE i = n + 1
      <3>1. o[i + 1] = m + l + 1
        BY <1>1, <1>2, <1>5, <2>1
      <3>. QED BY <1>3, <1>9, <3>1
    <2>2. CASE i # n + 1
      <3>1. i \in 1..n /\ i + 1 \in 1..n + 1
        BY <1>1, <2>2
      <3>2. o[i + 1] = offs[i + 1] /\ offs[i + 1] \in 1..m
        BY <1>5, <1>6, <3>1
      <3>3. after[offs[i + 1]] = bs[offs[i + 1]]
        BY <1>3, <3>2
      <3>. QED BY <1>9, <3>1, <3>2, <3>3 DEF EndedIn
    <2>. QED BY <2>1, <2>2
  <1>. QED BY <1>3, <1>8, <1>9 DEF EndedIn, o, after, t
-----------------------------------------------------------------------------
(* What has been read is the first n of what was saved.                      *)

Taken(s, t, n) == n \in 0..Len(t) /\ s = SubSeq(t, 1, n)

LEMMA TakenNone == ASSUME NEW S, NEW t \in Seq(S) PROVE Taken(<<>>, t, 0)
  <1>1. SubSeq(t, 1, 0) = <<>>
    BY SubSeqEmpty
  <1>. QED BY <1>1 DEF Taken

LEMMA TakenAll == ASSUME NEW S, NEW t \in Seq(S), NEW s, Taken(s, t, Len(t)) PROVE s = t
  <1>1. SubSeq(t, 1, Len(t)) = t
    OBVIOUS
  <1>. QED BY <1>1 DEF Taken

LEMMA TakenMore ==
  ASSUME NEW S, NEW t \in Seq(S), NEW n \in 0..Len(t) - 1, NEW s, Taken(s, t, n)
  PROVE  Taken(Append(s, t[n + 1]), t, n + 1)
  <1>1. s = SubSeq(t, 1, n)
    BY DEF Taken
  <1>2. Append(SubSeq(t, 1, n), t[n + 1]) = SubSeq(t, 1, n + 1)
    OBVIOUS
  <1>3. n + 1 \in 0..Len(t)
    OBVIOUS
  <1>. QED BY <1>1, <1>2, <1>3 DEF Taken

LEMMA TakenIsPrefix ==
  ASSUME NEW S, NEW t \in Seq(S), NEW n, NEW s, Taken(s, t, n)
  PROVE  IsPrefix(s, t)
  <1>1. n \in 0..Len(t) /\ s = SubSeq(t, 1, n)
    BY DEF Taken
  <1>2. Len(s) = n /\ SubSeq(s, 1, n) = s
    BY <1>1
  <1>. QED BY <1>1, <1>2 DEF IsPrefix

LEMMA KeptFacts ==
  ASSUME NEW code \in Seq(Instr)
  PROVE  /\ Kept(code) \in Seq(Instr) /\ Len(Kept(code)) = Len(code)
         /\ \A i \in 1..Len(code) : Kept(code)[i] = Loaded(code[i])
  <1>1. \A i \in DOMAIN code : Kept(code)[i] = Loaded(code[i])
    BY DEF Kept, Loaded
  <1>2. ASSUME NEW i \in DOMAIN code PROVE Loaded(code[i]) \in Instr
    <2>1. code[i] \in Instr
      OBVIOUS
    <2>2. [code[i] EXCEPT !.arg = 0] \in Instr
      BY <2>1 DEF Instr
    <2>. QED BY <2>1, <2>2 DEF Loaded
  <1>3. Kept(code) \in [1..Len(code) -> Instr]
    BY <1>1, <1>2 DEF Kept
  <1>4. Len(code) \in Nat
    OBVIOUS
  <1>. QED BY <1>1, <1>3, <1>4, FunctionIsSeq
-----------------------------------------------------------------------------
(* The invariant: where each of the loops is, in the file.                   *)

Clean == ~dirty /\ Avoids(Pool)

CodeEnd(offs) == offs[Len(Code) + 1]

PoolAddrOf(offs) == IF Pool = <<>> THEN 0 ELSE instr_addr + CodeEnd(offs)

\* The file, or as much of it as there is with n strings.
FileWith(offs, poffs, n) ==
    /\ CodeIn(Code, bytes, offs, Len(Code))
    /\ PoolIn(Pool, bytes, poffs, CodeEnd(offs), n)
    /\ ~dirty => EndedIn(bytes, poffs, n)
    /\ pool_addr = PoolAddrOf(offs)

Phases == { "saving", "pooling", "saved", "halted", "reading", "strings", "executing",
            "past_end", "past_string" }

FileTypes == /\ image \in Images
             /\ phase \in Phases
             /\ bytes \in Seq(0..255)
             /\ dirty \in BOOLEAN

SavingInv == phase = "saving" =>
    /\ at \in 1..Len(Code) + 1
    /\ \E offs : CodeIn(Code, bytes, offs, at - 1) /\ offs[at] = Len(bytes)
    /\ ~dirty

PoolingInv == phase = "pooling" =>
    /\ at \in 1..Len(Pool) + 1
    /\ \E offs, poffs : FileWith(offs, poffs, at - 1)

SavedInv == phase \in {"saving", "pooling", "saved", "halted"} =>
    /\ holder = <<>> /\ strings = <<>>
    /\ phase = "saved" => \E offs, poffs : FileWith(offs, poffs, Len(Pool))

ReadingInv == phase = "reading" =>
    /\ strings = <<>>
    /\ \E offs, poffs, n : /\ FileWith(offs, poffs, Len(Pool))
                           /\ Taken(holder, Kept(Code), n)
                           /\ cursor = instr_addr + offs[n + 1]

StringsInv == phase = "strings" =>
    /\ holder = Kept(Code)
    /\ Clean => \E offs, poffs, n : /\ FileWith(offs, poffs, Len(Pool))
                                    /\ Taken(strings, Pool, n)
                                    /\ cursor = instr_addr + poffs[n + 1]

EndInv == /\ phase = "executing" => holder = Kept(Code) /\ (Clean => strings = Pool)
          /\ phase \in {"past_end", "past_string"} => holder = Kept(Code) /\ ~Clean

FileInv == FileTypes /\ SavingInv /\ PoolingInv /\ SavedInv /\ ReadingInv /\ StringsInv /\ EndInv

(* The invariant says what the two properties say.                           *)
LEMMA FileInvMeans == FileInv => InstructionsKept /\ PoolKept
  <1>. SUFFICES ASSUME FileInv PROVE InstructionsKept /\ PoolKept
    OBVIOUS
  <1>1. Savable(Code, Pool) /\ Code \in Seq(Instr) /\ Pool \in Seq(Int \cup Text)
    <2>1. Savable(Code, Pool)
      BY ImagesSavable DEF FileInv, FileTypes, Code, Pool
    <2>. QED BY <2>1 DEF Savable
  <1>2. Kept(Code) \in Seq(Instr)
    BY <1>1, KeptFacts
  <1>3. IsPrefix(<<>>, Kept(Code)) /\ IsPrefix(Kept(Code), Kept(Code))
    <2>1. Taken(<<>>, Kept(Code), 0)
      BY <1>2, TakenNone
    <2>2. Taken(Kept(Code), Kept(Code), Len(Kept(Code)))
      BY <1>2 DEF Taken
    <2>. QED BY <1>2, <2>1, <2>2, TakenIsPrefix
  <1>4. IsPrefix(<<>>, Pool) /\ IsPrefix(Pool, Pool)
    <2>1. Taken(<<>>, Pool, 0)
      BY <1>1, TakenNone
    <2>2. Taken(Pool, Pool, Len(Pool))
      BY <1>1 DEF Taken
    <2>. QED BY <1>1, <2>1, <2>2, TakenIsPrefix
  <1>5. InstructionsKept
    <2>1. CASE phase \in {"saving", "pooling", "saved", "halted"}
      BY <1>3, <2>1 DEF FileInv, SavedInv, InstructionsKept
    <2>2. CASE phase = "reading"
      <3>1. \E n : Taken(holder, Kept(Code), n)
        BY <2>2 DEF FileInv, ReadingInv
      <3>. QED BY <1>2, <2>2, <3>1, TakenIsPrefix DEF InstructionsKept
    <2>3. CASE phase \in {"strings", "executing", "past_end", "past_string"}
      BY <1>3, <2>3 DEF FileInv, StringsInv, EndInv, InstructionsKept
    <2>. QED BY <2>1, <2>2, <2>3 DEF FileInv, FileTypes, Phases
  <1>6. ASSUME Clean
        PROVE  /\ IsPrefix(strings, Pool)
               /\ phase = "executing" => strings = Pool
               /\ phase \notin {"past_end", "past_string"}
    <2>1. CASE phase \in {"saving", "pooling", "saved", "halted", "reading"}
      BY <1>4, <2>1 DEF FileInv, SavedInv, ReadingInv
    <2>2. CASE phase = "strings"
      <3>1. \E n : Taken(strings, Pool, n)
        BY <1>6, <2>2 DEF FileInv, StringsInv
      <3>. QED BY <1>1, <2>2, <3>1, TakenIsPrefix
    <2>3. CASE phase \in {"executing", "past_end", "past_string"}
      BY <1>4, <1>6, <2>3 DEF FileInv, EndInv
    <2>. QED BY <2>1, <2>2, <2>3 DEF FileInv, FileTypes, Phases
  <1>. QED BY <1>5, <1>6 DEF PoolKept, Clean
-----------------------------------------------------------------------------
(* Saving.                                                                   *)

LEMMA FileInvInit == image \in Images /\ Init_File("saving") => FileInv
  <1>. SUFFICES ASSUME image \in Images, Init_File("saving") PROVE FileInv
    OBVIOUS
  <1>1. Savable(Code, Pool)
    BY ImagesSavable DEF Code, Pool
  <1>2. Len(Code) \in Nat
    BY <1>1, SavableFacts
  <1>3. /\ phase = "saving" /\ at = 1 /\ bytes = <<>> /\ dirty = FALSE
        /\ holder = <<>> /\ strings = <<>>
    BY DEF Init_File
  <1>4. CodeIn(Code, bytes, [i \in 1..1 |-> 0], 0) /\ [i \in 1..1 |-> 0][1] = Len(bytes)
    BY <1>3 DEF CodeIn, Layout
  <1>5. SavingInv
    <2>1. at \in 1..Len(Code) + 1 /\ at - 1 = 0
      BY <1>2, <1>3
    <2>. QED BY <1>3, <1>4, <2>1 DEF SavingInv
  <1>6. FileTypes
    <2>1. bytes \in Seq(0..255)
      BY <1>3
    <2>2. dirty \in BOOLEAN
      BY <1>3, Zenon
    <2>. QED BY <1>3, <2>1, <2>2 DEF FileTypes, Phases
  <1>. QED BY <1>3, <1>5, <1>6
       DEF FileInv, PoolingInv, SavedInv, ReadingInv, StringsInv, EndInv

\* What every step of the file finds and leaves.
LEMMA FileFacts ==
  ASSUME FileInv
  PROVE  /\ Savable(Code, Pool) /\ image \in Images
         /\ Len(Code) \in Nat /\ Len(Pool) \in Nat /\ Len(bytes) \in Nat
         /\ Code \in Seq(Instr) /\ Pool \in Seq(Int \cup Text)
         /\ bytes \in Seq(0..255) /\ dirty \in BOOLEAN
  <1>1. image \in Images /\ bytes \in Seq(0..255) /\ dirty \in BOOLEAN
    BY DEF FileInv, FileTypes
  <1>2. Savable(Code, Pool)
    BY <1>1, ImagesSavable DEF Code, Pool
  <1>. QED BY <1>1, <1>2, SavableFacts DEF Savable

LEMMA SaveInstructionKept == FileInv /\ SaveInstruction => FileInv'
  <1>. SUFFICES ASSUME FileInv, SaveInstruction PROVE FileInv'
    OBVIOUS
  <1>1. /\ phase = "saving" /\ at <= Len(Code) /\ bytes' = bytes \o Encoded(Code[at])
        /\ at' = at + 1 /\ phase' = "saving" /\ image' = image /\ dirty' = dirty
        /\ holder' = holder /\ strings' = strings
    BY DEF SaveInstruction, loader
  <1>2. PICK offs : /\ at \in 1..Len(Code) + 1
                    /\ CodeIn(Code, bytes, offs, at - 1) /\ offs[at] = Len(bytes)
    BY <1>1 DEF FileInv, SavingInv
  <1>. DEFINE o == Next1(offs, Widths(Code), at - 1)
  <1>3. /\ bytes' \in Seq(0..255)
        /\ CodeIn(Code, bytes', o, at) /\ o[at + 1] = Len(bytes')
    <2>1. at - 1 \in 0..Len(Code) - 1 /\ (at - 1) + 1 = at
      BY <1>1, <1>2, FileFacts
    <2>. HIDE DEF o
    <2>2. offs[(at - 1) + 1] = Len(bytes)
      BY <1>2, <2>1
    <2>3. LET after == bytes \o Encoded(Code[(at - 1) + 1])
          IN  /\ after \in Seq(0..255)
              /\ CodeIn(Code, after, o, (at - 1) + 1) /\ o[((at - 1) + 1) + 1] = Len(after)
      BY <1>2, <2>1, <2>2, FileFacts, CodeGrows DEF o
    <2>. QED BY <1>1, <2>1, <2>3
  <1>4. Code' = Code /\ Pool' = Pool
    BY <1>1 DEF Code, Pool
  <1>5. SavingInv'
    <2>1. at' \in 1..Len(Code) + 1 /\ at' - 1 = at
      BY <1>1, <1>2, FileFacts
    <2>2. ~dirty
      BY <1>1 DEF FileInv, SavingInv
    <2>. QED BY <1>1, <1>3, <1>4, <2>1, <2>2 DEF SavingInv
  <1>6. FileTypes'
    BY <1>1, <1>3 DEF FileInv, FileTypes, Phases
  <1>7. SavedInv'
    BY <1>1 DEF FileInv, SavedInv
  <1>. QED BY <1>1, <1>5, <1>6, <1>7
       DEF FileInv, PoolingInv, ReadingInv, StringsInv, EndInv

LEMMA BeginPoolKept == FileInv /\ BeginPool => FileInv'
  <1>. SUFFICES ASSUME FileInv, BeginPool PROVE FileInv'
    OBVIOUS
  <1>1. /\ phase = "saving" /\ at > Len(Code) /\ phase' = "pooling" /\ at' = 1
        /\ pool_addr' = IF Pool = <<>> THEN 0 ELSE write_cursor
        /\ bytes' = bytes /\ image' = image /\ dirty' = dirty
        /\ holder' = holder /\ strings' = strings
    BY DEF BeginPool, loader
  <1>2. PICK offs : /\ at \in 1..Len(Code) + 1
                    /\ CodeIn(Code, bytes, offs, at - 1) /\ offs[at] = Len(bytes)
    BY <1>1 DEF FileInv, SavingInv
  <1>3. CodeIn(Code, bytes, offs, Len(Code)) /\ CodeEnd(offs) = Len(bytes)
    <2>1. at = Len(Code) + 1 /\ at - 1 = Len(Code)
      BY <1>1, <1>2, FileFacts
    <2>. QED BY <1>2, <2>1 DEF CodeEnd
  <1>4. PICK poffs : PoolIn(Pool, bytes, poffs, CodeEnd(offs), 0) /\ EndedIn(bytes, poffs, 0)
    <2>. DEFINE o == [i \in 1..1 |-> Len(bytes)]
    <2>1. PoolIn(Pool, bytes, o, CodeEnd(offs), 0) /\ EndedIn(bytes, o, 0)
      BY <1>3, FileFacts DEF PoolIn, Layout, EndedIn
    <2>. QED BY <2>1
  <1>5. Code' = Code /\ Pool' = Pool
    BY <1>1 DEF Code, Pool
  <1>6. pool_addr' = PoolAddrOf(offs)
    BY <1>1, <1>3 DEF PoolAddrOf, write_cursor
  <1>7. FileWith(offs, poffs, 0)'
    <2>1. CodeEnd(offs)' = CodeEnd(offs) /\ PoolAddrOf(offs)' = PoolAddrOf(offs)
      BY <1>5 DEF CodeEnd, PoolAddrOf
    <2>. QED BY <1>1, <1>3, <1>4, <1>5, <1>6, <2>1 DEF FileWith
  <1>8. PoolingInv'
    <2>1. at' \in 1..Len(Pool) + 1 /\ at' - 1 = 0
      BY <1>1, FileFacts
    <2>. QED BY <1>5, <1>7, <2>1 DEF PoolingInv
  <1>9. FileTypes'
    BY <1>1 DEF FileInv, FileTypes, Phases
  <1>10. SavedInv'
    BY <1>1 DEF FileInv, SavedInv
  <1>. QED BY <1>1, <1>8, <1>9, <1>10
       DEF FileInv, SavingInv, ReadingInv, StringsInv, EndInv

\* The file stays as it is when it is read.
LEMMA FileStays ==
  ASSUME image' = image, bytes' = bytes, dirty' = dirty, pool_addr' = pool_addr
  PROVE  /\ Code' = Code /\ Pool' = Pool /\ (Clean' <=> Clean)
         /\ \A offs, poffs, n : FileWith(offs, poffs, n) => FileWith(offs, poffs, n)'
  <1>1. Code' = Code /\ Pool' = Pool
    BY DEF Code, Pool
  <1>2. Clean' <=> Clean
    BY <1>1 DEF Clean, Avoids
  <1>3. ASSUME NEW offs, NEW poffs, NEW n, FileWith(offs, poffs, n)
        PROVE  FileWith(offs, poffs, n)'
    <2>1. CodeEnd(offs)' = CodeEnd(offs) /\ PoolAddrOf(offs)' = PoolAddrOf(offs)
      BY <1>1 DEF CodeEnd, PoolAddrOf
    <2>. QED BY <1>1, <1>3, <2>1 DEF FileWith
  <1>. QED BY <1>1, <1>2, <1>3

LEMMA AppendStringKept == FileInv /\ append_string => FileInv'
  <1>. SUFFICES ASSUME FileInv, append_string PROVE FileInv'
    OBVIOUS
  <1>1. /\ phase = "pooling" /\ at <= Len(Pool) /\ at' = at + 1 /\ phase' = "pooling"
        /\ pool_addr' = pool_addr /\ image' = image /\ holder' = holder /\ strings' = strings
    BY DEF append_string, loader
  <1>2. PICK x \in 0..255 : /\ bytes' = bytes \o Bytes[Pool[at]] \o <<x>>
                            /\ dirty' = (dirty \/ x # 0)
    <2>1. PICK x \in IF terminated /\ Bytes[Pool[at]] = <<>> THEN {0} ELSE Leftovers :
             /\ bytes' = bytes \o Bytes[Pool[at]] \o <<x>>
             /\ dirty' = (dirty \/ x # 0)
      BY DEF append_string
    <2>2. x \in {0} \/ x \in Leftovers
      OBVIOUS
    <2>3. x \in 0..255
      BY <2>2, LeftoversAssumption
    <2>. QED BY <2>1, <2>3
  <1>3. PICK offs, poffs : /\ at \in 1..Len(Pool) + 1
                           /\ FileWith(offs, poffs, at - 1)
    BY <1>1 DEF FileInv, PoolingInv
  <1>. DEFINE t == Bytes[Pool[at]]
  <1>4. /\ at - 1 \in 0..Len(Pool) - 1 /\ (at - 1) + 1 = at /\ at \in 1..Len(Pool)
        /\ CodeEnd(offs) \in Nat
    <2>1. Layout(offs, 0, Widths(Code), Len(Code))
      BY <1>3 DEF FileWith, CodeIn
    <2>2. CodeEnd(offs) \in Nat
      BY <2>1, FileFacts, LayoutEnds DEF CodeEnd
    <2>. QED BY <1>1, <1>3, <2>2, FileFacts
  <1>5. PICK o : /\ bytes' \in Seq(0..255)
                 /\ PoolIn(Pool, bytes', o, CodeEnd(offs), at)
                 /\ EndedIn(bytes, poffs, at - 1) /\ x = 0 => EndedIn(bytes', o, at)
    <2>. DEFINE o == Next1(poffs, Lengths(Pool), at - 1)
    <2>1. PoolIn(Pool, bytes, poffs, CodeEnd(offs), at - 1)
      BY <1>3 DEF FileWith
    <2>. HIDE DEF o
    <2>2. LET after == bytes \o Bytes[Pool[(at - 1) + 1]] \o <<x>>
          IN  /\ after \in Seq(0..255)
              /\ PoolIn(Pool, after, o, CodeEnd(offs), (at - 1) + 1)
              /\ EndedIn(bytes, poffs, at - 1) /\ x = 0 => EndedIn(after, o, (at - 1) + 1)
      BY <1>4, <2>1, FileFacts, PoolGrows, ZenonT(40) DEF o
    <2>3. /\ bytes' \in Seq(0..255)
          /\ PoolIn(Pool, bytes', o, CodeEnd(offs), at)
          /\ EndedIn(bytes, poffs, at - 1) /\ x = 0 => EndedIn(bytes', o, at)
      BY <1>2, <1>4, <2>2
    <2>. QED BY <2>3
  <1>6. CodeIn(Code, bytes', offs, Len(Code))
    <2>1. CodeIn(Code, bytes, offs, Len(Code)) /\ Len(Code) \in 0..Len(Code)
      BY <1>3, FileFacts DEF FileWith
    <2>2. t \in Seq(0..255)
      <3>1. t \in Seq(1..255)
        BY <1>4, FileFacts, SavableFacts
      <3>. HIDE DEF t
      <3>. QED BY <3>1
    <2>. DEFINE xs == <<x>>
                both == bytes \o t
    <2>3. xs \in Seq(0..255)
      OBVIOUS
    <2>4. bytes' = both \o xs
      BY <1>2
    <2>. HIDE DEF xs, t, both
    <2>5. CodeIn(Code, both, offs, Len(Code)) /\ both \in Seq(0..255)
      BY <2>1, <2>2, FileFacts, CodeStays, Appended DEF both
    <2>6. CodeIn(Code, both \o xs, offs, Len(Code))
      BY <2>1, <2>3, <2>5, FileFacts, CodeStays
    <2>. QED BY <2>4, <2>6
  <1>7. Code' = Code /\ Pool' = Pool
    BY <1>1 DEF Code, Pool
  <1>8. ASSUME NEW n, n = at PROVE FileWith(offs, o, n)'
    <2>1. CodeEnd(offs)' = CodeEnd(offs) /\ PoolAddrOf(offs)' = PoolAddrOf(offs)
      BY <1>7 DEF CodeEnd, PoolAddrOf
    <2>2. ~dirty' => EndedIn(bytes', o, at)
      <3>. SUFFICES ASSUME ~dirty' PROVE EndedIn(bytes', o, at)
        OBVIOUS
      <3>1. ~dirty /\ ~(x # 0)
        BY <1>2, Zenon
      <3>2. EndedIn(bytes, poffs, at - 1)
        BY <1>3, <3>1 DEF FileWith
      <3>. QED BY <1>5, <3>1, <3>2
    <2>. QED BY <1>1, <1>3, <1>5, <1>6, <1>7, <1>8, <2>1, <2>2 DEF FileWith
  <1>9. PoolingInv'
    <2>1. at' \in 1..Len(Pool) + 1 /\ at' - 1 = at
      BY <1>1, <1>4
    <2>2. PICK n : n = at
      OBVIOUS
    <2>3. FileWith(offs, o, n)' /\ n = (at - 1)'
      BY <1>8, <2>1, <2>2
    <2>. QED BY <1>7, <2>1, <2>3 DEF PoolingInv
  <1>10. FileTypes'
    <2>1. dirty' \in BOOLEAN
      BY <1>2, Zenon
    <2>. QED BY <1>1, <1>5, <2>1 DEF FileInv, FileTypes, Phases
  <1>11. SavedInv'
    BY <1>1 DEF FileInv, SavedInv
  <1>. QED BY <1>1, <1>9, <1>10, <1>11
       DEF FileInv, SavingInv, ReadingInv, StringsInv, EndInv

LEMMA CloseFileKept == FileInv /\ CloseFile => FileInv'
  <1>. SUFFICES ASSUME FileInv, CloseFile PROVE FileInv'
    OBVIOUS
  <1>1. /\ phase = "pooling" /\ at > Len(Pool) /\ phase' = "saved"
        /\ UNCHANGED <<saver, loader>>
    BY DEF CloseFile
  <1>2. PICK offs, poffs : /\ at \in 1..Len(Pool) + 1
                           /\ FileWith(offs, poffs, at - 1)
    BY <1>1 DEF FileInv, PoolingInv
  <1>3. FileWith(offs, poffs, Len(Pool))
    <2>1. at - 1 = Len(Pool)
      BY <1>1, <1>2, FileFacts
    <2>. QED BY <1>2, <2>1
  <1>4. SavedInv'
    BY <1>1, <1>3, FileStays DEF FileInv, SavedInv, saver, loader
  <1>5. FileTypes'
    BY <1>1 DEF FileInv, FileTypes, Phases, saver
  <1>. QED BY <1>1, <1>4, <1>5
       DEF FileInv, SavingInv, PoolingInv, ReadingInv, StringsInv, EndInv
-----------------------------------------------------------------------------
(* Reading.                                                                  *)

LEMMA Addresses ==
  ASSUME NEW p \in Nat
  PROVE  /\ instr_addr \in Nat \ {0}
         /\ ByteAt(instr_addr + p) = bytes[p + 1]
         /\ \A k \in Nat : ByteAt(((instr_addr + p) + 1) + k - 1) = bytes[(p + 1) + k]
         /\ \A k \in Nat : ByteAt((instr_addr + p) + k - 1) = bytes[p + k]
  <1>1. /\ (instr_addr + p) - instr_addr + 1 = p + 1
        /\ \A k \in Nat : (((instr_addr + p) + 1) + k - 1) - instr_addr + 1 = (p + 1) + k
        /\ \A k \in Nat : ((instr_addr + p) + k - 1) - instr_addr + 1 = p + k
    BY DEF instr_addr
  <1>2. instr_addr \in Nat \ {0}
    BY DEF instr_addr
  <1>. QED BY <1>1, <1>2 DEF ByteAt

(* With instructions left to read, the next one is at the cursor.            *)
LEMMA InsideCode ==
  ASSUME FileInv, NEW offs, NEW poffs, FileWith(offs, poffs, Len(Pool)),
         NEW n \in 0..Len(Code) - 1, cursor = instr_addr + offs[n + 1]
  PROVE  LET i0 == Code[n + 1]
         IN  /\ i0.op \in Opcodes
             /\ cursor # byte_size /\ ~AtPool
             /\ ByteAt(cursor) = OpcodeOf[i0.op]
             /\ cursor + bytes_to_read[i0.op] < byte_size
             /\ Decoded(i0.op, cursor + 1) = Loaded(i0)
             /\ cursor + 1 + bytes_to_read[i0.op] = instr_addr + offs[(n + 1) + 1]
  <1>. DEFINE i0 == Code[n + 1]
              b == bytes_to_read[i0.op]
              p == offs[n + 1]
              q == offs[(n + 1) + 1]
  <1>1. n + 1 \in 1..Len(Code) /\ Len(Code) \in Nat /\ Len(bytes) \in Nat
    BY FileFacts
  <1>2. /\ Layout(offs, 0, Widths(Code), Len(Code)) /\ CodeEnd(offs) <= Len(bytes)
        /\ InstrIn(i0, bytes, p)
    BY <1>1 DEF FileWith, CodeIn, CodeEnd
  <1>3. i0 \in Instr /\ Fits(i0) /\ b \in {0, 1, 4, 8} /\ Widths(Code)[n + 1] = 1 + b
    BY <1>1, FileFacts, SavableFacts
  <1>4. /\ p \in Nat /\ q \in Nat /\ CodeEnd(offs) \in Nat
        /\ q = p + (1 + b) /\ q <= CodeEnd(offs)
    BY <1>1, <1>2, <1>3, LayoutFacts DEF CodeEnd
  <1>. HIDE DEF p, q, b, i0
  <1>5. cursor = instr_addr + p
    BY DEF p
  <1>6. instr_addr \in Nat \ {0} /\ b \in Nat
    BY <1>3, <1>4, Addresses
  <1>7. /\ cursor # byte_size /\ cursor + b < byte_size
        /\ cursor + 1 + b = instr_addr + q
    BY <1>1, <1>2, <1>4, <1>5, <1>6 DEF byte_size
  <1>8. ~AtPool
    <2>1. pool_addr = 0 \/ pool_addr = instr_addr + CodeEnd(offs)
      BY DEF FileWith, PoolAddrOf
    <2>. QED BY <1>4, <1>5, <1>6, <2>1 DEF AtPool
  <1>9. ByteAt(cursor) = OpcodeOf[i0.op]
    BY <1>2, <1>4, <1>5, Addresses DEF InstrIn
  <1>10. Decoded(i0.op, cursor + 1) = Loaded(i0)
    <2>1. ASSUME NEW k \in 1..bytes_to_read[i0.op]
          PROVE  ByteAt((cursor + 1) + k - 1) = ByteOf(i0.arg, k)
      <3>1. k \in Nat
        BY <1>6 DEF b
      <3>2. ByteAt((cursor + 1) + k - 1) = bytes[(p + 1) + k]
        <4>1. ByteAt(((instr_addr + p) + 1) + k - 1) = bytes[(p + 1) + k]
          BY <1>4, <3>1, Addresses
        <4>. QED BY <1>5, <4>1
      <3>. QED BY <1>2, <3>2 DEF InstrIn
    <2>2. cursor + 1 \in Nat
      BY <1>4, <1>5, <1>6
    <2>. QED BY <1>3, <2>1, <2>2, DecodedAsWritten
  <1>11. i0.op \in Opcodes
    BY <1>3 DEF Fits
  <1>. QED BY <1>7, <1>8, <1>9, <1>10, <1>11 DEF i0, b, q

(* With none left, the cursor is where the strings begin, or at the end.     *)
LEMMA CodeRead ==
  ASSUME FileInv, NEW offs, NEW poffs, FileWith(offs, poffs, Len(Pool)),
         cursor = instr_addr + CodeEnd(offs)
  PROVE  /\ cursor = byte_size \/ AtPool
         /\ (IF pool_addr = 0 THEN byte_size ELSE pool_addr) = instr_addr + poffs[1]
  <1>1. /\ Layout(offs, 0, Widths(Code), Len(Code))
        /\ Layout(poffs, CodeEnd(offs), Lengths(Pool), Len(Pool))
        /\ poffs[Len(Pool) + 1] = Len(bytes)
        /\ pool_addr = PoolAddrOf(offs)
    <2>1. /\ CodeIn(Code, bytes, offs, Len(Code))
          /\ PoolIn(Pool, bytes, poffs, CodeEnd(offs), Len(Pool))
          /\ pool_addr = PoolAddrOf(offs)
      BY DEF FileWith
    <2>2. Layout(offs, 0, Widths(Code), Len(Code))
      BY <2>1 DEF CodeIn
    <2>. QED BY <2>1, <2>2 DEF PoolIn
  <1>2. CodeEnd(offs) \in Nat /\ poffs[1] = CodeEnd(offs)
    <2>1. CodeEnd(offs) \in Nat
      BY <1>1, FileFacts, LayoutEnds DEF CodeEnd
    <2>. QED BY <1>1, <2>1 DEF Layout
  <1>3. instr_addr \in Nat \ {0}
    BY <1>2, Addresses
  <1>4. CASE Pool = <<>>
    <2>1. Len(Pool) = 0 /\ poffs[Len(Pool) + 1] = poffs[1]
      BY <1>4
    <2>2. pool_addr = 0 /\ byte_size = instr_addr + CodeEnd(offs)
      BY <1>1, <1>2, <1>4, <2>1 DEF PoolAddrOf, byte_size
    <2>. QED BY <1>2, <2>2
  <1>5. CASE Pool # <<>>
    <2>1. pool_addr = instr_addr + CodeEnd(offs) /\ pool_addr # 0
      BY <1>1, <1>2, <1>3, <1>5 DEF PoolAddrOf
    <2>2. AtPool
      BY <1>2, <1>3, <2>1 DEF AtPool
    <2>. QED BY <1>2, <2>1, <2>2
  <1>. QED BY <1>4, <1>5

LEMMA ReadInstructionKept == FileInv /\ ReadInstruction => FileInv'
  <1>. SUFFICES ASSUME FileInv, ReadInstruction PROVE FileInv'
    OBVIOUS
  <1>1. /\ phase = "reading" /\ cursor # byte_size /\ ~AtPool
        /\ UNCHANGED <<saver, strings>>
        /\ IF ByteAt(cursor) >= Len(opcodes)
              \/ cursor + bytes_to_read[opcodes[ByteAt(cursor) + 1]] >= byte_size
           THEN phase' = "past_end" /\ UNCHANGED <<holder, cursor>>
           ELSE LET op == opcodes[ByteAt(cursor) + 1]
                IN  /\ holder' = Append(holder, Decoded(op, cursor + 1))
                    /\ cursor' = cursor + 1 + bytes_to_read[op]
                    /\ UNCHANGED phase
    BY DEF ReadInstruction
  <1>2. PICK offs, poffs, n : /\ FileWith(offs, poffs, Len(Pool))
                              /\ Taken(holder, Kept(Code), n)
                              /\ cursor = instr_addr + offs[n + 1]
    BY <1>1 DEF FileInv, ReadingInv
  <1>3. Kept(Code) \in Seq(Instr) /\ Len(Kept(Code)) = Len(Code) /\ Len(Code) \in Nat
    BY FileFacts, KeptFacts
  <1>4. n \in 0..Len(Code) - 1
    <2>1. n \in 0..Len(Code)
      BY <1>2, <1>3 DEF Taken
    <2>2. n # Len(Code)
      <3>1. ASSUME n = Len(Code) PROVE FALSE
        <4>1. cursor = instr_addr + CodeEnd(offs)
          BY <1>2, <3>1 DEF CodeEnd
        <4>2. cursor = byte_size \/ AtPool
          BY <1>2, <4>1, CodeRead
        <4>. QED BY <1>1, <4>2
      <3>. QED BY <3>1
    <2>. QED BY <1>3, <2>1, <2>2
  <1>. DEFINE i0 == Code[n + 1]
              b == bytes_to_read[i0.op]
  <1>5. /\ i0.op \in Opcodes
        /\ ByteAt(cursor) = OpcodeOf[i0.op]
        /\ cursor + b < byte_size
        /\ Decoded(i0.op, cursor + 1) = Loaded(i0)
        /\ cursor + 1 + b = instr_addr + offs[(n + 1) + 1]
    BY <1>2, <1>4, InsideCode
  <1>6. opcodes[ByteAt(cursor) + 1] = i0.op /\ ByteAt(cursor) < Len(opcodes)
    <2>1. Len(opcodes) = 29
      BY DEF opcodes
    <2>2. OpcodeOf[i0.op] \in 0..28 /\ opcodes[OpcodeOf[i0.op] + 1] = i0.op
      BY <1>5, OpcodesHaveCodes
    <2>. QED BY <1>5, <2>1, <2>2
  <1>7. cursor \in Nat /\ b \in Nat /\ byte_size \in Nat
    <2>1. b \in {0, 1, 4, 8}
      BY <1>5, BytesToRead
    <2>2. Layout(offs, 0, Widths(Code), Len(Code)) /\ n + 1 \in 1..Len(Code)
      BY <1>2, <1>3, <1>4 DEF FileWith, CodeIn
    <2>3. offs[n + 1] \in Nat
      BY <1>3, <2>2, LayoutFacts
    <2>4. instr_addr \in Nat
      BY DEF instr_addr
    <2>. QED BY <1>2, <2>1, <2>3, <2>4, FileFacts DEF byte_size
  <1>8. /\ holder' = Append(holder, Loaded(i0))
        /\ cursor' = instr_addr + offs[(n + 1) + 1]
        /\ phase' = "reading"
    <2>1. ~(ByteAt(cursor) >= Len(opcodes))
      <3>1. OpcodeOf[i0.op] \in 0..28
        BY <1>5, OpcodesHaveCodes
      <3>2. Len(opcodes) = 29
        BY DEF opcodes
      <3>. QED BY <1>5, <3>1, <3>2
    <2>2. ~(cursor + bytes_to_read[opcodes[ByteAt(cursor) + 1]] >= byte_size)
      BY <1>5, <1>6, <1>7
    <2>. QED BY <1>1, <1>5, <1>6, <2>1, <2>2
  <1>9. Taken(holder', Kept(Code), n + 1)
    <2>1. Kept(Code)[n + 1] = Loaded(i0)
      BY <1>3, <1>4, FileFacts, KeptFacts
    <2>. QED BY <1>2, <1>3, <1>4, <1>8, <2>1, TakenMore
  <1>10. FileWith(offs, poffs, Len(Pool))' /\ Code' = Code /\ Pool' = Pool
    BY <1>1, <1>2, FileStays DEF saver
  <1>11. ReadingInv'
    <2>1. strings' = <<>>
      BY <1>1 DEF FileInv, ReadingInv
    <2>. QED BY <1>8, <1>9, <1>10, <2>1 DEF ReadingInv
  <1>12. FileTypes'
    BY <1>1, <1>8 DEF FileInv, FileTypes, Phases, saver
  <1>. QED BY <1>8, <1>11, <1>12
       DEF FileInv, SavingInv, PoolingInv, SavedInv, StringsInv, EndInv

LEMMA OpenFileKept == ASSUME NEW version PROVE FileInv /\ OpenFile(version) => FileInv'
  <1>. SUFFICES ASSUME FileInv, OpenFile(version) PROVE FileInv'
    OBVIOUS
  <1>1. /\ phase = "saved" /\ UNCHANGED <<saver, holder, strings>>
        /\ \/ phase' = "reading" /\ cursor' = instr_addr
           \/ phase' = "halted"
    BY DEF OpenFile
  <1>2. /\ holder = <<>> /\ strings = <<>>
        /\ \E offs, poffs : FileWith(offs, poffs, Len(Pool))
    BY <1>1 DEF FileInv, SavedInv
  <1>3. PICK offs, poffs : FileWith(offs, poffs, Len(Pool))
    BY <1>2
  <1>4. FileWith(offs, poffs, Len(Pool))' /\ Code' = Code
    BY <1>1, <1>3, FileStays DEF saver
  <1>5. FileTypes'
    BY <1>1 DEF FileInv, FileTypes, Phases, saver
  <1>6. SavedInv'
    BY <1>1, <1>2 DEF SavedInv
  <1>7. ReadingInv'
    <2>. SUFFICES ASSUME phase' = "reading" PROVE ReadingInv'
      BY DEF ReadingInv
    <2>1. Taken(holder', Kept(Code), 0)
      BY <1>1, <1>2, FileFacts, KeptFacts, TakenNone
    <2>2. cursor' = instr_addr + offs[0 + 1]
      <3>1. offs[1] = 0
        BY <1>3 DEF FileWith, CodeIn, Layout
      <3>. QED BY <1>1, <3>1 DEF instr_addr
    <2>. QED BY <1>1, <1>2, <1>4, <2>1, <2>2 DEF ReadingInv
  <1>. QED BY <1>1, <1>5, <1>6, <1>7
       DEF FileInv, SavingInv, PoolingInv, StringsInv, EndInv

LEMMA ReadPoolKept == FileInv /\ ReadPool => FileInv'
  <1>. SUFFICES ASSUME FileInv, ReadPool PROVE FileInv'
    OBVIOUS
  <1>1. /\ phase = "reading" /\ (cursor = byte_size \/ AtPool) /\ phase' = "strings"
        /\ cursor' = IF pool_addr = 0 THEN byte_size ELSE pool_addr
        /\ UNCHANGED <<saver, holder, strings>>
    BY DEF ReadPool
  <1>2. PICK offs, poffs, n : /\ FileWith(offs, poffs, Len(Pool))
                              /\ Taken(holder, Kept(Code), n)
                              /\ cursor = instr_addr + offs[n + 1]
    BY <1>1 DEF FileInv, ReadingInv
  <1>3. Kept(Code) \in Seq(Instr) /\ Len(Kept(Code)) = Len(Code) /\ Len(Code) \in Nat
    BY FileFacts, KeptFacts
  <1>4. n = Len(Code)
    <2>1. n \in 0..Len(Code)
      BY <1>2, <1>3 DEF Taken
    <2>2. ASSUME n \in 0..Len(Code) - 1 PROVE FALSE
      BY <1>1, <1>2, <2>2, InsideCode
    <2>. QED BY <1>3, <2>1, <2>2
  <1>5. holder' = Kept(Code)
    BY <1>1, <1>2, <1>3, <1>4, TakenAll
  <1>6. cursor' = instr_addr + poffs[1]
    <2>1. cursor = instr_addr + CodeEnd(offs)
      BY <1>2, <1>4 DEF CodeEnd
    <2>. QED BY <1>1, <1>2, <2>1, CodeRead
  <1>7. FileWith(offs, poffs, Len(Pool))' /\ Code' = Code /\ Pool' = Pool
    BY <1>1, <1>2, FileStays DEF saver
  <1>8. StringsInv'
    <2>1. Taken(strings', Pool, 0)
      <3>1. strings' = <<>>
        BY <1>1 DEF FileInv, ReadingInv
      <3>. QED BY <3>1, FileFacts, TakenNone
    <2>2. cursor' = instr_addr + poffs[0 + 1]
      BY <1>6
    <2>. QED BY <1>5, <1>7, <2>1, <2>2 DEF StringsInv
  <1>9. FileTypes'
    BY <1>1 DEF FileInv, FileTypes, Phases, saver
  <1>. QED BY <1>1, <1>8, <1>9
       DEF FileInv, SavingInv, PoolingInv, SavedInv, ReadingInv, EndInv

(* With texts left to read, and zero bytes behind them, the next one is      *)
(* found, and ends where it should.                                          *)
LEMMA InsidePool ==
  ASSUME FileInv, ~dirty, NEW offs, NEW poffs, FileWith(offs, poffs, Len(Pool)),
         NEW n \in 0..Len(Pool) - 1, cursor = instr_addr + poffs[n + 1]
  PROVE  LET text == Pool[n + 1]
             l == Len(Bytes[text])
         IN  /\ StringEnd(cursor) = cursor + l /\ Zeros(cursor) # {}
             /\ TextWith([k \in 1..l |-> ByteAt(cursor + k - 1)]) = text
             /\ cursor + l + 1 = instr_addr + poffs[(n + 1) + 1]
             /\ cursor \in Nat /\ l \in Nat
  <1>. DEFINE text == Pool[n + 1]
              l == Len(Bytes[text])
              p == poffs[n + 1]
              q == poffs[(n + 1) + 1]
  <1>1. n + 1 \in 1..Len(Pool) /\ Len(Pool) \in Nat /\ Len(bytes) \in Nat
    BY FileFacts
  <1>2. /\ Layout(poffs, CodeEnd(offs), Lengths(Pool), Len(Pool))
        /\ poffs[Len(Pool) + 1] = Len(bytes)
        /\ TextIn(text, bytes, p)
        /\ bytes[q] = 0
        /\ CodeEnd(offs) \in Nat
    <2>1. /\ CodeIn(Code, bytes, offs, Len(Code))
          /\ PoolIn(Pool, bytes, poffs, CodeEnd(offs), Len(Pool))
          /\ EndedIn(bytes, poffs, Len(Pool))
      BY DEF FileWith
    <2>2. CodeEnd(offs) \in Nat
      <3>1. Layout(offs, 0, Widths(Code), Len(Code))
        BY <2>1 DEF CodeIn
      <3>. QED BY <3>1, FileFacts, LayoutEnds DEF CodeEnd
    <2>3. bytes[q] = 0
      BY <1>1, <2>1 DEF EndedIn
    <2>. QED BY <1>1, <2>1, <2>2, <2>3 DEF PoolIn
  <1>3. /\ text \in DOMAIN Bytes /\ Bytes[text] \in Seq(1..255) /\ l \in Nat
        /\ Lengths(Pool)[n + 1] = l + 1
    BY <1>1, FileFacts, SavableFacts
  <1>4. p \in Nat /\ q \in Nat /\ q = p + (l + 1) /\ q <= Len(bytes)
    <2>1. /\ poffs[n + 1] \in Nat /\ poffs[(n + 1) + 1] \in Nat
          /\ poffs[(n + 1) + 1] = poffs[n + 1] + Lengths(Pool)[n + 1]
          /\ poffs[(n + 1) + 1] <= poffs[Len(Pool) + 1]
      BY <1>1, <1>2, LayoutFacts, SMTT(20)
    <2>. QED BY <1>2, <1>3, <2>1
  <1>. HIDE DEF p, q, l, text
  <1>5. cursor = instr_addr + p /\ instr_addr \in Nat
    BY <1>4, Addresses DEF p
  <1>6. /\ \A k \in 1..l : ByteAt(cursor + k - 1) = Bytes[text][k]
        /\ \A k \in 1..l : ByteAt(cursor + k - 1) # 0
        /\ ByteAt(cursor + l) = 0
    <2>1. ASSUME NEW k \in 1..l
          PROVE  ByteAt(cursor + k - 1) = Bytes[text][k] /\ Bytes[text][k] # 0
      <3>1. k \in Nat /\ k \in 1..Len(Bytes[text])
        BY <1>3 DEF l
      <3>2. ByteAt((instr_addr + p) + k - 1) = bytes[p + k]
        BY <1>4, <3>1, Addresses
      <3>3. bytes[p + k] = Bytes[text][k]
        BY <1>2, <3>1 DEF TextIn
      <3>4. Bytes[text][k] \in 1..255
        BY <1>3, <3>1, ElementOfSeq
      <3>5. ByteAt(cursor + k - 1) = Bytes[text][k]
        BY <1>5, <3>2, <3>3
      <3>6. \A v \in 1..255 : v # 0
        OBVIOUS
      <3>. QED BY <3>4, <3>5, <3>6, Zenon
    <2>2. ByteAt(cursor + l) = 0
      <3>1. ByteAt((instr_addr + p) + (l + 1) - 1) = bytes[p + (l + 1)]
        <4>1. l + 1 \in Nat
          BY <1>3
        <4>. QED BY <1>4, <4>1, Addresses
      <3>2. (instr_addr + p) + (l + 1) - 1 = cursor + l
        BY <1>3, <1>4, <1>5
      <3>. QED BY <1>2, <1>4, <3>1, <3>2
    <2>. QED BY <2>1, <2>2
  <1>7. cursor + l \in Zeros(cursor)
    <2>1. cursor + l \in cursor..byte_size - 1
      BY <1>1, <1>3, <1>4, <1>5 DEF byte_size
    <2>. QED BY <1>6, <2>1 DEF Zeros
  <1>8. \A z \in Zeros(cursor) : z \in Int /\ cursor + l <= z
    <2>. SUFFICES ASSUME NEW z \in Zeros(cursor), ~(z \in Int /\ cursor + l <= z) PROVE FALSE
      OBVIOUS
    <2>1. z \in Int /\ cursor <= z /\ ByteAt(z) = 0
      BY <1>1, <1>4, <1>5 DEF Zeros, byte_size
    <2>2. (z - cursor) + 1 \in 1..l /\ cursor + ((z - cursor) + 1) - 1 = z
      BY <1>3, <1>4, <1>5, <2>1, SMTT(20)
    <2>3. ByteAt(cursor + ((z - cursor) + 1) - 1) # 0
      BY <1>6, <2>2
    <2>. QED BY <2>1, <2>2, <2>3
  <1>9. StringEnd(cursor) = cursor + l
    <2>1. \E z \in Zeros(cursor) : \A address \in Zeros(cursor) : z <= address
      BY <1>7, <1>8
    <2>2. /\ StringEnd(cursor) \in Zeros(cursor)
          /\ \A address \in Zeros(cursor) : StringEnd(cursor) <= address
      BY <2>1 DEF StringEnd
    <2>3. cursor + l \in Int /\ StringEnd(cursor) \in Int
      BY <1>7, <1>8, <2>2
    <2>. QED BY <1>7, <1>8, <2>2, <2>3
  <1>. DEFINE s == [k \in 1..l |-> ByteAt(cursor + k - 1)]
  <1>10. TextWith(s) = text
    <2>1. s = Bytes[text]
      BY <1>3, <1>6 DEF l
    <2>. HIDE DEF s
    <2>2. \A t \in DOMAIN Bytes : Bytes[t] = s => t = text
      BY <1>3, <2>1, BytesAssumption
    <2>. QED BY <1>3, <2>1, <2>2 DEF TextWith
  <1>11. cursor + l + 1 = instr_addr + q /\ cursor \in Nat
    BY <1>3, <1>4, <1>5
  <1>. QED BY <1>3, <1>7, <1>9, <1>10, <1>11 DEF text, l, q

LEMMA ReadStringKept == FileInv /\ ReadString => FileInv'
  <1>. SUFFICES ASSUME FileInv, ReadString PROVE FileInv'
    OBVIOUS
  <1>. DEFINE length == StringEnd(cursor) - cursor
              s == [k \in 1..length |-> ByteAt(cursor + k - 1)]
  <1>1. /\ phase = "strings" /\ cursor # byte_size
        /\ UNCHANGED <<saver, holder>>
        /\ IF Zeros(cursor) = {}
           THEN phase' = "past_end" /\ UNCHANGED <<strings, cursor>>
           ELSE IF FillsBuffer(length + 1)
                THEN phase' = "past_string" /\ UNCHANGED <<strings, cursor>>
                ELSE /\ strings' = Append(strings, TextWith(s))
                     /\ cursor' = cursor + length + 1
                     /\ UNCHANGED phase
    BY DEF ReadString
  <1>2. holder = Kept(Code) /\ holder' = Kept(Code)
    BY <1>1 DEF FileInv, StringsInv
  <1>3. /\ Code' = Code /\ Pool' = Pool /\ (Clean' <=> Clean)
        /\ \A offs, poffs, n : FileWith(offs, poffs, n) => FileWith(offs, poffs, n)'
    BY <1>1, FileStays DEF saver
  <1>. HIDE DEF s, length
  <1>4. phase' \in {"strings", "past_end", "past_string"}
    BY <1>1
  <1>5. ASSUME Clean
        PROVE  /\ phase' = "strings"
               /\ \E offs, poffs, n : /\ FileWith(offs, poffs, Len(Pool))'
                                      /\ Taken(strings', Pool, n)
                                      /\ cursor' = instr_addr + poffs[n + 1]
    <2>1. PICK offs, poffs, n : /\ FileWith(offs, poffs, Len(Pool))
                                /\ Taken(strings, Pool, n)
                                /\ cursor = instr_addr + poffs[n + 1]
      BY <1>1, <1>5 DEF FileInv, StringsInv
    <2>2. ~dirty /\ Avoids(Pool)
      BY <1>5 DEF Clean
    <2>3. n \in 0..Len(Pool) - 1
      <3>1. n \in 0..Len(Pool)
        BY <2>1 DEF Taken
      <3>2. ASSUME n = Len(Pool) PROVE FALSE
        <4>1. poffs[Len(Pool) + 1] = Len(bytes)
          BY <2>1 DEF FileWith, PoolIn
        <4>. QED BY <1>1, <2>1, <3>2, <4>1 DEF byte_size
      <3>. QED BY <3>1, <3>2, FileFacts
    <2>. DEFINE text == Pool[n + 1]
                l == Len(Bytes[text])
    <2>4. /\ StringEnd(cursor) = cursor + l /\ Zeros(cursor) # {}
          /\ TextWith([k \in 1..l |-> ByteAt(cursor + k - 1)]) = text
          /\ cursor + l + 1 = instr_addr + poffs[(n + 1) + 1]
          /\ cursor \in Nat /\ l \in Nat
      BY <2>1, <2>2, <2>3, InsidePool
    <2>5. ~FillsBuffer(l + 1)
      <3>1. n + 1 \in DOMAIN Pool
        BY <2>3, FileFacts
      <3>. QED BY <2>2, <3>1 DEF Avoids
    <2>. HIDE DEF l, text
    <2>6. length = l
      BY <2>4 DEF length
    <2>7. TextWith(s) = text
      BY <2>4, <2>6 DEF s
    <2>8. /\ strings' = Append(strings, text) /\ phase' = "strings"
          /\ cursor' = instr_addr + poffs[(n + 1) + 1]
      BY <1>1, <2>4, <2>5, <2>6, <2>7
    <2>9. Taken(strings', Pool, n + 1)
      BY <2>1, <2>3, <2>8, FileFacts, TakenMore DEF text
    <2>. QED BY <1>3, <2>1, <2>8, <2>9
  <1>6. StringsInv'
    <2>. SUFFICES ASSUME Clean'
                  PROVE  (\E offs, poffs, n : /\ FileWith(offs, poffs, Len(Pool))
                                              /\ Taken(strings, Pool, n)
                                              /\ cursor = instr_addr + poffs[n + 1])'
      BY <1>2, <1>3 DEF StringsInv
    <2>. QED BY <1>3, <1>5
  <1>7. EndInv'
    BY <1>2, <1>3, <1>4, <1>5 DEF EndInv
  <1>8. FileTypes'
    BY <1>1, <1>4 DEF FileInv, FileTypes, Phases, saver
  <1>. QED BY <1>4, <1>6, <1>7, <1>8
       DEF FileInv, SavingInv, PoolingInv, SavedInv, ReadingInv

LEMMA BeginExecutionKept == FileInv /\ BeginExecution => FileInv'
  <1>. SUFFICES ASSUME FileInv, BeginExecution PROVE FileInv'
    OBVIOUS
  <1>1. /\ phase = "strings" /\ cursor = byte_size /\ phase' = "executing"
        /\ UNCHANGED <<saver, loader>>
    BY DEF BeginExecution
  <1>2. Code' = Code /\ Pool' = Pool /\ (Clean' <=> Clean)
    BY <1>1, FileStays DEF saver
  <1>3. holder = Kept(Code) /\ holder' = Kept(Code)
    BY <1>1 DEF FileInv, StringsInv, loader
  <1>4. ASSUME Clean PROVE strings = Pool
    <2>1. PICK offs, poffs, n : /\ FileWith(offs, poffs, Len(Pool))
                                /\ Taken(strings, Pool, n)
                                /\ cursor = instr_addr + poffs[n + 1]
      BY <1>1, <1>4 DEF FileInv, StringsInv
    <2>2. n = Len(Pool)
      <3>1. n \in 0..Len(Pool)
        BY <2>1 DEF Taken
      <3>2. ASSUME n \in 0..Len(Pool) - 1 PROVE FALSE
        <4>. DEFINE text == Pool[n + 1]
                    l == Len(Bytes[text])
        <4>1. ~dirty
          BY <1>4 DEF Clean
        <4>2. cursor + l \in Zeros(cursor) /\ cursor \in Nat /\ l \in Nat
          <5>1. StringEnd(cursor) = cursor + l /\ Zeros(cursor) # {}
                /\ cursor \in Nat /\ l \in Nat
            BY <2>1, <3>2, <4>1, InsidePool
          <5>2. Zeros(cursor) = {}
            BY <1>1, <5>1, FileFacts DEF Zeros, byte_size, instr_addr
          <5>. QED BY <5>1, <5>2
        <4>3. cursor + l <= byte_size - 1
          BY <4>2 DEF Zeros
        <4>. HIDE DEF l, text
        <4>. QED BY <1>1, <4>2, <4>3
      <3>. QED BY <3>1, <3>2, FileFacts
    <2>. QED BY <2>1, <2>2, FileFacts, TakenAll
  <1>5. EndInv'
    <2>1. strings' = strings
      BY <1>1 DEF loader
    <2>. QED BY <1>1, <1>2, <1>3, <1>4, <2>1 DEF EndInv
  <1>6. FileTypes'
    BY <1>1 DEF FileInv, FileTypes, Phases, saver
  <1>. QED BY <1>1, <1>5, <1>6
       DEF FileInv, SavingInv, PoolingInv, SavedInv, ReadingInv, StringsInv

LEMMA FileUnchanged ==
  FileInv /\ phase' = phase /\ UNCHANGED <<saver, loader>> => FileInv'
  <1>. SUFFICES ASSUME FileInv, phase' = phase, UNCHANGED <<saver, loader>> PROVE FileInv'
    OBVIOUS
  <1>1. /\ Code' = Code /\ Pool' = Pool /\ (Clean' <=> Clean)
        /\ \A offs, poffs, n : FileWith(offs, poffs, n) => FileWith(offs, poffs, n)'
    BY FileStays DEF saver
  <1>2. /\ at' = at /\ bytes' = bytes /\ dirty' = dirty /\ image' = image
        /\ holder' = holder /\ strings' = strings /\ cursor' = cursor
    BY DEF saver, loader
  <1>3. FileTypes'
    BY <1>2 DEF FileInv, FileTypes
  <1>4. SavingInv'
    BY <1>1, <1>2 DEF FileInv, SavingInv
  <1>5. PoolingInv'
    <2>. SUFFICES ASSUME phase = "pooling" PROVE PoolingInv'
      BY DEF PoolingInv
    <2>1. PICK offs, poffs, n : /\ at \in 1..Len(Pool) + 1 /\ n = at - 1
                                /\ FileWith(offs, poffs, n)
      BY DEF FileInv, PoolingInv
    <2>2. FileWith(offs, poffs, n)' /\ n = (at - 1)'
      BY <1>1, <1>2, <2>1
    <2>. QED BY <1>1, <1>2, <2>1, <2>2 DEF PoolingInv
  <1>6. SavedInv'
    BY <1>1, <1>2 DEF FileInv, SavedInv
  <1>7. ReadingInv'
    BY <1>1, <1>2 DEF FileInv, ReadingInv
  <1>8. StringsInv'
    BY <1>1, <1>2 DEF FileInv, StringsInv
  <1>9. EndInv'
    BY <1>1, <1>2 DEF FileInv, EndInv
  <1>. QED BY <1>3, <1>4, <1>5, <1>6, <1>7, <1>8, <1>9 DEF FileInv

LEMMA FileInvKept == FileInv /\ [Next_File]_fileVars => FileInv'
  <1>. SUFFICES ASSUME FileInv, [Next_File]_fileVars PROVE FileInv'
    OBVIOUS
  <1>1. CASE SaveInstruction \/ BeginPool \/ append_string \/ CloseFile
    BY <1>1, SaveInstructionKept, BeginPoolKept, AppendStringKept, CloseFileKept
  <1>2. CASE \E version \in Readers : OpenFile(version)
    BY <1>2, OpenFileKept
  <1>3. CASE ReadInstruction \/ ReadPool \/ ReadString \/ BeginExecution
    BY <1>3, ReadInstructionKept, ReadPoolKept, ReadStringKept, BeginExecutionKept
  <1>4. CASE Execute
    BY <1>4, FileUnchanged DEF Execute
  <1>5. CASE UNCHANGED fileVars
    BY <1>5, FileUnchanged DEF fileVars
  <1>. QED BY <1>1, <1>2, <1>3, <1>4, <1>5 DEF Next_File
-----------------------------------------------------------------------------
(* The instructions are read back one by one, all of them, and no string is  *)
(* taken for one: for every image whose arguments fit, whatever the bytes    *)
(* that append_string leaves unwritten (save_to_file, read_from_file).       *)
THEOREM InstructionsAreKept == FileSpec => []InstructionsKept
  <1>1. FileInv /\ [Next_File]_fileVars => FileInv'
    BY FileInvKept
  <1>2. FileInv => InstructionsKept
    BY FileInvMeans
  <1>. QED BY FileInvInit, <1>1, <1>2, PTL DEF FileSpec

(* The pool is read back, empty strings included, when the bytes left        *)
(* unwritten are zero and no string fills its buffer to the last byte.       *)
THEOREM PoolIsKept == FileSpec => []PoolKept
  <1>1. FileInv /\ [Next_File]_fileVars => FileInv'
    BY FileInvKept
  <1>2. FileInv => PoolKept
    BY FileInvMeans
  <1>. QED BY FileInvInit, <1>1, <1>2, PTL DEF FileSpec
-----------------------------------------------------------------------------
(* The machine on the saved image (Saved): the same values, the same way to  *)
(* fetch an instruction, and of each instruction what is looked at.          *)

LEMMA SavedPairs ==
  /\ Saved!NoCells = NoCells /\ Saved!Garbage = Garbage /\ Saved!Frames = Frames
  /\ Saved!Unknown = Unknown /\ Saved!PowerAbove = PowerAbove /\ Saved!Opcodes = Opcodes
  /\ Saved!ss_functions = ss_functions
  /\ \A b : Saved!Bool(b) = Bool(b)
  /\ \A n : Saved!Number(n) = Number(n)
  /\ \A t : Saved!String(t) = String(t)
  /\ \A v : Saved!Magnitude(v) = Magnitude(v) /\ Saved!Operand(v) = Operand(v)
  /\ \A v : Saved!Truth(v) = Truth(v)
  /\ \A i : Saved!Operands(i) = Operands(i)
  <1>1. /\ Saved!NoCells = NoCells /\ Saved!Garbage = Garbage /\ Saved!Frames = Frames
        /\ Saved!Unknown = Unknown
    BY DEF Saved!NoCells, Saved!Garbage, Saved!Frames, Saved!Unknown, NoCells, Garbage, Frames, Unknown
  <1>2. Saved!PowerAbove = PowerAbove
    BY DEF Saved!PowerAbove, PowerAbove
  <1>3. Saved!ss_functions = ss_functions /\ Saved!Opcodes = Opcodes
    BY DEF Saved!ss_functions, ss_functions, Saved!Opcodes, Opcodes
  <1>4. /\ \A b : Saved!Bool(b) = Bool(b)
        /\ \A n : Saved!Number(n) = Number(n)
        /\ \A t : Saved!String(t) = String(t)
    BY DEF Saved!Bool, Saved!Number, Saved!String, Bool, Number, String
  <1>5. \A v : Saved!Magnitude(v) = Magnitude(v) /\ Saved!Operand(v) = Operand(v)
    BY DEF Saved!Magnitude, Saved!Operand, Magnitude, Operand
  <1>6. \A v : Saved!Truth(v) = Truth(v)
    BY DEF Saved!Truth, Truth
  <1>7. \A i : Saved!Operands(i) = Operands(i)
    BY DEF Saved!Operands, Operands, Saved!ss_f_print, Saved!ss_f_exit, Saved!ss_f_to_string,
           Saved!ss_f_to_number, ss_f_print, ss_f_exit, ss_f_to_string, ss_f_to_number
  <1>. QED BY <1>1, <1>2, <1>3, <1>4, <1>5, <1>6, <1>7

LEMMA SavedValues ==
  /\ \A v, w : Saved!Equal(v, w) = Equal(v, w) /\ Saved!Less(v, w) = Less(v, w)
  /\ \A op, v, w : Saved!Arith(op, v, w) = Arith(op, v, w)
  /\ \A v, n : Saved!Bump(v, n) = Bump(v, n)
  /\ \A v : Saved!TextOf(v) = TextOf(v) /\ Saved!NumberOf(v) = NumberOf(v)
  /\ \A v : Saved!Shown(v) = Shown(v) /\ Saved!ExitCode(v) = ExitCode(v)
  /\ \A cells, id : Saved!Cell(cells, id) = Cell(cells, id)
  /\ \A cells, id, v : Saved!WithCell(cells, id, v) = WithCell(cells, id, v)
  /\ \A size, id : Saved!Grown(size, id) = Grown(size, id)
  /\ \A v : (Saved!MayBeText(v) <=> MayBeText(v)) /\ (Saved!BadText(v) <=> BadText(v))
  <1>1. \A v, w : Saved!Equal(v, w) = Equal(v, w) /\ Saved!Less(v, w) = Less(v, w)
    BY SavedPairs DEF Saved!Equal, Saved!Less, Equal, Less
  <1>2. \A op, v, w : Saved!Arith(op, v, w) = Arith(op, v, w)
    BY SavedPairs DEF Saved!Arith, Arith
  <1>3. \A v, n : Saved!Bump(v, n) = Bump(v, n)
    BY SavedPairs DEF Saved!Bump, Bump
  <1>4. \A v : Saved!TextOf(v) = TextOf(v) /\ Saved!NumberOf(v) = NumberOf(v)
    BY SavedPairs DEF Saved!TextOf, Saved!NumberOf, TextOf, NumberOf
  <1>5. \A v : Saved!Shown(v) = Shown(v) /\ Saved!ExitCode(v) = ExitCode(v)
    BY SavedPairs DEF Saved!Shown, Saved!ExitCode, Shown, ExitCode
  <1>6. /\ \A cells, id : Saved!Cell(cells, id) = Cell(cells, id)
        /\ \A cells, id, v : Saved!WithCell(cells, id, v) = WithCell(cells, id, v)
        /\ \A size, id : Saved!Grown(size, id) = Grown(size, id)
    BY SavedPairs DEF Saved!Cell, Saved!WithCell, Saved!Grown, Cell, WithCell, Grown
  <1>7. \A v : (Saved!MayBeText(v) <=> MayBeText(v)) /\ (Saved!BadText(v) <=> BadText(v))
    BY DEF Saved!MayBeText, Saved!BadText, MayBeText, BadText
  <1>. QED BY <1>1, <1>2, <1>3, <1>4, <1>5, <1>6, <1>7

\* The machine runs what is kept of the saved image.
RunsKept == /\ phase = "executing"
            /\ image \in Images
            /\ prog = [code |-> Kept(Code), pool |-> Pool]

\* The instructions whose argument is looked at.
Arguments == { "EXIT", "LOADBOOL", "LOADC", "LOADPOOL", "JUMP", "JUMPIF", "CALL", "CALLC", "STORE",
               "LOAD", "LBL", "LBLJMP", "LBLJMPIF", "LBLCALL", "LSTORE", "LLOAD" }

LEMMA LoadedInstr ==
  ASSUME NEW i \in Instr, Fits(i)
  PROVE  /\ Loaded(i).op = i.op
         /\ i.op \in Arguments => Loaded(i) = i
         /\ Operands(Loaded(i)) = Operands(i)
  <1>1. Loaded(i).op = i.op /\ (Loaded(i) # i => bytes_to_read[i.op] = 0)
    BY DEF Loaded, Instr
  <1>2. i.op \in Arguments => bytes_to_read[i.op] # 0
    BY DEF bytes_to_read, Opcodes, Arguments
  <1>3. i.op = "CALLC" => Loaded(i) = i
    BY <1>1, <1>2 DEF Arguments
  <1>. QED BY <1>1, <1>2, <1>3 DEF Operands

LEMMA SavedCode ==
  ASSUME RunsKept
  PROVE  /\ image.code \in Seq(Instr) /\ Len(prog.code) = Len(image.code)
         /\ Len(image.code) \in Nat /\ prog.pool = image.pool
         /\ \A k \in 1..Len(image.code) : /\ image.code[k] \in Instr /\ Fits(image.code[k])
                                          /\ prog.code[k] = Loaded(image.code[k])
  <1>1. Savable(image.code, image.pool)
    BY ImagesSavable DEF RunsKept
  <1>2. prog.code = Kept(image.code) /\ prog.pool = image.pool
    BY DEF RunsKept, Code, Pool
  <1>. QED BY <1>1, <1>2, KeptFacts, SavableFacts DEF Savable

\* The instruction that is next, on both machines.
LEMMA SavedFetch ==
  ASSUME RunsKept
  PROVE  /\ Saved!Fetching <=> Fetching
         /\ Saved!frame = frame
         /\ Fetching => /\ Saved!cinstr.op = cinstr.op
                        /\ Operands(Saved!cinstr) = Operands(cinstr)
                        /\ cinstr.op \in Arguments => Saved!cinstr = cinstr
  <1>1. Saved!Fetching <=> Fetching
    BY SavedCode DEF RunsKept, Saved!Fetching, Fetching
  <1>2. Saved!frame = frame
    BY DEF Saved!frame, frame
  <1>3. ASSUME Fetching
        PROVE  /\ Saved!cinstr.op = cinstr.op
               /\ Operands(Saved!cinstr) = Operands(cinstr)
               /\ cinstr.op \in Arguments => Saved!cinstr = cinstr
    <2>1. ip + 1 \in 1..Len(image.code)
      BY <1>3, SavedCode DEF Fetching
    <2>2. cinstr = Loaded(Saved!cinstr) /\ Saved!cinstr \in Instr /\ Fits(Saved!cinstr)
      BY <2>1, SavedCode DEF cinstr, Saved!cinstr
    <2>. QED BY <2>2, LoadedInstr
  <1>. QED BY <1>1, <1>2, <1>3

LEMMA SavedExecuting ==
  ASSUME RunsKept
  PROVE  /\ \A op : Executing(op) <=> Saved!Executing(op)
         /\ \A f : Calling(f) <=> Saved!Calling(f)
         /\ \A op \in Arguments : Executing(op) => Saved!cinstr = cinstr
         /\ Saved!top = top /\ Saved!top2 = top2
         /\ \A n : Saved!Popped(n) = Popped(n)
  <1>1. \A op : Executing(op) <=> Saved!Executing(op)
    BY SavedFetch, SavedPairs DEF Executing, Saved!Executing
  <1>2. \A op \in Arguments : Executing(op) => Saved!cinstr = cinstr
    BY SavedFetch DEF Executing
  <1>3. \A f : Calling(f) <=> Saved!Calling(f)
    BY <1>1, <1>2 DEF Calling, Saved!Calling, Arguments
  <1>4. /\ Saved!top = top /\ Saved!top2 = top2
        /\ \A n : Saved!Popped(n) = Popped(n)
    BY DEF Saved!top, top, Saved!top2, top2, Saved!Popped, Popped, Saved!frame, frame
  <1>. QED BY <1>1, <1>2, <1>3, <1>4

\* An LBL keeps its argument.
LEMMA SavedLabels ==
  ASSUME RunsKept
  PROVE  \A label : Saved!LabelAddress(label) = LabelAddress(label)
  <1>. TAKE label
  <1>. DEFINE instr == [op |-> "LBL", arg |-> label]
  <1>1. \A i \in 1..Len(image.code) : prog.code[i] = instr <=> image.code[i] = instr
    <2>. TAKE i \in 1..Len(image.code)
    <2>1. /\ image.code[i] \in Instr /\ Fits(image.code[i])
          /\ prog.code[i] = Loaded(image.code[i])
      BY SavedCode
    <2>2. instr.op = "LBL" /\ "LBL" \in Arguments
      BY DEF Arguments
    <2>. QED BY <2>1, <2>2, LoadedInstr
  <1>2. Len(prog.code) = Len(image.code) /\ Len(image.code) \in Nat
    BY SavedCode
  <1>. DEFINE last == {i \in 1..Len(prog.code) :
                          /\ prog.code[i] = instr
                          /\ \A j \in i + 1..Len(prog.code) : ~ (prog.code[j] = instr)}
              savedLast == {i \in 1..Len(image.code) :
                               /\ image.code[i] = instr
                               /\ \A j \in i + 1..Len(image.code) : ~ (image.code[j] = instr)}
  <1>3. last = savedLast
    <2>1. \A i \in 1..Len(image.code) : \A j \in i + 1..Len(image.code) : j \in 1..Len(image.code)
      BY <1>2
    <2>. QED BY <1>1, <1>2, <2>1
  <1>4. LabelAddress(label) = IF last = {} THEN -1 ELSE (CHOOSE i \in last : TRUE) - 1
    BY DEF LabelAddress
  <1>5. Saved!LabelAddress(label)
           = IF savedLast = {} THEN -1 ELSE (CHOOSE i \in savedLast : TRUE) - 1
    BY DEF Saved!LabelAddress
  <1>. HIDE DEF last, savedLast
  <1>. QED BY <1>3, <1>4, <1>5

\* What instructions do, one with another.
LEMMA SavedChanges ==
  ASSUME RunsKept, phase' = phase, image' = image
  PROVE  /\ \A s : Continue(s) => Saved!Continue(s)
         /\ UNCHANGED memory => UNCHANGED Saved!memory
         /\ UNCHANGED outcome => UNCHANGED Saved!outcome
         /\ \A address : JumpTo(address) => Saved!JumpTo(address)
         /\ \A address : Enter(address) => Saved!Enter(address)
         /\ \A s, code : End(s, code) => Saved!End(s, code)
         /\ \A s : Fault(s) => Saved!Fault(s)
  <1>1. \A s : Continue(s) => Saved!Continue(s)
    BY DEF Continue, Saved!Continue, callframes, Saved!callframes
  <1>2. UNCHANGED memory => UNCHANGED Saved!memory
    BY DEF memory, Saved!memory
  <1>3. UNCHANGED outcome => UNCHANGED Saved!outcome
    BY DEF outcome, Saved!outcome, RunsKept
  <1>4. \A address : JumpTo(address) => Saved!JumpTo(address)
    BY <1>2, <1>3 DEF JumpTo, Saved!JumpTo, callframes, Saved!callframes
  <1>5. \A address : Enter(address) => Saved!Enter(address)
    BY <1>3, SavedPairs DEF Enter, Saved!Enter
  <1>6. \A s, code : End(s, code) => Saved!End(s, code)
    BY <1>2 DEF End, Saved!End, callframes, Saved!callframes, RunsKept
  <1>7. \A s : Fault(s) => Saved!Fault(s)
    BY <1>6 DEF Fault, Saved!Fault
  <1>. QED BY <1>1, <1>2, <1>3, <1>4, <1>5, <1>6, <1>7

(* Each action of the machine is the same action on the saved image.         *)
LEMMA SavedMoves ==
  ASSUME RunsKept, phase' = phase, image' = image
  PROVE  /\ Nop => Saved!Nop
         /\ LoadConstant => Saved!LoadConstant
         /\ Pop => Saved!Pop
         /\ Increment => Saved!Increment
         /\ Compare => Saved!Compare
         /\ Arithmetic => Saved!Arithmetic
  <1>1. Nop => Saved!Nop
    BY SavedExecuting, SavedFetch, SavedChanges DEF Nop, Saved!Nop
  <1>2. LoadConstant => Saved!LoadConstant
    <2>1. Executing("LOADBOOL") /\ Continue(Append(frame, Bool(cinstr.arg # 0)))
          => Saved!Executing("LOADBOOL") /\ Saved!Continue(Append(Saved!frame, Saved!Bool(Saved!cinstr.arg # 0)))
      BY SavedExecuting, SavedFetch, SavedChanges, SavedPairs DEF Arguments
    <2>2. Executing("LOADC") /\ Continue(Append(frame, Number(cinstr.arg)))
          => Saved!Executing("LOADC") /\ Saved!Continue(Append(Saved!frame, Saved!Number(Saved!cinstr.arg)))
      BY SavedExecuting, SavedFetch, SavedChanges, SavedPairs DEF Arguments
    <2>3. /\ Executing("LOADPOOL")
          /\ cinstr.arg + 1 \in DOMAIN prog.pool
          /\ Continue(Append(frame, String(prog.pool[cinstr.arg + 1])))
          => /\ Saved!Executing("LOADPOOL")
             /\ Saved!cinstr.arg + 1 \in DOMAIN image.pool
             /\ Saved!Continue(Append(Saved!frame, Saved!String(image.pool[Saved!cinstr.arg + 1])))
      BY SavedCode, SavedExecuting, SavedFetch, SavedChanges, SavedPairs DEF Arguments
    <2>. QED BY <2>1, <2>2, <2>3, SavedChanges DEF LoadConstant, Saved!LoadConstant
  <1>3. Pop => Saved!Pop
    BY SavedExecuting, SavedChanges DEF Pop, Saved!Pop
  <1>4. Increment => Saved!Increment
    BY SavedExecuting, SavedChanges, SavedValues DEF Increment, Saved!Increment
  <1>5. Compare => Saved!Compare
    BY SavedExecuting, SavedFetch, SavedChanges, SavedPairs, SavedValues DEF Compare, Saved!Compare
  <1>6. Arithmetic => Saved!Arithmetic
    BY SavedExecuting, SavedChanges, SavedValues DEF Arithmetic, Saved!Arithmetic
  <1>. QED BY <1>1, <1>2, <1>3, <1>4, <1>5, <1>6

LEMMA SavedControl ==
  ASSUME RunsKept, phase' = phase, image' = image
  PROVE  /\ Jump => Saved!Jump
         /\ JumpIf => Saved!JumpIf
         /\ Call => Saved!Call
         /\ Return => Saved!Return
  <1>. USE SavedExecuting, SavedChanges, SavedLabels, SavedPairs
  <1>1. Jump => Saved!Jump
    BY DEF Jump, Saved!Jump, Arguments
  <1>2. JumpIf => Saved!JumpIf
    BY DEF JumpIf, Saved!JumpIf, Arguments
  <1>3. Call => Saved!Call
    BY DEF Call, Saved!Call, Arguments
  <1>4. Return => Saved!Return
    BY DEF Return, Saved!Return
  <1>. QED BY <1>1, <1>2, <1>3, <1>4

LEMMA SavedCells ==
  ASSUME RunsKept, phase' = phase, image' = image
  PROVE  /\ Store => Saved!Store
         /\ Load => Saved!Load
         /\ StoreLocal => Saved!StoreLocal
         /\ LoadLocal => Saved!LoadLocal
  <1>. USE SavedExecuting, SavedFetch, SavedChanges, SavedValues
  <1>1. Store => Saved!Store
    BY DEF Store, Saved!Store, Arguments
  <1>2. Load => Saved!Load
    BY DEF Load, Saved!Load, Arguments
  <1>3. StoreLocal => Saved!StoreLocal
    BY DEF StoreLocal, Saved!StoreLocal, Arguments
  <1>4. LoadLocal => Saved!LoadLocal
    BY DEF LoadLocal, Saved!LoadLocal, Arguments
  <1>. QED BY <1>1, <1>2, <1>3, <1>4

LEMMA SavedFunctions ==
  ASSUME RunsKept, phase' = phase, image' = image
  PROVE  /\ CallPrint => Saved!CallPrint
         /\ CallInput => Saved!CallInput
         /\ CallConversion => Saved!CallConversion
         /\ CallTime => Saved!CallTime
  <1>. USE SavedExecuting, SavedFetch, SavedChanges, SavedPairs, SavedValues
  <1>1. CallPrint => Saved!CallPrint
    BY DEF CallPrint, Saved!CallPrint, ss_f_print, Saved!ss_f_print, RunsKept
  <1>2. CallInput => Saved!CallInput
    BY DEF CallInput, Saved!CallInput, ss_f_input, Saved!ss_f_input
  <1>3. CallConversion => Saved!CallConversion
    BY DEF CallConversion, Saved!CallConversion, ss_f_to_string, Saved!ss_f_to_string,
           ss_f_to_number, Saved!ss_f_to_number
  <1>4. CallTime => Saved!CallTime
    BY DEF CallTime, Saved!CallTime, ss_f_time, Saved!ss_f_time
  <1>. QED BY <1>1, <1>2, <1>3, <1>4

LEMMA SavedEnds ==
  ASSUME RunsKept, phase' = phase, image' = image
  PROVE  /\ ExitInstruction => Saved!ExitInstruction
         /\ CallExit => Saved!CallExit
         /\ PrintUnknownType => Saved!PrintUnknownType
         /\ EndOfCode => Saved!EndOfCode
         /\ InvalidInstruction => Saved!InvalidInstruction
  <1>. USE SavedExecuting, SavedFetch, SavedCode, SavedChanges, SavedPairs, SavedValues
  <1>1. ExitInstruction => Saved!ExitInstruction
    BY DEF ExitInstruction, Saved!ExitInstruction, Arguments
  <1>2. CallExit => Saved!CallExit
    BY DEF CallExit, Saved!CallExit, ss_f_exit, Saved!ss_f_exit
  <1>3. PrintUnknownType => Saved!PrintUnknownType
    BY DEF PrintUnknownType, Saved!PrintUnknownType, ss_f_print, Saved!ss_f_print
  <1>4. EndOfCode => Saved!EndOfCode
    BY DEF EndOfCode, Saved!EndOfCode, RunsKept
  <1>5. InvalidInstruction => Saved!InvalidInstruction
    BY DEF InvalidInstruction, Saved!InvalidInstruction
  <1>. QED BY <1>1, <1>2, <1>3, <1>4, <1>5

LEMMA SavedFaults ==
  ASSUME RunsKept, phase' = phase, image' = image
  PROVE  /\ WildJump => Saved!WildJump
         /\ Underflow => Saved!Underflow
         /\ FrameOverflow => Saved!FrameOverflow
         /\ FrameUnderflow => Saved!FrameUnderflow
         /\ BadAddress => Saved!BadAddress
         /\ BadPointer => Saved!BadPointer
  <1>. USE SavedExecuting, SavedFetch, SavedCode, SavedChanges, SavedPairs, SavedValues
  <1>1. WildJump => Saved!WildJump
    BY DEF WildJump, Saved!WildJump, RunsKept
  <1>2. Underflow => Saved!Underflow
    BY DEF Underflow, Saved!Underflow
  <1>3. FrameOverflow => Saved!FrameOverflow
    BY DEF FrameOverflow, Saved!FrameOverflow
  <1>4. FrameUnderflow => Saved!FrameUnderflow
    BY DEF FrameUnderflow, Saved!FrameUnderflow
  <1>5. BadAddress => Saved!BadAddress
    BY DEF BadAddress, Saved!BadAddress, Arguments
  <1>6. BadPointer => Saved!BadPointer
    BY DEF BadPointer, Saved!BadPointer, ss_f_print, Saved!ss_f_print, ss_f_to_number, Saved!ss_f_to_number
  <1>. QED BY <1>1, <1>2, <1>3, <1>4, <1>5, <1>6

LEMMA StepIsSaved ==
  ASSUME RunsKept, phase' = phase, image' = image, Next
  PROVE  Saved!Next
  <1>1. CASE Nop \/ LoadConstant \/ Pop \/ Increment \/ Compare \/ Arithmetic
    BY <1>1, SavedMoves DEF Saved!Next
  <1>2. CASE Jump \/ JumpIf \/ Call \/ Return
    BY <1>2, SavedControl DEF Saved!Next
  <1>3. CASE Store \/ Load \/ StoreLocal \/ LoadLocal
    BY <1>3, SavedCells DEF Saved!Next
  <1>4. CASE CallPrint \/ CallInput \/ CallConversion \/ CallTime
    BY <1>4, SavedFunctions DEF Saved!Next
  <1>5. CASE ExitInstruction \/ CallExit \/ PrintUnknownType \/ EndOfCode \/ InvalidInstruction
    BY <1>5, SavedEnds DEF Saved!Next
  <1>6. CASE WildJump \/ Underflow \/ FrameOverflow \/ FrameUnderflow \/ BadAddress \/ BadPointer
    BY <1>6, SavedFaults DEF Saved!Next
  <1>. QED BY <1>1, <1>2, <1>3, <1>4, <1>5, <1>6 DEF Next

LEMMA ProgramStays == Next => prog' = prog
  <1>1. Nop \/ LoadConstant \/ Pop \/ Increment \/ Compare \/ Arithmetic => prog' = prog
    BY DEF Nop, LoadConstant, Pop, Increment, Compare, Arithmetic, Continue
  <1>2. Jump \/ JumpIf \/ Call \/ Return => prog' = prog
    BY DEF Jump, JumpIf, JumpTo, Call, Enter, Return
  <1>3. Store \/ Load \/ StoreLocal \/ LoadLocal => prog' = prog
    BY DEF Store, Load, StoreLocal, LoadLocal, Continue
  <1>4. CallPrint \/ CallInput \/ CallConversion \/ CallTime => prog' = prog
    BY DEF CallPrint, CallInput, CallConversion, CallTime, Continue
  <1>5. ExitInstruction \/ CallExit \/ PrintUnknownType \/ EndOfCode \/ InvalidInstruction
        => prog' = prog
    BY DEF ExitInstruction, CallExit, PrintUnknownType, EndOfCode, InvalidInstruction, End
  <1>6. WildJump \/ Underflow \/ FrameOverflow \/ FrameUnderflow \/ BadAddress \/ BadPointer
        => prog' = prog
    BY DEF WildJump, Underflow, FrameOverflow, FrameUnderflow, BadAddress, BadPointer, Fault, End
  <1>. QED BY <1>1, <1>2, <1>3, <1>4, <1>5, <1>6 DEF Next
-----------------------------------------------------------------------------
(* The machine of the second process.                                        *)

\* As vm_init leaves the machine, whatever it is going to execute.
Untouched == /\ ip = 0 /\ vm_init /\ exit_code = 0 /\ out = <<>>

ExecutionInv ==
    /\ FileInv
    /\ phase # "executing" => Untouched
    /\ phase = "executing" => prog = [code |-> holder, pool |-> strings]

LEMMA ExecutionInvStarts == image \in Images /\ Init_File("saving") => ExecutionInv
  BY FileInvInit DEF ExecutionInv, Init_File, Untouched

\* The steps before: they leave the machine alone.
LEMMA LoadingWaits ==
  ASSUME ExecutionInv, FileInv', UNCHANGED vars, phase # "executing", phase' # "executing"
  PROVE  ExecutionInv'
  BY DEF ExecutionInv, Untouched, vm_init, vars, callframes, memory, outcome

LEMMA ExecutionInvKept == ExecutionInv /\ [Next_File]_fileVars => ExecutionInv'
  <1>. SUFFICES ASSUME ExecutionInv, [Next_File]_fileVars PROVE ExecutionInv'
    OBVIOUS
  <1>1. FileInv'
    BY FileInvKept DEF ExecutionInv
  <1>2. CASE SaveInstruction \/ BeginPool \/ append_string \/ CloseFile
    BY <1>1, <1>2, LoadingWaits DEF SaveInstruction, BeginPool, append_string, CloseFile
  <1>3. CASE (\E version \in Readers : OpenFile(version)) \/ ReadInstruction \/ ReadPool \/ ReadString
    BY <1>1, <1>3, LoadingWaits DEF OpenFile, ReadInstruction, ReadPool, ReadString
  <1>4. CASE BeginExecution
    BY <1>1, <1>4 DEF BeginExecution, ExecutionInv, loader
  <1>5. CASE Execute
    BY <1>1, <1>5, ProgramStays DEF Execute, ExecutionInv, loader
  <1>6. CASE UNCHANGED fileVars
    BY <1>1, <1>6 DEF fileVars, loader, ExecutionInv, Untouched, vm_init, vars, callframes, memory, outcome
  <1>. QED BY <1>2, <1>3, <1>4, <1>5, <1>6 DEF Next_File

LEMMA SavedStarts == image \in Images /\ Init_File("saving") => Saved!Init
  BY SavedPairs DEF Init_File, vm_init, Saved!Init, Saved!vm_init

LEMMA ExecutionIsSaved ==
  ASSUME ExecutionInv, ~dirty, Avoids(Pool), Execute
  PROVE  Saved!Next
  <1>1. phase = "executing" /\ phase' = phase /\ image' = image /\ Next
    BY DEF Execute, saver
  <1>2. RunsKept
    BY <1>1 DEF ExecutionInv, FileInv, FileTypes, EndInv, Clean, RunsKept
  <1>. QED BY <1>1, <1>2, StepIsSaved

\* Until it executes, the machine waits at its start.
LEMMA SavedWaits ==
  ASSUME image' = image, UNCHANGED <<ip, stack, callframes, memory, exit_code, out>>,
         (IF phase = "executing" THEN status ELSE "running")'
             = IF phase = "executing" THEN status ELSE "running"
  PROVE  UNCHANGED Saved!vars
  BY DEF Saved!vars, Saved!callframes, Saved!memory, Saved!outcome, callframes, memory

LEMMA LoadedStep ==
  ASSUME ExecutionInv, [Next_File]_fileVars
  PROVE  [~dirty /\ Avoids(Pool) => Saved!Next]_(Saved!vars)
  <1>1. CASE SaveInstruction \/ BeginPool \/ append_string \/ CloseFile
    BY <1>1, SavedWaits
       DEF SaveInstruction, BeginPool, append_string, CloseFile, vars, outcome, saver
  <1>2. CASE (\E version \in Readers : OpenFile(version)) \/ ReadInstruction \/ ReadPool \/ ReadString
    BY <1>2, SavedWaits DEF OpenFile, ReadInstruction, ReadPool, ReadString, vars, outcome, saver
  <1>3. CASE BeginExecution
    BY <1>3, SavedWaits DEF BeginExecution, saver
  <1>4. CASE Execute
    BY <1>4, ExecutionIsSaved
  <1>5. CASE UNCHANGED fileVars
    BY <1>5, SavedWaits DEF fileVars, saver, vars, outcome
  <1>. QED BY <1>1, <1>2, <1>3, <1>4, <1>5 DEF Next_File

(* The loaded machine implements the one that executes the image itself, for *)
(* every image whose arguments fit: the calls, jumps, cells and output are   *)
(* the same step by step, when its strings come back (execute_bytecode).     *)
THEOREM SavedCodeRunsOn == FileSpec => LoadedRunsAsSaved
  <1>1. ExecutionInv /\ [Next_File]_fileVars => ExecutionInv'
    BY ExecutionInvKept
  <1>2. ExecutionInv /\ [Next_File]_fileVars => [~dirty /\ Avoids(Pool) => Saved!Next]_(Saved!vars)
    BY LoadedStep
  <1>. QED BY ExecutionInvStarts, SavedStarts, <1>1, <1>2, PTL DEF FileSpec, LoadedRunsAsSaved
=============================================================================
