-------------------------- MODULE CompilationProofs --------------------------
(***************************************************************************)
(* For every source: code that the compiler makes of it verifies, and the   *)
(* machine that executes nothing else is safe.  The inductive invariant is  *)
(* CompilationInv: what is written so far, what is still to be done, and    *)
(* the labels that are in the one and owed by the other.                    *)
(***************************************************************************)
EXTENDS Compilation, SessionProofs

USE CellLimitAssumption

-----------------------------------------------------------------------------
(* The types.                                                                *)

\* The instructions of a map.
Assembled == [op : Opcodes, arg : Int]

MapRecords == [code : Seq(Assembled), counter : Nat, depth : Seq(Nat), sound : BOOLEAN]
Kinds == {"emit", "value", "term", "call", "declare", "objects", "scope", "statement", "if"}
Pieces == Assembled \cup Expressions \cup Terms \cup STRING \cup Scopes \cup Statements \cup Seq(Clauses)
Tasks == [do : Kinds, in : Nat, base : Nat, what : Pieces]

StateOK ==
    /\ shell_env \in BOOLEAN
    /\ maps \in Seq(MapRecords)
    /\ functions \in Seq([name : STRING, reference : Nat])
    /\ Len(maps) = Len(functions) + 1
    /\ refs \in Seq([name : STRING, ref : Nat])
    /\ pool \in Seq(Int \cup Text)
    /\ labels \in Nat
    /\ owner \in Seq(Nat)
    /\ Len(owner) = labels
    /\ todo \in Seq(Tasks)
    /\ stage \in {"idle", "compiling", "linking"}
    /\ linked \in Nat
    /\ stage = "linking" => linked <= Len(functions)
    /\ trusted \in BOOLEAN
    /\ stage # "compiling" => todo = <<>>
    /\ mode = "executing" => stage = "idle"
-----------------------------------------------------------------------------
(* What is written, and what is still to be done.                            *)

WrittenOps == { "LOADBOOL", "LOADC", "LOADPOOL", "LOAD", "EQ", "LT", "GT", "NOT",
                "ADD", "SUB", "MUL", "DIV", "STORE", "CALLC", "LBL", "LBLJMP", "LBLJMPIF", "LBLCALL" }

\* What an instruction names is there.
Written(instr) ==
    /\ instr.op \in WrittenOps
    /\ instr.op = "LBLCALL" => \E k \in DOMAIN functions : functions[k].reference = instr.arg
    /\ instr.op = "LOADPOOL" => instr.arg + 1 \in DOMAIN pool
    /\ instr.op \in {"STORE", "LOAD"} => \E i \in DOMAIN refs : refs[i].ref = instr.arg
    /\ instr.op = "CALLC" => instr.arg \in ss_functions

TaskOK(t) ==
    /\ t.in \in DOMAIN maps
    /\ t.do = "emit" => /\ t.what \in Assembled
                        /\ Written(t.what)
                        /\ Operands(t.what) <= t.base
                        /\ t.what.op = "LBL" => t.base = 0
    /\ t.do = "value" => t.what \in Expressions
    /\ t.do = "term" => t.what \in Terms
    /\ t.do = "call" => /\ t.what \in STRING
                        /\ maps[t.in].sound /\ IsBuiltin(t.what) => Arity(t.what) <= t.base
    /\ t.do = "declare" => t.what \in STRING /\ t.base = 1
    /\ t.do \in {"objects", "scope"} => t.what \in Scopes /\ t.base = 0
    /\ t.do = "statement" => t.what \in Statements /\ t.base = 0
    /\ t.do = "if" => t.what \in Seq(Clauses) /\ t.what # <<>> /\ t.base = 0

\* Operands there are at least when the task is done.
After(t) ==
    CASE t.do = "emit" -> t.base + Growth(t.what)
      [] t.do \in {"value", "term"} -> t.base + 1
      [] t.do = "call" -> t.base + (IF t.what \in {"input", "time"} THEN 1 ELSE 0)
      [] OTHER -> 0

\* A task counts on what the one before it leaves, or on nothing.
Pushers == {"emit", "value", "term", "call"}
Follows(t, u) == \/ u.base = 0
                 \/ /\ u.in = t.in
                    /\ t.do \in Pushers
                    /\ maps[t.in].sound => u.base <= After(t)

TodoOK ==
    /\ \A k \in DOMAIN todo : TaskOK(todo[k])
    /\ \A k \in 1..Len(todo) - 1 : Follows(todo[k], todo[k + 1])

\* Operands there are at the end of a map's code.
Arrival(map) == IF map.code = <<>> THEN 0
                ELSE map.depth[Len(map.code)] + Growth(map.code[Len(map.code)])

Reached == todo # <<>> /\ maps[task.in].sound => task.base <= Arrival(maps[task.in])
-----------------------------------------------------------------------------
(* The maps.  The program's is of no importance between two inputs.          *)

Live == {m \in DOMAIN maps : m = 1 => stage # "idle"}

\* Each instruction finds its operands and leaves the next one its own.
Balanced(map) ==
    /\ Len(map.depth) = Len(map.code)
    /\ \A i \in DOMAIN map.code : map.code[i].op = "LBL" => map.depth[i] = 0
    /\ map.sound =>
          /\ map.code # <<>> => map.depth[1] = 0
          /\ \A i \in DOMAIN map.code : Operands(map.code[i]) <= map.depth[i]
          /\ \A i \in 1..Len(map.code) - 1 :
                map.depth[i + 1] <= map.depth[i] + Growth(map.code[i])

MapsOK == \A m \in Live :
    /\ Balanced(maps[m])
    /\ \A i \in DOMAIN maps[m].code :
          Written(maps[m].code[i]) \/ (stage = "linking" /\ m = 1 /\ maps[m].code[i].op \in {"EXIT", "RET"})
-----------------------------------------------------------------------------
(* Labels.                                                                   *)

IsLabel(instr, l) == instr.op = "LBL" /\ instr.arg = l
Placed(code, l) == \E i \in DOMAIN code : IsLabel(code[i], l)
Owes(t, l) == t.do = "emit" /\ IsLabel(t.what, l)

\* The labels that may be in a map: its own; when the functions are linked to
\* the program, theirs, and those at their heads.
Belongs(m, l) ==
    \/ owner[l + 1] = m
    \/ /\ m = 1 /\ stage = "linking"
       /\ owner[l + 1] \in 2..linked + 1 \/ \E k \in 1..linked : functions[k].reference = l

PlacedOK ==
    \A m \in Live : \A i \in DOMAIN maps[m].code :
        maps[m].code[i].op = "LBL" =>
           /\ maps[m].code[i].arg \in 0..labels - 1
           /\ Belongs(m, maps[m].code[i].arg)
           /\ \A j \in DOMAIN maps[m].code : IsLabel(maps[m].code[j], maps[m].code[i].arg) => j = i

HeadsOK ==
    /\ \A k \in DOMAIN functions : /\ functions[k].reference \in 0..labels - 1
                                   /\ owner[functions[k].reference + 1] = 0
    /\ \A j, k \in DOMAIN functions : functions[j].reference = functions[k].reference => j = k

OwedOK ==
    \A k \in DOMAIN todo, l \in Int : Owes(todo[k], l) =>
        /\ l \in 0..labels - 1
        /\ owner[l + 1] = todo[k].in
        /\ ~Placed(maps[todo[k].in].code, l)
        /\ \A j \in DOMAIN todo : Owes(todo[j], l) => j = k

IsJump(instr) == instr.op \in {"LBLJMP", "LBLJMPIF"}

\* A label ahead, in the same part of the code.
LandsAhead(code, i) ==
    \E j \in DOMAIN code : /\ j > i
                           /\ IsLabel(code[j], code[i].arg)
                           /\ InMain(code, i) <=> InMain(code, j)

JumpsOK ==
    /\ \A m \in Live : \A i \in DOMAIN maps[m].code :
          IsJump(maps[m].code[i]) =>
             \/ LandsAhead(maps[m].code, i)
             \/ \E k \in DOMAIN todo : todo[k].in = m /\ Owes(todo[k], maps[m].code[i].arg)
    /\ \A k \in DOMAIN todo : todo[k].do = "emit" /\ IsJump(todo[k].what) =>
          \E j \in DOMAIN todo : j > k /\ todo[j].in = todo[k].in /\ Owes(todo[j], todo[k].what.arg)
-----------------------------------------------------------------------------
(* Linking.                                                                  *)

LinkedOK ==
    stage = "linking" =>
        LET code == maps[1].code
        IN  \E e \in DOMAIN code :
               /\ code[e].op = "EXIT"
               /\ \A i \in DOMAIN code : code[i].op = "EXIT" => i = e
               /\ \A i \in DOMAIN code : code[i].op = "RET" => i > e
               /\ \A k \in 1..linked : \E j \in DOMAIN code : j > e /\ IsLabel(code[j], functions[k].reference)
               /\ code[Len(code)].op \in {"EXIT", "RET"}

CompilationInv ==
    /\ StateOK /\ TodoOK /\ Reached
    /\ MapsOK /\ PlacedOK /\ HeadsOK /\ OwedOK /\ JumpsOK /\ LinkedOK
    /\ CodeVerifies
-----------------------------------------------------------------------------
(* Sequences.                                                                *)

LEMMA Entry == ASSUME NEW S, NEW s \in Seq(S), NEW i \in DOMAIN s PROVE s[i] \in S
  OBVIOUS

LEMMA Appended ==
  ASSUME NEW S, NEW s \in Seq(S), NEW e \in S
  PROVE  /\ Append(s, e) \in Seq(S)
         /\ Len(s) \in Nat
         /\ DOMAIN s = 1..Len(s)
         /\ Len(Append(s, e)) = Len(s) + 1
         /\ DOMAIN Append(s, e) = 1..Len(s) + 1
         /\ \A i \in 1..Len(s) : Append(s, e)[i] = s[i]
         /\ Append(s, e)[Len(s) + 1] = e
  OBVIOUS

LEMMA Joined ==
  ASSUME NEW S, NEW s \in Seq(S), NEW t \in Seq(S)
  PROVE  /\ s \o t \in Seq(S)
         /\ Len(s) \in Nat /\ Len(t) \in Nat
         /\ DOMAIN s = 1..Len(s) /\ DOMAIN t = 1..Len(t)
         /\ Len(s \o t) = Len(s) + Len(t)
         /\ DOMAIN (s \o t) = 1..Len(s) + Len(t)
         /\ \A i \in 1..Len(s) : (s \o t)[i] = s[i]
         /\ \A i \in 1..Len(t) : (s \o t)[Len(s) + i] = t[i]
  OBVIOUS

(* The list after a step: the new tasks, then the others.                    *)
LEMMA Replaced ==
  ASSUME todo \in Seq(Tasks), todo # <<>>, NEW tasks \in Seq(Tasks), Then(tasks)
  PROVE  /\ todo' \in Seq(Tasks)
         /\ Len(todo) \in Nat \ {0} /\ Len(tasks) \in Nat
         /\ Len(todo') = Len(tasks) + Len(todo) - 1
         /\ DOMAIN todo = 1..Len(todo)
         /\ DOMAIN todo' = 1..Len(tasks) + Len(todo) - 1
         /\ DOMAIN tasks = 1..Len(tasks)
         /\ task = todo[1]
         /\ \A k \in 1..Len(tasks) : todo'[k] = tasks[k]
         /\ \A k \in 2..Len(todo) : todo'[k + Len(tasks) - 1] = todo[k]
         /\ \A k \in 1..Len(tasks) + Len(todo) - 1 :
               k > Len(tasks) => /\ k - Len(tasks) + 1 \in 2..Len(todo)
                                 /\ todo'[k] = todo[k - Len(tasks) + 1]
  <1>1. /\ Tail(todo) \in Seq(Tasks) /\ Len(todo) \in Nat \ {0}
        /\ Len(Tail(todo)) = Len(todo) - 1
        /\ \A k \in 1..Len(todo) - 1 : Tail(todo)[k] = todo[k + 1]
        /\ task = todo[1]
        /\ DOMAIN todo = 1..Len(todo)
    BY DEF task
  <1>2. todo' = tasks \o Tail(todo)
    BY DEF Then
  <1>3. /\ todo' \in Seq(Tasks) /\ Len(tasks) \in Nat
        /\ Len(todo') = Len(tasks) + Len(todo) - 1
        /\ DOMAIN todo' = 1..Len(tasks) + Len(todo) - 1
        /\ DOMAIN tasks = 1..Len(tasks)
        /\ \A k \in 1..Len(tasks) : todo'[k] = tasks[k]
        /\ \A k \in 1..Len(todo) - 1 : todo'[Len(tasks) + k] = Tail(todo)[k]
    BY <1>1, <1>2, Joined
  <1>4. ASSUME NEW k \in 2..Len(todo)
        PROVE  todo'[k + Len(tasks) - 1] = todo[k]
    <2>1. k - 1 \in 1..Len(todo) - 1 /\ Len(tasks) + (k - 1) = k + Len(tasks) - 1 /\ k - 1 + 1 = k
      BY <1>1, <1>3
    <2>2. todo'[Len(tasks) + (k - 1)] = Tail(todo)[k - 1]
      BY <1>3, <2>1
    <2>3. Tail(todo)[k - 1] = todo[k - 1 + 1]
      BY <1>1, <2>1
    <2>. QED BY <2>1, <2>2, <2>3
  <1>5. ASSUME NEW k \in 1..Len(tasks) + Len(todo) - 1, k > Len(tasks)
        PROVE  /\ k - Len(tasks) + 1 \in 2..Len(todo)
               /\ todo'[k] = todo[k - Len(tasks) + 1]
    <2>1. /\ k - Len(tasks) + 1 \in 2..Len(todo)
          /\ (k - Len(tasks) + 1) + Len(tasks) - 1 = k
      BY <1>1, <1>3, <1>5
    <2>. QED BY <1>4, <2>1
  <1>. QED BY <1>1, <1>3, <1>4, <1>5
-----------------------------------------------------------------------------
(* A map, and one with an instruction more.                                  *)

LEMMA GrowthBounds ==
  ASSUME NEW i \in Assembled
  PROVE  Operands(i) \in Nat /\ Growth(i) \in Int /\ Operands(i) + Growth(i) >= 0
  BY DEF Operands, Growth, ss_f_print, ss_f_exit, ss_f_to_string, ss_f_to_number, ss_f_input,
         ss_f_time

LEMMA ArrivalNat ==
  ASSUME NEW map \in MapRecords, Balanced(map), map.sound
  PROVE  Arrival(map) \in Nat
  <1>1. map.code \in Seq(Assembled) /\ map.depth \in Seq(Nat) /\ Len(map.depth) = Len(map.code)
    BY DEF MapRecords, Balanced
  <1>2. CASE map.code = <<>>
    BY <1>2 DEF Arrival
  <1>3. CASE map.code # <<>>
    <2> DEFINE n == Len(map.code)
    <2>1. n \in DOMAIN map.code /\ n \in DOMAIN map.depth
      BY <1>1, <1>3
    <2>2. map.code[n] \in Assembled /\ map.depth[n] \in Nat /\ Operands(map.code[n]) <= map.depth[n]
      BY <1>1, <2>1 DEF Balanced
    <2>3. map.depth[n] + Growth(map.code[n]) \in Nat
      BY <2>2, GrowthBounds
    <2>. QED BY <1>3, <2>3 DEF Arrival
  <1>. QED BY <1>2, <1>3

LEMMA LongerFacts ==
  ASSUME NEW map \in MapRecords, NEW instr \in Assembled, NEW base \in Nat
  PROVE  /\ Longer(map, instr, base) \in MapRecords
         /\ Longer(map, instr, base).code = Append(map.code, instr)
         /\ Longer(map, instr, base).depth = Append(map.depth, base)
         /\ Longer(map, instr, base).sound = map.sound
         /\ Longer(map, instr, base).counter = map.counter
  <1>1. map.code \in Seq(Assembled) /\ map.depth \in Seq(Nat)
    BY DEF MapRecords
  <1>2. Append(map.code, instr) \in Seq(Assembled) /\ Append(map.depth, base) \in Seq(Nat)
    BY <1>1
  <1>. QED BY <1>2 DEF MapRecords, Longer

(* An instruction that finds its operands leaves the map balanced.           *)
LEMMA AppendBalanced ==
  ASSUME NEW map \in MapRecords, Balanced(map), NEW instr \in Assembled, NEW base \in Nat,
         NEW new \in MapRecords, new.code = Append(map.code, instr),
         new.depth = Append(map.depth, base), new.sound => map.sound,
         map.sound => base <= Arrival(map) /\ Operands(instr) <= base,
         instr.op = "LBL" => base = 0
  PROVE  Balanced(new) /\ Arrival(new) = base + Growth(instr)
  <1> DEFINE n == Len(map.code)
  <1>2. /\ n \in Nat /\ map.code \in Seq(Assembled) /\ map.depth \in Seq(Nat)
        /\ Len(map.depth) = n /\ DOMAIN map.code = 1..n
    BY DEF MapRecords, Balanced
  <1>3. /\ Len(new.code) = n + 1 /\ Len(new.depth) = n + 1 /\ DOMAIN new.code = 1..n + 1
        /\ new.code # <<>>
        /\ new.code[n + 1] = instr /\ new.depth[n + 1] = base
        /\ \A i \in 1..n : new.code[i] = map.code[i] /\ new.depth[i] = map.depth[i]
    <2>1. /\ Len(new.code) = n + 1 /\ DOMAIN new.code = 1..n + 1 /\ new.code[n + 1] = instr
          /\ \A i \in 1..n : new.code[i] = map.code[i]
      BY <1>2, Appended
    <2>2. /\ Len(new.depth) = n + 1 /\ new.depth[n + 1] = base
          /\ \A i \in 1..n : new.depth[i] = map.depth[i]
      BY <1>2, Appended
    <2>3. new.code # <<>>
      BY <1>2
    <2>. QED BY <2>1, <2>2, <2>3
  <1>4. map.code = <<>> <=> n = 0
    BY <1>2
  <1> HIDE DEF n
  <1>5. \A i \in 1..n + 1 : i \in 1..n \/ i = n + 1
    BY <1>2
  <1>6. \A i \in 1..n + 1 : new.code[i].op = "LBL" => new.depth[i] = 0
    <2>1. \A i \in 1..n : map.code[i].op = "LBL" => map.depth[i] = 0
      BY <1>2 DEF Balanced
    <2>. QED BY <1>3, <1>5, <2>1
  <1>7. ASSUME map.sound
        PROVE  /\ new.depth[1] = 0
               /\ \A i \in 1..n + 1 : Operands(new.code[i]) <= new.depth[i]
               /\ \A i \in 1..n : new.depth[i + 1] <= new.depth[i] + Growth(new.code[i])
    <2>1. new.depth[1] = 0
      <3>1. CASE n = 0
        BY <1>3, <1>4, <1>7, <3>1 DEF Arrival
      <3>2. CASE n # 0
        <4>1. 1 \in 1..n /\ map.depth[1] = 0
          BY <1>2, <1>4, <1>7, <3>2 DEF Balanced
        <4>. QED BY <1>3, <4>1
      <3>. QED BY <3>1, <3>2
    <2>2. \A i \in 1..n + 1 : Operands(new.code[i]) <= new.depth[i]
      BY <1>2, <1>3, <1>5, <1>7 DEF Balanced
    <2>3. ASSUME NEW i \in 1..n
          PROVE  new.depth[i + 1] <= new.depth[i] + Growth(new.code[i])
      <3>1. CASE i = n
        <4>1. Arrival(map) = map.depth[n] + Growth(map.code[n])
          BY <1>2, <1>4, <3>1 DEF Arrival, n
        <4>. QED BY <1>3, <1>7, <3>1, <4>1
      <3>2. CASE i # n
        <4>1. i \in 1..n - 1 /\ i + 1 \in 1..n
          BY <1>2, <3>2
        <4>2. map.depth[i + 1] <= map.depth[i] + Growth(map.code[i])
          BY <1>7, <4>1 DEF Balanced, n
        <4>. QED BY <1>3, <4>1, <4>2
      <3>. QED BY <3>1, <3>2
    <2>. QED BY <2>1, <2>2, <2>3
  <1>8. Balanced(new)
    <2>1. \A i \in 1..Len(new.code) - 1 : i \in 1..n
      BY <1>2, <1>3
    <2>. QED BY <1>3, <1>6, <1>7, <2>1 DEF Balanced
  <1>9. Arrival(new) = base + Growth(instr)
    BY <1>3 DEF Arrival
  <1>. QED BY <1>8, <1>9
-----------------------------------------------------------------------------
(* What there is stays while tables grow: a name leads to what it led to,    *)
(* and a map that is sound was so before.                                    *)

Extends ==
    /\ \A k \in DOMAIN functions : k \in DOMAIN functions' /\ functions'[k] = functions[k]
    /\ \A i \in DOMAIN refs : i \in DOMAIN refs' /\ refs'[i] = refs[i]
    /\ \A i \in DOMAIN pool : i \in DOMAIN pool'
    /\ \A m \in DOMAIN maps : m \in DOMAIN maps' /\ (maps'[m].sound => maps[m].sound)

LEMMA WrittenStays == ASSUME Extends PROVE \A instr : Written(instr) => Written(instr)'
  <1>. SUFFICES ASSUME NEW instr, Written(instr) PROVE Written(instr)'
    OBVIOUS
  <1>1. instr.op = "LBLCALL" => \E k \in DOMAIN functions' : functions'[k].reference = instr.arg
    BY DEF Written, Extends
  <1>2. instr.op \in {"STORE", "LOAD"} => \E i \in DOMAIN refs' : refs'[i].ref = instr.arg
    BY DEF Written, Extends
  <1>3. instr.op = "LOADPOOL" => instr.arg + 1 \in DOMAIN pool'
    BY DEF Written, Extends
  <1>. QED BY <1>1, <1>2, <1>3 DEF Written

LEMMA TasksStay == ASSUME Extends PROVE \A t : TaskOK(t) => TaskOK(t)'
  <1>. SUFFICES ASSUME NEW t, TaskOK(t) PROVE TaskOK(t)'
    OBVIOUS
  <1>1. t.in \in DOMAIN maps' /\ (maps'[t.in].sound => maps[t.in].sound)
    BY DEF TaskOK, Extends
  <1>2. t.do = "emit" => Written(t.what) /\ Written(t.what)'
    BY WrittenStays DEF TaskOK
  <1>. QED BY <1>1, <1>2 DEF TaskOK

LEMMA AfterInt ==
  ASSUME NEW t \in Tasks, t.do = "emit" => t.what \in Assembled
  PROVE  After(t) \in Int
  <1>1. t.base \in Nat
    BY DEF Tasks
  <1>. QED BY <1>1, GrowthBounds DEF After

LEMMA AtTask ==
  ASSUME StateOK, TodoOK, todo # <<>>
  PROVE  /\ Len(todo) \in Nat \ {0} /\ DOMAIN todo = 1..Len(todo)
         /\ task = todo[1] /\ task \in Tasks /\ TaskOK(task)
         /\ task.in \in DOMAIN maps /\ maps[task.in] \in MapRecords /\ task.base \in Nat
  <1>1. Len(todo) \in Nat \ {0} /\ DOMAIN todo = 1..Len(todo) /\ task = todo[1] /\ todo[1] \in Tasks
    BY DEF StateOK, task
  <1>2. TaskOK(todo[1])
    BY <1>1 DEF TodoOK
  <1>3. task.in \in DOMAIN maps
    BY <1>1, <1>2 DEF TaskOK
  <1>4. maps[task.in] \in MapRecords
    BY <1>3 DEF StateOK
  <1>. QED BY <1>1, <1>2, <1>3, <1>4 DEF Tasks, TaskOK

(* The last task that is put in the place of another leaves no less than it. *)
Hands_over(t, sound) == \/ task.do \notin Pushers
                        \/ /\ t.in = task.in /\ t.do \in Pushers
                           /\ sound => After(task) <= After(t)

LEMMA TodoKept ==
  ASSUME StateOK, TodoOK, todo # <<>>, Extends, NEW tasks \in Seq(Tasks), Then(tasks),
         \A k \in 1..Len(tasks) : TaskOK(tasks[k])',
         \A k \in 1..Len(tasks) - 1 : Follows(tasks[k], tasks[k + 1])',
         tasks # <<>> => Hands_over(tasks[Len(tasks)], maps'[task.in].sound)
  PROVE  TodoOK'
  <1> DEFINE n == Len(tasks)
             N == Len(todo)
  <1>1. /\ todo' \in Seq(Tasks)
        /\ N \in Nat \ {0} /\ n \in Nat
        /\ Len(todo') = n + N - 1
        /\ DOMAIN todo = 1..N
        /\ DOMAIN todo' = 1..n + N - 1
        /\ task = todo[1]
        /\ \A k \in 1..n : todo'[k] = tasks[k]
        /\ \A k \in 1..n + N - 1 :
               k > n => k - n + 1 \in 2..N /\ todo'[k] = todo[k - n + 1]
    BY Replaced DEF StateOK
  <1>0. tasks # <<>> <=> n # 0
    BY <1>1
  <1> HIDE DEF n, N
  <1>2. ASSUME NEW k \in DOMAIN todo'
        PROVE  TaskOK(todo[k])'
    <2>1. PICK t : t = todo'[k]
      OBVIOUS
    <2>2. CASE k \in 1..n
      <3>1. t = tasks[k] /\ TaskOK(tasks[k])'
        BY <1>1, <2>1, <2>2 DEF n
      <3>. QED BY <2>1, <3>1 DEF TaskOK
    <2>3. CASE k \notin 1..n
      <3>1. k > n /\ k - n + 1 \in 1..N /\ t = todo[k - n + 1]
        BY <1>1, <2>1, <2>3
      <3>2. TaskOK(t)
        BY <1>1, <3>1 DEF TodoOK
      <3>3. TaskOK(t)'
        BY <3>2, TasksStay
      <3>. QED BY <2>1, <3>3 DEF TaskOK
    <2>. QED BY <2>2, <2>3
  <1>3. ASSUME NEW t, NEW u, TaskOK(t), Follows(t, u)
        PROVE  Follows(t, u)'
    BY <1>3 DEF Follows, TaskOK, Extends
  <1>4. ASSUME NEW k \in 1..Len(todo') - 1
        PROVE  Follows(todo[k], todo[k + 1])'
    <2>1. PICK t, u : t = todo'[k] /\ u = todo'[k + 1]
      OBVIOUS
    <2>2. k \in 1..n + N - 2 /\ k + 1 \in 1..n + N - 1
      BY <1>1
    <2>3. CASE k < n
      <3>1. k \in 1..n /\ k + 1 \in 1..n /\ k \in 1..n - 1
        BY <1>1, <2>2, <2>3
      <3>2. t = tasks[k] /\ u = tasks[k + 1] /\ Follows(tasks[k], tasks[k + 1])'
        BY <1>1, <2>1, <3>1 DEF n
      <3>3. Follows(t, u)'
        BY <3>2 DEF Follows
      <3>. QED BY <2>1, <3>3 DEF Follows
    <2>4. CASE k > n
      <3>0. n \in Nat /\ N \in Nat /\ k \in 1..n + N - 2 /\ k + 1 \in 1..n + N - 1
        BY <1>1, <2>2
      <3>1. /\ k - n + 1 \in 2..N - 1
            /\ (k + 1) - n + 1 = (k - n + 1) + 1
            /\ k \in 1..n + N - 1
        BY <2>4, <3>0
      <3>2. t = todo[k - n + 1] /\ u = todo[(k - n + 1) + 1]
        BY <1>1, <2>1, <2>2, <2>4, <3>1
      <3>3. k - n + 1 \in 1..N - 1 /\ k - n + 1 \in DOMAIN todo
        <4>1. \A i \in 2..N - 1 : i \in 1..N - 1 /\ i \in 1..N
          BY <3>0
        <4>2. DOMAIN todo = 1..N
          BY <1>1
        <4>. QED BY <3>1, <4>1, <4>2
      <3>4. TaskOK(t) /\ Follows(t, u)
        BY <3>2, <3>3 DEF TodoOK, N
      <3>5. Follows(t, u)'
        BY <1>3, <3>4
      <3>. QED BY <2>1, <3>5 DEF Follows
    <2>5. CASE k = n
      <3>1. n \in 1..n /\ n # 0 /\ (k + 1) - n + 1 = 2 /\ k + 1 > n /\ 1 \in 1..N - 1
        BY <1>1, <2>2, <2>5
      <3>2. t = tasks[n] /\ u = todo[2]
        BY <1>1, <2>1, <2>2, <2>5, <3>1
      <3>3. Follows(task, u) /\ TaskOK(task)
        <4>1. Follows(todo[1], todo[1 + 1]) /\ TaskOK(todo[1])
          BY <1>1, <3>1 DEF TodoOK, N
        <4>. QED BY <1>1, <3>2, <4>1
      <3>4. Hands_over(t, maps'[task.in].sound)
        BY <1>0, <3>1, <3>2 DEF n
      <3>5. CASE u.base = 0
        BY <2>1, <3>5 DEF Follows
      <3>6. CASE u.base # 0
        <4>1. /\ u.in = task.in /\ task.do \in Pushers
              /\ maps[task.in].sound => u.base <= After(task)
              /\ t.in = task.in /\ t.do \in Pushers
              /\ maps'[task.in].sound => After(task) <= After(t)
              /\ maps'[task.in].sound => maps[task.in].sound
          BY <3>3, <3>4, <3>6 DEF Follows, Hands_over, Extends, TaskOK
        <4>2. t \in Tasks /\ TaskOK(t)' /\ u \in Tasks /\ task \in Tasks
          <5>1. t \in Tasks
            BY <1>1, <3>1, <3>2
          <5>2. TaskOK(tasks[n])'
            BY <3>1 DEF n
          <5>3. TaskOK(t)'
            BY <3>2, <5>2
          <5>4. u \in Tasks /\ task \in Tasks
            BY <1>1, <3>1, <3>2 DEF StateOK, N
          <5>. QED BY <5>1, <5>3, <5>4
        <4>3. After(t) \in Int /\ After(task) \in Int /\ u.base \in Nat
          <5>1. (t.do = "emit" => t.what \in Assembled) /\ (task.do = "emit" => task.what \in Assembled)
            BY <3>3, <4>2 DEF TaskOK
          <5>. QED BY <4>2, <5>1, AfterInt DEF Tasks
        <4>4. maps'[t.in].sound => u.base <= After(t)
          BY <4>1, <4>3
        <4>5. Follows(t, u)'
          BY <4>1, <4>4 DEF Follows
        <4>. QED BY <2>1, <4>5 DEF Follows
      <3>. QED BY <3>5, <3>6
    <2>. QED BY <1>1, <2>2, <2>3, <2>4, <2>5
  <1>. QED BY <1>2, <1>4 DEF TodoOK

(* What the first task counts on is there: it counted on it before, or the   *)
(* task before it has left it.                                               *)
LEMMA ReachedKept ==
  ASSUME StateOK, TodoOK, Reached, todo # <<>>, Extends, NEW tasks \in Seq(Tasks), Then(tasks),
         \A m \in DOMAIN maps' : maps'[m].sound => Arrival(maps'[m]) \in Nat,
         tasks # <<>> => \/ tasks[1].base = 0
                         \/ /\ tasks[1].in = task.in /\ tasks[1].base <= task.base
                            /\ Arrival(maps'[task.in]) = Arrival(maps[task.in]),
         tasks = <<>> /\ task.do \in Pushers =>
             (maps'[task.in].sound => After(task) <= Arrival(maps'[task.in])),
         \A k \in DOMAIN todo' : todo'[k].in \in DOMAIN maps'
  PROVE  Reached'
  <1>1. /\ todo' \in Seq(Tasks)
        /\ Len(todo) \in Nat \ {0} /\ Len(tasks) \in Nat
        /\ Len(todo') = Len(tasks) + Len(todo) - 1
        /\ DOMAIN todo' = 1..Len(tasks) + Len(todo) - 1
        /\ \A k \in 1..Len(tasks) : todo'[k] = tasks[k]
        /\ \A k \in 1..Len(tasks) + Len(todo) - 1 :
               k > Len(tasks) => k - Len(tasks) + 1 \in 2..Len(todo) /\ todo'[k] = todo[k - Len(tasks) + 1]
    BY Replaced DEF StateOK
  <1>2. /\ task = todo[1] /\ task \in Tasks /\ TaskOK(task) /\ task.in \in DOMAIN maps
        /\ maps[task.in] \in MapRecords /\ task.base \in Nat
    BY AtTask
  <1>. SUFFICES ASSUME todo' # <<>>, maps'[todo'[1].in].sound
                PROVE  todo'[1].base <= Arrival(maps'[todo'[1].in])
    <2>1. todo' # <<>> => Head(todo') = todo'[1]
      BY <1>1
    <2>. QED BY <2>1 DEF Reached, task
  <1>3. PICK t : t = todo'[1]
    OBVIOUS
  <1>4. 1 \in DOMAIN todo' /\ t \in Tasks /\ t.in \in DOMAIN maps' /\ Arrival(maps'[t.in]) \in Nat
    <2>1. 1 \in DOMAIN todo'
      BY <1>1
    <2>. QED BY <1>1, <1>3, <2>1
  <1>5. CASE t.base = 0
    BY <1>3, <1>4, <1>5
  <1>6. CASE t.base # 0 /\ tasks # <<>>
    <2>1. t = tasks[1]
      BY <1>1, <1>3, <1>6
    <2>2. t.in = task.in /\ t.base <= task.base /\ Arrival(maps'[task.in]) = Arrival(maps[task.in])
      BY <1>6, <2>1
    <2>3. maps[task.in].sound /\ task.base <= Arrival(maps[task.in])
      BY <1>2, <1>3, <2>2 DEF Extends, Reached
    <2>4. t.base \in Nat /\ task.base \in Nat /\ Arrival(maps[task.in]) \in Nat
      BY <1>2, <1>4, <2>2 DEF Tasks
    <2>5. t.base <= Arrival(maps'[t.in])
      BY <2>2, <2>3, <2>4
    <2>. QED BY <1>3, <2>5
  <1>7. CASE t.base # 0 /\ tasks = <<>>
    <2>1. Len(tasks) = 0 /\ 1 - Len(tasks) + 1 = 2
      BY <1>7
    <2>2. 2 \in 2..Len(todo) /\ t = todo[2]
      BY <1>1, <1>3, <1>4, <2>1
    <2>3. Follows(todo[1], todo[1 + 1])
      BY <1>1, <2>2 DEF TodoOK
    <2>4. Follows(task, t)
      BY <1>2, <2>2, <2>3
    <2>5. t.in = task.in /\ task.do \in Pushers /\ (maps[task.in].sound => t.base <= After(task))
      BY <1>7, <2>4 DEF Follows
    <2>6. maps'[task.in].sound /\ maps[task.in].sound
      BY <1>2, <1>3, <2>5 DEF Extends
    <2>7. t.base <= After(task) /\ After(task) <= Arrival(maps'[task.in])
      BY <1>7, <2>5, <2>6
    <2>8. After(task) \in Int /\ t.base \in Nat /\ Arrival(maps'[task.in]) \in Nat
      BY <1>2, <1>4, <2>5, AfterInt DEF Tasks, TaskOK
    <2>9. t.base <= Arrival(maps'[task.in])
      BY <2>7, <2>8
    <2>. QED BY <1>3, <2>5, <2>9
  <1>. QED BY <1>5, <1>6, <1>7
-----------------------------------------------------------------------------
(* A step that writes an instruction: new is the task's map with instr.      *)

Names == Seq([name : STRING, ref : Nat])

TablesGrow ==
    /\ refs' \in Names /\ pool' \in Seq(Int \cup Text)
    /\ \A i \in DOMAIN refs : i \in DOMAIN refs' /\ refs'[i] = refs[i]
    /\ \A i \in DOMAIN pool : i \in DOMAIN pool'

Writes(instr, new) ==
    /\ stage = "compiling" /\ mode' = "prompt" /\ todo # <<>>
    /\ UNCHANGED <<shell_env, stage, linked, trusted, functions, counters>>
    /\ TablesGrow
    /\ Then(<<>>)
    /\ maps' = [maps EXCEPT ![task.in] = new]
    /\ new \in MapRecords
    /\ new.code = Append(maps[task.in].code, instr)
    /\ new.depth = Append(maps[task.in].depth, task.base)
    /\ new.sound = maps[task.in].sound
    /\ instr \in Assembled
    /\ Written(instr)'
    /\ new.sound => Operands(instr) <= task.base
    /\ instr.op = "LBL" => task.base = 0
    /\ instr.op \in {"LBL", "LBLJMP", "LBLJMPIF"} => task.do = "emit"
    /\ task.do = "emit" => task.what = instr
    /\ task.do \in Pushers /\ new.sound => After(task) <= task.base + Growth(instr)

LEMMA WriteFacts ==
  ASSUME StateOK, TodoOK, NEW instr, NEW new, Writes(instr, new)
  PROVE  /\ Len(todo) \in Nat \ {0} /\ DOMAIN todo = 1..Len(todo)
         /\ todo' \in Seq(Tasks) /\ DOMAIN todo' = 1..Len(todo) - 1
         /\ \A k \in 1..Len(todo) - 1 : todo'[k] = todo[k + 1]
         /\ task = todo[1] /\ task \in Tasks /\ TaskOK(task) /\ task.base \in Nat
         /\ task.in \in DOMAIN maps /\ maps[task.in] \in MapRecords
         /\ maps' \in Seq(MapRecords) /\ DOMAIN maps' = DOMAIN maps /\ Len(maps') = Len(maps)
         /\ maps'[task.in] = new
         /\ \A m \in DOMAIN maps : m # task.in => maps'[m] = maps[m]
         /\ Live' = Live
         /\ Extends
  <1>1. /\ Len(todo) \in Nat \ {0} /\ DOMAIN todo = 1..Len(todo)
        /\ task = todo[1] /\ task \in Tasks /\ TaskOK(task) /\ task.base \in Nat
        /\ task.in \in DOMAIN maps /\ maps[task.in] \in MapRecords
    BY AtTask DEF Writes
  <1>2. /\ todo' \in Seq(Tasks) /\ DOMAIN todo' = 1..Len(todo) - 1
        /\ \A k \in 1..Len(todo) - 1 : todo'[k] = todo[k + 1]
    <2>1. Len(<<>>) = 0 /\ <<>> \in Seq(Tasks)
      OBVIOUS
    <2>2. /\ todo' \in Seq(Tasks) /\ DOMAIN todo' = 1..0 + Len(todo) - 1
          /\ \A k \in 1..0 + Len(todo) - 1 : k > 0 => todo'[k] = todo[k - 0 + 1]
      BY <2>1, Replaced DEF StateOK, Writes
    <2>. QED BY <1>1, <2>2
  <1>3. /\ maps' \in Seq(MapRecords) /\ DOMAIN maps' = DOMAIN maps /\ Len(maps') = Len(maps)
        /\ maps'[task.in] = new
        /\ \A m \in DOMAIN maps : m # task.in => maps'[m] = maps[m]
    <2>1. maps \in Seq(MapRecords) /\ new \in MapRecords /\ maps' = [maps EXCEPT ![task.in] = new]
      BY DEF StateOK, Writes
    <2>. QED BY <1>1, <2>1
  <1>4. Live' = Live
    BY <1>3 DEF Live, Writes
  <1>5. Extends
    BY <1>1, <1>3 DEF Extends, Writes, TablesGrow
  <1>. QED BY <1>1, <1>2, <1>3, <1>4, <1>5

LEMMA WriteTypes ==
  ASSUME StateOK, TodoOK, NEW instr, NEW new, Writes(instr, new)
  PROVE  StateOK'
  <1>1. maps' \in Seq(MapRecords) /\ Len(maps') = Len(maps) /\ todo' \in Seq(Tasks)
    BY WriteFacts
  <1>. QED BY <1>1 DEF StateOK, Writes, TablesGrow, counters, Names

LEMMA WriteBalances ==
  ASSUME StateOK, TodoOK, Reached, MapsOK, NEW instr, NEW new, Writes(instr, new)
  PROVE  MapsOK' /\ Reached' /\ TodoOK'
  <1>1. /\ task = todo[1] /\ task \in Tasks /\ TaskOK(task) /\ task.base \in Nat
        /\ task.in \in DOMAIN maps /\ maps[task.in] \in MapRecords
        /\ maps' \in Seq(MapRecords) /\ DOMAIN maps' = DOMAIN maps
        /\ maps'[task.in] = new
        /\ \A m \in DOMAIN maps : m # task.in => maps'[m] = maps[m]
        /\ Live' = Live
        /\ Extends
    BY WriteFacts
  <1>2. task.in \in Live /\ Live = DOMAIN maps
    BY <1>1 DEF Live, Writes
  <1>3. Balanced(new) /\ Arrival(new) = task.base + Growth(instr)
    <2>1. PICK map, base : map = maps[task.in] /\ base = task.base
      OBVIOUS
    <2>2. map \in MapRecords /\ base \in Nat /\ Balanced(map)
      BY <1>1, <1>2, <2>1 DEF MapsOK
    <2>3. /\ instr \in Assembled /\ new \in MapRecords
          /\ new.code = Append(map.code, instr)
          /\ new.depth = Append(map.depth, base)
          /\ new.sound = map.sound
          /\ instr.op = "LBL" => base = 0
      BY <2>1 DEF Writes
    <2>4. map.sound => base <= Arrival(map) /\ Operands(instr) <= base
      BY <1>2, <2>1 DEF Reached, Writes
    <2>5. Balanced(new) /\ Arrival(new) = base + Growth(instr)
      BY <2>2, <2>3, <2>4, AppendBalanced
    <2>. QED BY <2>1, <2>5
  <1>4. ASSUME NEW m \in DOMAIN maps
        PROVE  Balanced(maps'[m])
    <2>1. CASE m = task.in
      BY <1>1, <1>3, <2>1
    <2>2. CASE m # task.in
      BY <1>1, <1>2, <2>2 DEF MapsOK
    <2>. QED BY <2>1, <2>2
  <1>5. ASSUME NEW m \in DOMAIN maps, NEW i \in DOMAIN maps'[m].code
        PROVE  Written(maps[m].code[i])'
    <2>1. PICK e : e = maps'[m].code[i]
      OBVIOUS
    <2>2. CASE m # task.in
      <3>1. i \in DOMAIN maps[m].code /\ e = maps[m].code[i]
        BY <1>1, <2>1, <2>2
      <3>2. Written(e)
        BY <1>2, <3>1 DEF MapsOK, Writes
      <3>3. Written(e)'
        BY <1>1, <3>2, WrittenStays
      <3>. QED BY <2>1, <3>3 DEF Written
    <2>3. CASE m = task.in
      <3>1. maps[m].code \in Seq(Assembled) /\ instr \in Assembled /\ maps'[m].code = Append(maps[m].code, instr)
        BY <1>1, <2>3 DEF Writes, MapRecords
      <3>2. e = instr \/ (i \in DOMAIN maps[m].code /\ e = maps[m].code[i])
        BY <2>1, <3>1, Appended
      <3>3. Written(e) => Written(e)'
        BY <1>1, WrittenStays
      <3>4. Written(e)'
        <4>1. CASE e = instr
          BY <4>1 DEF Writes, Written
        <4>2. CASE e # instr
          <5>1. Written(e)
            BY <1>2, <2>3, <3>2, <4>2 DEF MapsOK, Writes
          <5>. QED BY <3>3, <5>1
        <4>. QED BY <4>1, <4>2
      <3>. QED BY <2>1, <3>4 DEF Written
    <2>. QED BY <2>2, <2>3
  <1>6. MapsOK'
    BY <1>1, <1>2, <1>4, <1>5 DEF MapsOK
  <1>7. TodoOK'
    <2>0. <<>> \in Seq(Tasks)
      OBVIOUS
    <2>1. PICK tasks \in Seq(Tasks) : tasks = <<>>
      BY <2>0
    <2>2. 1..Len(tasks) = {} /\ 1..Len(tasks) - 1 = {}
      BY <2>1
    <2>. QED BY <1>1, <2>1, <2>2, TodoKept DEF Writes
  <1>8. Reached'
    <2>1. \A m \in DOMAIN maps' : maps'[m].sound => Arrival(maps'[m]) \in Nat
      BY <1>1, <1>4, ArrivalNat
    <2>2. task.do \in Pushers => (maps'[task.in].sound => After(task) <= Arrival(maps'[task.in]))
      BY <1>1, <1>3 DEF Writes
    <2>3. \A k \in DOMAIN todo' : todo'[k].in \in DOMAIN maps'
      BY <1>7 DEF TodoOK, TaskOK
    <2>4. <<>> \in Seq(Tasks)
      OBVIOUS
    <2>. QED BY <1>1, <2>1, <2>2, <2>3, <2>4, ReachedKept DEF Writes
  <1>. QED BY <1>6, <1>7, <1>8

(* A mark is written when the task owes it, for the first time.              *)
LEMMA WriteMarks ==
  ASSUME StateOK, TodoOK, PlacedOK, HeadsOK, OwedOK, NEW instr, NEW new, Writes(instr, new)
  PROVE  PlacedOK' /\ HeadsOK' /\ OwedOK'
  <1>1. /\ task = todo[1] /\ Len(todo) \in Nat \ {0} /\ DOMAIN todo = 1..Len(todo)
        /\ DOMAIN todo' = 1..Len(todo) - 1
        /\ \A k \in 1..Len(todo) - 1 : todo'[k] = todo[k + 1]
        /\ task.in \in DOMAIN maps /\ maps[task.in] \in MapRecords
        /\ DOMAIN maps' = DOMAIN maps
        /\ maps'[task.in] = new
        /\ \A m \in DOMAIN maps : m # task.in => maps'[m] = maps[m]
        /\ Live' = Live
    BY WriteFacts
  <1>2. /\ labels' = labels /\ owner' = owner /\ functions' = functions
        /\ stage = "compiling" /\ stage' = "compiling" /\ Live = DOMAIN maps
    BY DEF Writes, counters, Live
  <1> DEFINE n == Len(maps[task.in].code)
             Old(i) == maps[task.in].code[i]
  <1>3. /\ n \in Nat /\ DOMAIN maps[task.in].code = 1..n
        /\ DOMAIN new.code = 1..n + 1 /\ new.code[n + 1] = instr
        /\ \A i \in 1..n : new.code[i] = Old(i)
    <2>1. maps[task.in].code \in Seq(Assembled)
      BY <1>1 DEF MapRecords
    <2>. QED BY <2>1, Appended DEF Writes
  <1> HIDE DEF n
  <1>4. instr.op = "LBL" => Owes(todo[1], instr.arg)
    BY <1>1 DEF Owes, IsLabel, Writes
  <1>5. instr.op = "LBL" =>
           /\ instr.arg \in Int
           /\ instr.arg \in 0..labels - 1
           /\ owner[instr.arg + 1] = task.in
           /\ \A i \in 1..n : ~IsLabel(Old(i), instr.arg)
           /\ \A j \in DOMAIN todo : Owes(todo[j], instr.arg) => j = 1
    <2>1. instr.arg \in Int
      BY DEF Writes, Assembled
    <2>2. 1 \in DOMAIN todo
      BY <1>1
    <2>. QED BY <1>1, <1>3, <1>4, <2>1, <2>2 DEF OwedOK, Placed
  <1>6. \A m, l : Belongs(m, l)' <=> owner[l + 1] = m
    BY <1>2 DEF Belongs
  <1>7. \A m, l : Belongs(m, l) <=> owner[l + 1] = m
    BY <1>2 DEF Belongs
  <1>8. ASSUME NEW m \in Live, NEW i \in DOMAIN maps'[m].code, maps'[m].code[i].op = "LBL"
        PROVE  /\ maps'[m].code[i].arg \in 0..labels' - 1
               /\ owner[maps'[m].code[i].arg + 1] = m
               /\ \A j \in DOMAIN maps'[m].code :
                     IsLabel(maps'[m].code[j], maps'[m].code[i].arg) => j = i
    <2>1. CASE m # task.in
      BY <1>1, <1>2, <1>7, <1>8, <2>1 DEF PlacedOK
    <2>2. CASE m = task.in
      <3>1. \A j \in 1..n + 1 : j \in 1..n \/ j = n + 1
        BY <1>3
      <3>2. CASE i = n + 1
        <4>1. instr.op = "LBL"
          BY <1>1, <1>3, <1>8, <2>2, <3>2
        <4>2. ASSUME NEW j \in 1..n + 1, IsLabel(new.code[j], instr.arg)
              PROVE  j = n + 1
          BY <1>3, <1>5, <3>1, <4>1, <4>2
        <4>. QED BY <1>1, <1>2, <1>3, <1>5, <2>2, <3>2, <4>1, <4>2
      <3>3. CASE i # n + 1
        <4>1. i \in 1..n /\ new.code[i] = Old(i) /\ Old(i).op = "LBL"
          BY <1>1, <1>3, <1>8, <2>2, <3>1, <3>3
        <4>2. /\ Old(i).arg \in 0..labels - 1
              /\ owner[Old(i).arg + 1] = m
              /\ \A j \in 1..n : IsLabel(Old(j), Old(i).arg) => j = i
          BY <1>2, <1>3, <1>7, <2>2, <4>1 DEF PlacedOK
        <4>3. ~IsLabel(instr, Old(i).arg)
          <5>1. IsLabel(Old(i), Old(i).arg)
            BY <4>1 DEF IsLabel
          <5>. QED BY <1>5, <4>1, <5>1 DEF IsLabel
        <4>4. ASSUME NEW j \in 1..n + 1, IsLabel(new.code[j], Old(i).arg)
              PROVE  j = i
          BY <1>3, <3>1, <4>2, <4>3, <4>4
        <4>. QED BY <1>1, <1>2, <1>3, <2>2, <4>1, <4>2, <4>4
      <3>. QED BY <3>2, <3>3
    <2>. QED BY <2>1, <2>2
  <1>9. PlacedOK'
    BY <1>1, <1>6, <1>8 DEF PlacedOK
  <1>10. HeadsOK'
    BY <1>2 DEF HeadsOK
  <1>11. ASSUME NEW k \in DOMAIN todo', NEW l \in Int, Owes(todo'[k], l)
         PROVE  /\ l \in 0..labels - 1
                /\ owner[l + 1] = todo'[k].in
                /\ ~Placed(maps'[todo'[k].in].code, l)
                /\ \A j \in DOMAIN todo' : Owes(todo'[j], l) => j = k
    <2>1. k + 1 \in DOMAIN todo /\ todo'[k] = todo[k + 1] /\ k + 1 # 1
      BY <1>1
    <2>2. /\ l \in 0..labels - 1
          /\ owner[l + 1] = todo[k + 1].in
          /\ ~Placed(maps[todo[k + 1].in].code, l)
          /\ \A j \in DOMAIN todo : Owes(todo[j], l) => j = k + 1
      BY <1>11, <2>1 DEF OwedOK
    <2>3. ~Placed(maps'[todo[k + 1].in].code, l)
      <3>1. todo[k + 1].in \in DOMAIN maps
        BY <2>1 DEF TodoOK, TaskOK
      <3>2. CASE todo[k + 1].in # task.in
        BY <1>1, <2>2, <3>1, <3>2
      <3>3. CASE todo[k + 1].in = task.in
        <4>1. ~IsLabel(instr, l)
          <5>1. 1 \in DOMAIN todo
            BY <1>1
          <5>. QED BY <1>4, <2>1, <2>2, <5>1 DEF IsLabel
        <4>2. \A i \in 1..n : ~IsLabel(Old(i), l)
          BY <1>3, <2>2, <3>3 DEF Placed
        <4>3. \A j \in 1..n + 1 : j \in 1..n \/ j = n + 1
          BY <1>3
        <4>4. ~Placed(new.code, l)
          BY <1>3, <4>1, <4>2, <4>3 DEF Placed
        <4>. QED BY <1>1, <3>3, <4>4
      <3>. QED BY <3>2, <3>3
    <2>4. ASSUME NEW j \in DOMAIN todo', Owes(todo'[j], l)
          PROVE  j = k
      <3>1. j + 1 \in DOMAIN todo /\ todo'[j] = todo[j + 1]
        BY <1>1
      <3>2. j + 1 = k + 1
        BY <2>2, <2>4, <3>1
      <3>. QED BY <1>1, <3>2
    <2>. QED BY <2>1, <2>2, <2>3, <2>4
  <1>12. OwedOK'
    BY <1>2, <1>11 DEF OwedOK
  <1>. QED BY <1>9, <1>10, <1>12

LEMMA AllMain ==
  ASSUME NEW code \in Seq(Assembled), \A i \in DOMAIN code : code[i].op # "EXIT"
  PROVE  /\ \A i \in DOMAIN code : InMain(code, i)
         /\ \A i, j \in DOMAIN code :
               j > i /\ IsLabel(code[j], code[i].arg) => LandsAhead(code, i)
  <1>1. ASSUME NEW i \in DOMAIN code
        PROVE  InMain(code, i)
    <2>1. \A j \in 1..i - 1 : j \in DOMAIN code
      OBVIOUS
    <2>. QED BY <2>1 DEF InMain
  <1>. QED BY <1>1 DEF LandsAhead

(* A jump is written while its label is owed, and the label behind it.       *)
LEMMA WriteJumps ==
  ASSUME StateOK, TodoOK, MapsOK', JumpsOK, NEW instr, NEW new, Writes(instr, new)
  PROVE  JumpsOK'
  <1>1. /\ task = todo[1] /\ Len(todo) \in Nat \ {0} /\ DOMAIN todo = 1..Len(todo)
        /\ DOMAIN todo' = 1..Len(todo) - 1
        /\ \A k \in 1..Len(todo) - 1 : todo'[k] = todo[k + 1]
        /\ task.in \in DOMAIN maps /\ maps[task.in] \in MapRecords
        /\ DOMAIN maps' = DOMAIN maps
        /\ maps'[task.in] = new
        /\ \A m \in DOMAIN maps : m # task.in => maps'[m] = maps[m]
        /\ Live' = Live
    BY WriteFacts
  <1>2. stage = "compiling" /\ stage' = "compiling" /\ Live = DOMAIN maps
    BY DEF Writes, Live
  <1>0. /\ \A k \in 2..Len(todo) : k - 1 \in DOMAIN todo' /\ todo'[k - 1] = todo[k]
        /\ \A k \in DOMAIN todo : k = 1 \/ k \in 2..Len(todo)
    <2>1. \A k \in 2..Len(todo) : k - 1 \in 1..Len(todo) - 1 /\ (k - 1) + 1 = k
      BY <1>1
    <2>. QED BY <1>1, <2>1
  <1> DEFINE n == Len(maps[task.in].code)
             Old(i) == maps[task.in].code[i]
  <1>3. /\ n \in Nat /\ DOMAIN maps[task.in].code = 1..n
        /\ DOMAIN new.code = 1..n + 1 /\ new.code[n + 1] = instr
        /\ \A i \in 1..n : new.code[i] = Old(i)
    <2>1. maps[task.in].code \in Seq(Assembled)
      BY <1>1 DEF MapRecords
    <2>. QED BY <2>1, Appended DEF Writes
  <1> HIDE DEF n
  <1>4. new.code \in Seq(Assembled) /\ \A i \in DOMAIN new.code : new.code[i].op # "EXIT"
    <2>1. new.code \in Seq(Assembled)
      BY DEF Writes, MapRecords
    <2>2. task.in \in Live'
      BY <1>1, <1>2
    <2>3. ASSUME NEW i \in DOMAIN new.code
          PROVE  new.code[i].op # "EXIT"
      <3>1. new.code[i].op \in WrittenOps
        BY <1>1, <1>2, <2>2 DEF MapsOK, Written
      <3>. QED BY <3>1 DEF WrittenOps
    <2>. QED BY <2>1, <2>3
  <1>5. \A i, j \in 1..n + 1 : j > i /\ IsLabel(new.code[j], new.code[i].arg) => LandsAhead(new.code, i)
    BY <1>3, <1>4, AllMain
  <1>6. ASSUME NEW m \in Live, NEW i \in DOMAIN maps'[m].code, IsJump(maps'[m].code[i])
        PROVE  \/ LandsAhead(maps'[m].code, i)
               \/ \E k \in DOMAIN todo' : todo'[k].in = m /\ Owes(todo'[k], maps'[m].code[i].arg)
    <2>1. CASE m # task.in
      <3>1. maps'[m] = maps[m]
        BY <1>1, <1>2, <2>1
      <3>2. \/ LandsAhead(maps[m].code, i)
            \/ \E k \in DOMAIN todo : todo[k].in = m /\ Owes(todo[k], maps[m].code[i].arg)
        BY <1>6, <3>1 DEF JumpsOK
      <3>3. ASSUME NEW k \in DOMAIN todo, todo[k].in = m
            PROVE  k - 1 \in DOMAIN todo' /\ todo'[k - 1] = todo[k]
        BY <1>0, <1>1, <2>1, <3>3
      <3>. QED BY <3>1, <3>2, <3>3
    <2>2. CASE m = task.in
      <3>1. CASE i = n + 1
        <4>1. task.do = "emit" /\ task.what = instr /\ IsJump(instr)
          BY <1>1, <1>3, <1>6, <2>2, <3>1 DEF IsJump, Writes
        <4>2. 1 \in DOMAIN todo
          BY <1>1
        <4>3. PICK j \in DOMAIN todo : j > 1 /\ todo[j].in = task.in /\ Owes(todo[j], instr.arg)
          BY <1>1, <4>1, <4>2 DEF JumpsOK
        <4>4. j - 1 \in DOMAIN todo' /\ todo'[j - 1] = todo[j]
          BY <1>0, <1>1, <4>3
        <4>. QED BY <1>1, <1>3, <2>2, <3>1, <4>3, <4>4
      <3>2. CASE i # n + 1
        <4>1. i \in 1..n /\ new.code[i] = Old(i) /\ IsJump(Old(i))
          BY <1>1, <1>3, <1>6, <2>2, <3>2
        <4>2. \/ LandsAhead(maps[m].code, i)
              \/ \E k \in DOMAIN todo : todo[k].in = m /\ Owes(todo[k], Old(i).arg)
          BY <1>2, <1>3, <2>2, <4>1 DEF JumpsOK
        <4>3. CASE LandsAhead(maps[m].code, i)
          <5>1. PICK j \in 1..n : j > i /\ IsLabel(Old(j), Old(i).arg)
            BY <1>3, <2>2, <4>3 DEF LandsAhead
          <5>2. i \in 1..n + 1 /\ j \in 1..n + 1 /\ new.code[j] = Old(j)
            BY <1>3, <4>1
          <5>3. LandsAhead(new.code, i)
            BY <1>5, <4>1, <5>1, <5>2
          <5>. QED BY <1>1, <2>2, <5>3
        <4>4. ASSUME NEW k \in DOMAIN todo, todo[k].in = m, Owes(todo[k], Old(i).arg)
              PROVE  \/ LandsAhead(maps'[m].code, i)
                     \/ \E q \in DOMAIN todo' : todo'[q].in = m /\ Owes(todo'[q], maps'[m].code[i].arg)
          <5>1. CASE k = 1
            <6>1. IsLabel(instr, Old(i).arg)
              BY <1>1, <4>4, <5>1 DEF Owes, Writes
            <6>2. i \in 1..n + 1 /\ n + 1 \in 1..n + 1 /\ n + 1 > i
              BY <1>3, <4>1
            <6>3. LandsAhead(new.code, i)
              BY <1>3, <1>5, <4>1, <6>1, <6>2
            <6>. QED BY <1>1, <2>2, <6>3
          <5>2. CASE k # 1
            <6>1. k - 1 \in DOMAIN todo' /\ todo'[k - 1] = todo[k]
              BY <1>0, <1>1, <5>2
            <6>. QED BY <1>1, <2>2, <4>1, <4>4, <6>1
          <5>. QED BY <5>1, <5>2
        <4>. QED BY <4>2, <4>3, <4>4
      <3>. QED BY <3>1, <3>2
    <2>. QED BY <2>1, <2>2
  <1>7. ASSUME NEW k \in DOMAIN todo', todo'[k].do = "emit", IsJump(todo'[k].what)
        PROVE  \E j \in DOMAIN todo' : /\ j > k /\ todo'[j].in = todo'[k].in
                                       /\ Owes(todo'[j], todo'[k].what.arg)
    <2>1. k + 1 \in DOMAIN todo /\ todo'[k] = todo[k + 1]
      BY <1>1
    <2>2. PICK j \in DOMAIN todo : j > k + 1 /\ todo[j].in = todo'[k].in /\ Owes(todo[j], todo'[k].what.arg)
      BY <1>7, <2>1 DEF JumpsOK
    <2>3. j \in 2..Len(todo) /\ j - 1 > k
      BY <1>1, <2>1, <2>2
    <2>4. j - 1 \in DOMAIN todo' /\ todo'[j - 1] = todo[j]
      BY <1>0, <2>3
    <2>. QED BY <2>2, <2>3, <2>4
  <1>. QED BY <1>1, <1>6, <1>7 DEF JumpsOK

(* The invariant is kept by a step that writes an instruction.               *)
LEMMA WriteKeeps ==
  ASSUME CompilationInv, NEW instr, NEW new, Writes(instr, new)
  PROVE  CompilationInv'
  <1>1. StateOK'
    BY WriteTypes DEF CompilationInv
  <1>2. MapsOK' /\ Reached' /\ TodoOK'
    BY WriteBalances DEF CompilationInv
  <1>3. PlacedOK' /\ HeadsOK' /\ OwedOK'
    BY WriteMarks DEF CompilationInv
  <1>4. JumpsOK'
    BY <1>2, WriteJumps DEF CompilationInv
  <1>5. LinkedOK' /\ CodeVerifies'
    BY DEF LinkedOK, CodeVerifies, Writes
  <1>. QED BY <1>1, <1>2, <1>3, <1>4, <1>5 DEF CompilationInv
-----------------------------------------------------------------------------
(* A step that puts tasks in the place of one.                               *)

SameCode(m) == maps'[m].code = maps[m].code /\ maps'[m].depth = maps[m].depth

\* Labels of the tasks are new ones.
NewMarks(tasks) ==
    \A k \in DOMAIN tasks, l \in Int : Owes(tasks[k], l) =>
        /\ l \in labels..labels' - 1
        /\ owner'[l + 1] = tasks[k].in
        /\ \A j \in DOMAIN tasks : Owes(tasks[j], l) => j = k

JumpsForth(tasks) ==
    \A k \in DOMAIN tasks : tasks[k].do = "emit" /\ IsJump(tasks[k].what) =>
        \E j \in DOMAIN tasks : j > k /\ tasks[j].in = tasks[k].in /\ Owes(tasks[j], tasks[k].what.arg)

Expands(tasks) ==
    /\ stage = "compiling" /\ mode' = "prompt" /\ todo # <<>> /\ task.do # "emit"
    /\ UNCHANGED <<shell_env, stage, linked, trusted, refs, pool>>
    /\ tasks \in Seq(Tasks) /\ Then(tasks)
    /\ \A k \in 1..Len(tasks) : TaskOK(tasks[k])'
    /\ \A k \in 1..Len(tasks) - 1 : Follows(tasks[k], tasks[k + 1])'
    /\ tasks # <<>> => /\ Hands_over(tasks[Len(tasks)], maps'[task.in].sound)
                       /\ \/ tasks[1].base = 0
                          \/ tasks[1].in = task.in /\ tasks[1].base <= task.base /\ SameCode(task.in)
    /\ tasks = <<>> => task.do \notin Pushers \/ ~maps'[task.in].sound
    /\ functions' \in Seq([name : STRING, reference : Nat]) /\ Len(maps') = Len(functions') + 1
    /\ \A k \in DOMAIN functions : k \in DOMAIN functions' /\ functions'[k] = functions[k]
    /\ maps' \in Seq(MapRecords)
    /\ \A m \in DOMAIN maps : m \in DOMAIN maps' /\ (maps'[m].sound => maps[m].sound)
    /\ \A m \in DOMAIN maps' : \/ m \in DOMAIN maps /\ SameCode(m)
                               \/ maps'[m].code = <<>> /\ maps'[m].depth = <<>>
    /\ labels' \in Nat /\ labels <= labels'
    /\ owner' \in Seq(Nat) /\ Len(owner') = labels' /\ \A l \in 1..labels : owner'[l] = owner[l]
    /\ HeadsOK'
    /\ NewMarks(tasks) /\ JumpsForth(tasks)

LEMMA ExpandFacts ==
  ASSUME StateOK, TodoOK, NEW tasks, Expands(tasks)
  PROVE  /\ task = todo[1] /\ Len(todo) \in Nat \ {0} /\ DOMAIN todo = 1..Len(todo)
         /\ task \in Tasks /\ TaskOK(task)
         /\ todo' \in Seq(Tasks)
         /\ Len(tasks) \in Nat /\ DOMAIN tasks = 1..Len(tasks)
         /\ DOMAIN todo' = 1..Len(tasks) + Len(todo) - 1
         /\ \A k \in DOMAIN tasks : k \in DOMAIN todo' /\ todo'[k] = tasks[k]
         /\ \A k \in 2..Len(todo) : /\ k + Len(tasks) - 1 \in DOMAIN todo'
                                    /\ todo'[k + Len(tasks) - 1] = todo[k]
         /\ \A k \in DOMAIN todo' :
               \/ k \in DOMAIN tasks
               \/ k - Len(tasks) + 1 \in 2..Len(todo) /\ todo'[k] = todo[k - Len(tasks) + 1]
         /\ Live = DOMAIN maps /\ Live' = DOMAIN maps'
         /\ Extends
  <1>1. /\ task = todo[1] /\ Len(todo) \in Nat \ {0} /\ DOMAIN todo = 1..Len(todo)
        /\ task \in Tasks /\ TaskOK(task)
    BY AtTask DEF Expands
  <1>2. /\ todo' \in Seq(Tasks) /\ Len(tasks) \in Nat /\ DOMAIN tasks = 1..Len(tasks)
        /\ DOMAIN todo' = 1..Len(tasks) + Len(todo) - 1
        /\ \A k \in 1..Len(tasks) : todo'[k] = tasks[k]
        /\ \A k \in 2..Len(todo) : todo'[k + Len(tasks) - 1] = todo[k]
        /\ \A k \in 1..Len(tasks) + Len(todo) - 1 :
               k > Len(tasks) => k - Len(tasks) + 1 \in 2..Len(todo) /\ todo'[k] = todo[k - Len(tasks) + 1]
    BY Replaced DEF StateOK, Expands
  <1>3. \A k \in DOMAIN tasks : k \in DOMAIN todo' /\ todo'[k] = tasks[k]
    BY <1>1, <1>2
  <1>4. \A k \in 2..Len(todo) : k + Len(tasks) - 1 \in DOMAIN todo' /\ todo'[k + Len(tasks) - 1] = todo[k]
    BY <1>1, <1>2
  <1>5. \A k \in DOMAIN todo' :
               \/ k \in DOMAIN tasks
               \/ k - Len(tasks) + 1 \in 2..Len(todo) /\ todo'[k] = todo[k - Len(tasks) + 1]
    BY <1>1, <1>2
  <1>6. Live = DOMAIN maps /\ Live' = DOMAIN maps'
    BY DEF Live, Expands
  <1>7. Extends
    BY DEF Extends, Expands
  <1>. QED BY <1>1, <1>2, <1>3, <1>4, <1>5, <1>6, <1>7

LEMMA ExpandBalances ==
  ASSUME StateOK, TodoOK, Reached, MapsOK, NEW tasks, Expands(tasks)
  PROVE  MapsOK' /\ Reached' /\ TodoOK'
  <1>1. Extends /\ Live = DOMAIN maps /\ Live' = DOMAIN maps' /\ task \in Tasks /\ task.in \in DOMAIN maps
    BY ExpandFacts DEF TaskOK
  <1>2. ASSUME NEW m \in DOMAIN maps'
        PROVE  /\ Balanced(maps'[m])
               /\ \A i \in DOMAIN maps'[m].code : Written(maps[m].code[i])'
    <2>1. PICK new : new = maps'[m]
      OBVIOUS
    <2>2. CASE m \in DOMAIN maps /\ SameCode(m)
      <3>1. PICK map : map = maps[m]
        OBVIOUS
      <3>2. Balanced(map) /\ \A i \in DOMAIN map.code : Written(map.code[i])
        BY <1>1, <2>2, <3>1 DEF MapsOK, Expands
      <3>3. new.code = map.code /\ new.depth = map.depth /\ (new.sound => map.sound)
        BY <2>1, <2>2, <3>1 DEF SameCode, Expands
      <3>4. Balanced(new)
        BY <3>2, <3>3 DEF Balanced
      <3>5. ASSUME NEW i \in DOMAIN maps'[m].code
            PROVE  Written(maps[m].code[i])'
        <4>1. PICK e : e = map.code[i]
          OBVIOUS
        <4>2. Written(e) /\ e = maps'[m].code[i]
          BY <2>1, <3>2, <3>3, <4>1
        <4>3. Written(e)'
          BY <1>1, <4>2, WrittenStays
        <4>. QED BY <4>2, <4>3 DEF Written
      <3>. QED BY <2>1, <3>4, <3>5
    <2>3. CASE new.code = <<>> /\ new.depth = <<>>
      <3>1. Balanced(new)
        BY <2>3 DEF Balanced
      <3>. QED BY <2>1, <2>3, <3>1
    <2>. QED BY <2>1, <2>2, <2>3 DEF Expands
  <1>3. MapsOK'
    BY <1>1, <1>2 DEF MapsOK
  <1>4. TodoOK'
    BY <1>1, TodoKept DEF Expands
  <1>5. Reached'
    <2>1. \A m \in DOMAIN maps' : maps'[m].sound => Arrival(maps'[m]) \in Nat
      BY <1>2, ArrivalNat DEF Expands
    <2>2. SameCode(task.in) => Arrival(maps'[task.in]) = Arrival(maps[task.in])
      BY DEF SameCode, Arrival
    <2>3. \A k \in DOMAIN todo' : todo'[k].in \in DOMAIN maps'
      BY <1>4 DEF TodoOK, TaskOK
    <2>4. tasks # <<>> => \/ tasks[1].base = 0
                          \/ /\ tasks[1].in = task.in /\ tasks[1].base <= task.base
                             /\ Arrival(maps'[task.in]) = Arrival(maps[task.in])
      BY <2>2 DEF Expands
    <2>5. tasks = <<>> /\ task.do \in Pushers =>
             (maps'[task.in].sound => After(task) <= Arrival(maps'[task.in]))
      BY DEF Expands
    <2>6. tasks \in Seq(Tasks) /\ Then(tasks) /\ todo # <<>>
      BY DEF Expands
    <2>. QED BY <1>1, <2>1, <2>3, <2>4, <2>5, <2>6, ReachedKept
  <1>. QED BY <1>3, <1>4, <1>5

LEMMA Below ==
  ASSUME NEW a \in Nat, NEW b \in Nat, a <= b
  PROVE  /\ \A l \in 0..a - 1 : l \in 0..b - 1 /\ l + 1 \in 1..a
         /\ \A l \in a..b - 1 : l \in 0..b - 1 /\ l \notin 0..a - 1
  OBVIOUS

(* Labels that are placed or owed are old ones, and stay where they belong.  *)
LEMMA ExpandMarks ==
  ASSUME StateOK, TodoOK, PlacedOK, OwedOK, NEW tasks, Expands(tasks)
  PROVE  PlacedOK' /\ OwedOK'
  <1>1. /\ task = todo[1] /\ Len(todo) \in Nat \ {0} /\ DOMAIN todo = 1..Len(todo)
        /\ Len(tasks) \in Nat /\ DOMAIN tasks = 1..Len(tasks)
        /\ DOMAIN todo' = 1..Len(tasks) + Len(todo) - 1
        /\ \A k \in DOMAIN tasks : k \in DOMAIN todo' /\ todo'[k] = tasks[k]
        /\ \A k \in DOMAIN todo' :
               \/ k \in DOMAIN tasks
               \/ k - Len(tasks) + 1 \in 2..Len(todo) /\ todo'[k] = todo[k - Len(tasks) + 1]
        /\ Live = DOMAIN maps /\ Live' = DOMAIN maps'
    BY ExpandFacts
  <1>2. /\ stage = "compiling" /\ stage' = "compiling"
        /\ labels \in Nat /\ labels' \in Nat /\ labels <= labels'
        /\ \A l \in 0..labels - 1 : l \in 0..labels' - 1 /\ owner'[l + 1] = owner[l + 1]
        /\ \A m \in DOMAIN maps' : \/ m \in DOMAIN maps /\ SameCode(m)
                                   \/ maps'[m].code = <<>>
        /\ NewMarks(tasks)
    <2>1. /\ labels \in Nat /\ labels' \in Nat /\ labels <= labels' /\ \A l \in 1..labels : owner'[l] = owner[l]
      BY DEF StateOK, Expands
    <2>2. \A l \in 0..labels - 1 : l \in 0..labels' - 1 /\ l + 1 \in 1..labels
      BY <2>1, Below
    <2>. QED BY <2>1, <2>2 DEF Expands
  <1>6. \A m, l : Belongs(m, l)' <=> owner'[l + 1] = m
    BY <1>2 DEF Belongs
  <1>7. \A m, l : Belongs(m, l) <=> owner[l + 1] = m
    BY <1>2 DEF Belongs
  <1>8. ASSUME NEW m \in Live', NEW i \in DOMAIN maps'[m].code, maps'[m].code[i].op = "LBL"
        PROVE  /\ maps'[m].code[i].arg \in 0..labels' - 1
               /\ owner'[maps'[m].code[i].arg + 1] = m
               /\ \A j \in DOMAIN maps'[m].code :
                     IsLabel(maps'[m].code[j], maps'[m].code[i].arg) => j = i
    <2>1. m \in DOMAIN maps /\ maps'[m].code = maps[m].code
      <3>1. maps'[m].code # <<>>
        BY <1>8
      <3>. QED BY <1>1, <1>2, <3>1 DEF SameCode
    <2>2. /\ maps[m].code[i].arg \in 0..labels - 1
          /\ owner[maps[m].code[i].arg + 1] = m
          /\ \A j \in DOMAIN maps[m].code :
                     IsLabel(maps[m].code[j], maps[m].code[i].arg) => j = i
      BY <1>1, <1>7, <1>8, <2>1 DEF PlacedOK
    <2>. QED BY <1>2, <2>1, <2>2
  <1>9. PlacedOK'
    BY <1>6, <1>8 DEF PlacedOK
  <1>10. ASSUME NEW m \in DOMAIN maps', NEW l \in Int, Placed(maps'[m].code, l)
         PROVE  m \in DOMAIN maps /\ Placed(maps[m].code, l) /\ l \in 0..labels - 1
    <2>1. PICK i \in DOMAIN maps'[m].code : IsLabel(maps'[m].code[i], l)
      BY <1>10 DEF Placed
    <2>2. m \in DOMAIN maps /\ maps'[m].code = maps[m].code
      <3>1. maps'[m].code # <<>>
        BY <2>1
      <3>. QED BY <1>2, <3>1 DEF SameCode
    <2>. QED BY <1>1, <2>1, <2>2 DEF Placed, PlacedOK, IsLabel
  <1>11. ASSUME NEW k \in DOMAIN todo', NEW l \in Int, Owes(todo'[k], l), k \in DOMAIN tasks
         PROVE  /\ l \in labels..labels' - 1
                /\ owner'[l + 1] = todo'[k].in
                /\ \A j \in DOMAIN tasks : Owes(todo'[j], l) => j = k
    BY <1>1, <1>2, <1>11 DEF NewMarks
  <1>12. ASSUME NEW k \in DOMAIN todo', NEW l \in Int, Owes(todo'[k], l), k \notin DOMAIN tasks
         PROVE  /\ l \in 0..labels - 1
                /\ owner'[l + 1] = todo'[k].in
                /\ todo'[k].in \in DOMAIN maps
                /\ ~Placed(maps[todo'[k].in].code, l)
                /\ \A j \in DOMAIN todo' : j \notin DOMAIN tasks /\ Owes(todo'[j], l) => j = k
    <2>1. PICK q \in DOMAIN todo : q = k - Len(tasks) + 1 /\ todo'[k] = todo[q]
      BY <1>1, <1>12
    <2>2. /\ l \in 0..labels - 1 /\ owner[l + 1] = todo[q].in /\ ~Placed(maps[todo[q].in].code, l)
          /\ \A j \in DOMAIN todo : Owes(todo[j], l) => j = q
      BY <1>12, <2>1 DEF OwedOK
    <2>3. todo[q].in \in DOMAIN maps
      BY DEF TodoOK, TaskOK
    <2>4. ASSUME NEW j \in DOMAIN todo', j \notin DOMAIN tasks, Owes(todo'[j], l)
          PROVE  j = k
      <3>1. PICK r \in DOMAIN todo : r = j - Len(tasks) + 1 /\ todo'[j] = todo[r]
        BY <1>1, <2>4
      <3>2. r = q
        BY <2>2, <2>4, <3>1
      <3>. QED BY <1>1, <2>1, <3>1, <3>2
    <2>. QED BY <1>2, <2>1, <2>2, <2>3, <2>4
  <1>13. \A l \in labels..labels' - 1 : l \in 0..labels' - 1 /\ l \notin 0..labels - 1
    BY <1>2, Below
  <1>14. ASSUME NEW k \in DOMAIN todo', NEW l \in Int, Owes(todo'[k], l)
         PROVE  /\ l \in 0..labels' - 1
                /\ owner'[l + 1] = todo'[k].in
                /\ ~Placed(maps'[todo'[k].in].code, l)
                /\ \A j \in DOMAIN todo' : Owes(todo'[j], l) => j = k
    <2>1. todo'[k].in \in DOMAIN maps'
      <3>1. CASE k \in DOMAIN tasks
        <4>1. PICK t : t = tasks[k]
          OBVIOUS
        <4>2. TaskOK(tasks[k])'
          BY <1>1, <3>1 DEF Expands
        <4>3. tasks[k].in \in DOMAIN maps'
          BY <4>2 DEF TaskOK
        <4>. QED BY <1>1, <3>1, <4>3
      <3>2. CASE k \notin DOMAIN tasks
        <4>1. todo'[k].in \in DOMAIN maps
          BY <1>12, <1>14, <3>2
        <4>. QED BY <4>1 DEF Expands
      <3>. QED BY <3>1, <3>2
    <2>2. CASE k \in DOMAIN tasks
      <3>1. /\ l \in labels..labels' - 1 /\ owner'[l + 1] = todo'[k].in
            /\ \A j \in DOMAIN tasks : Owes(todo'[j], l) => j = k
        BY <1>11, <1>14, <2>2
      <3>2. l \in 0..labels' - 1 /\ l \notin 0..labels - 1
        BY <1>13, <3>1
      <3>3. ~Placed(maps'[todo'[k].in].code, l)
        BY <1>10, <2>1, <3>2
      <3>4. \A j \in DOMAIN todo' : j \notin DOMAIN tasks => ~Owes(todo'[j], l)
        BY <1>12, <3>2
      <3>. QED BY <3>1, <3>2, <3>3, <3>4
    <2>3. CASE k \notin DOMAIN tasks
      <3>1. /\ l \in 0..labels - 1 /\ owner'[l + 1] = todo'[k].in
            /\ ~Placed(maps[todo'[k].in].code, l)
            /\ \A j \in DOMAIN todo' : j \notin DOMAIN tasks /\ Owes(todo'[j], l) => j = k
        BY <1>12, <1>14, <2>3
      <3>2. l \in 0..labels' - 1 /\ l \notin labels..labels' - 1
        BY <1>2, <1>13, <3>1
      <3>3. ~Placed(maps'[todo'[k].in].code, l)
        BY <1>10, <2>1, <3>1
      <3>4. \A j \in DOMAIN todo' : j \in DOMAIN tasks => ~Owes(todo'[j], l)
        BY <1>11, <3>2
      <3>. QED BY <3>1, <3>2, <3>3, <3>4
    <2>. QED BY <2>2, <2>3
  <1>15. OwedOK'
    BY <1>14 DEF OwedOK
  <1>. QED BY <1>9, <1>15

LEMMA ExpandJumps ==
  ASSUME StateOK, TodoOK, JumpsOK, NEW tasks, Expands(tasks)
  PROVE  JumpsOK'
  <1>1. /\ task = todo[1] /\ Len(todo) \in Nat \ {0} /\ DOMAIN todo = 1..Len(todo)
        /\ Len(tasks) \in Nat /\ DOMAIN tasks = 1..Len(tasks)
        /\ DOMAIN todo' = 1..Len(tasks) + Len(todo) - 1
        /\ \A k \in DOMAIN tasks : k \in DOMAIN todo' /\ todo'[k] = tasks[k]
        /\ \A k \in 2..Len(todo) : /\ k + Len(tasks) - 1 \in DOMAIN todo'
                                   /\ todo'[k + Len(tasks) - 1] = todo[k]
        /\ \A k \in DOMAIN todo' :
               \/ k \in DOMAIN tasks
               \/ k - Len(tasks) + 1 \in 2..Len(todo) /\ todo'[k] = todo[k - Len(tasks) + 1]
        /\ Live = DOMAIN maps /\ Live' = DOMAIN maps'
    BY ExpandFacts
  <1>2. ASSUME NEW k \in DOMAIN todo, k # 1
        PROVE  k + Len(tasks) - 1 \in DOMAIN todo' /\ todo'[k + Len(tasks) - 1] = todo[k]
    <2>1. k \in 2..Len(todo)
      BY <1>1, <1>2
    <2>. QED BY <1>1, <2>1
  <1>3. ASSUME NEW m \in DOMAIN maps', NEW i \in DOMAIN maps'[m].code, IsJump(maps'[m].code[i])
        PROVE  \/ LandsAhead(maps'[m].code, i)
               \/ \E k \in DOMAIN todo' : todo'[k].in = m /\ Owes(todo'[k], maps'[m].code[i].arg)
    <2>1. m \in DOMAIN maps /\ maps'[m].code = maps[m].code
      <3>1. maps'[m].code # <<>>
        BY <1>3
      <3>. QED BY <3>1 DEF Expands, SameCode
    <2>2. \/ LandsAhead(maps[m].code, i)
          \/ \E k \in DOMAIN todo : todo[k].in = m /\ Owes(todo[k], maps[m].code[i].arg)
      BY <1>1, <1>3, <2>1 DEF JumpsOK
    <2>3. CASE LandsAhead(maps[m].code, i)
      BY <2>1, <2>3
    <2>4. ASSUME NEW k \in DOMAIN todo, todo[k].in = m, Owes(todo[k], maps[m].code[i].arg)
          PROVE  \E j \in DOMAIN todo' : todo'[j].in = m /\ Owes(todo'[j], maps'[m].code[i].arg)
      <3>1. k # 1
        BY <1>1, <2>4 DEF Owes, Expands
      <3>. QED BY <1>2, <2>1, <2>4, <3>1
    <2>. QED BY <2>2, <2>3, <2>4
  <1>4. ASSUME NEW k \in DOMAIN todo', todo'[k].do = "emit", IsJump(todo'[k].what)
        PROVE  \E j \in DOMAIN todo' : /\ j > k /\ todo'[j].in = todo'[k].in
                                       /\ Owes(todo'[j], todo'[k].what.arg)
    <2>1. CASE k \in DOMAIN tasks
      <3>1. PICK j \in DOMAIN tasks : j > k /\ tasks[j].in = tasks[k].in /\ Owes(tasks[j], tasks[k].what.arg)
        BY <1>1, <1>4, <2>1 DEF Expands, JumpsForth
      <3>. QED BY <1>1, <2>1, <3>1
    <2>2. CASE k \notin DOMAIN tasks
      <3>1. PICK q \in DOMAIN todo : q = k - Len(tasks) + 1 /\ q # 1 /\ todo'[k] = todo[q]
        BY <1>1, <2>2
      <3>2. PICK j \in DOMAIN todo : j > q /\ todo[j].in = todo[q].in /\ Owes(todo[j], todo[q].what.arg)
        BY <1>4, <3>1 DEF JumpsOK
      <3>3. j # 1 /\ j + Len(tasks) - 1 > k
        BY <1>1, <3>1, <3>2
      <3>. QED BY <1>2, <3>1, <3>2, <3>3
    <2>. QED BY <2>1, <2>2
  <1>. QED BY <1>1, <1>3, <1>4 DEF JumpsOK

(* The invariant is kept by a step that puts tasks in the place of one.      *)
LEMMA ExpandKeeps ==
  ASSUME CompilationInv, NEW tasks, Expands(tasks)
  PROVE  CompilationInv'
  <1>1. StateOK'
    <2>1. todo' \in Seq(Tasks)
      BY ExpandFacts DEF CompilationInv
    <2>. QED BY <2>1 DEF CompilationInv, StateOK, Expands
  <1>2. MapsOK' /\ Reached' /\ TodoOK'
    BY ExpandBalances DEF CompilationInv
  <1>3. PlacedOK' /\ OwedOK'
    BY ExpandMarks DEF CompilationInv
  <1>4. JumpsOK'
    BY ExpandJumps DEF CompilationInv
  <1>5. HeadsOK' /\ LinkedOK' /\ CodeVerifies'
    BY DEF LinkedOK, CodeVerifies, Expands
  <1>. QED BY <1>1, <1>2, <1>3, <1>4, <1>5 DEF CompilationInv
-----------------------------------------------------------------------------
(* Steps that write nothing and name nothing.                                *)

LEMMA PartsShape ==
  ASSUME StateOK, NEW tasks, NEW well \in BOOLEAN, task.in \in DOMAIN maps, Parts(tasks, well)
  PROVE  /\ maps' \in Seq(MapRecords) /\ DOMAIN maps' = DOMAIN maps /\ Len(maps') = Len(maps)
         /\ \A m \in DOMAIN maps : SameCode(m) /\ maps'[m].counter = maps[m].counter
         /\ maps'[task.in].sound = (maps[task.in].sound /\ well)
         /\ \A m \in DOMAIN maps : maps'[m].sound => maps[m].sound
         /\ \A m \in DOMAIN maps : m # task.in => maps'[m] = maps[m]
  <1> DEFINE new == [maps[task.in] EXCEPT !.sound = @ /\ well]
  <1>1. maps[task.in] \in MapRecords /\ maps \in Seq(MapRecords)
    BY DEF StateOK
  <1>2. maps' = [maps EXCEPT ![task.in] = new]
    BY DEF Parts
  <1>3. /\ new \in MapRecords /\ new.code = maps[task.in].code /\ new.depth = maps[task.in].depth
        /\ new.counter = maps[task.in].counter /\ new.sound = (maps[task.in].sound /\ well)
    BY <1>1, Zenon DEF MapRecords
  <1> HIDE DEF new
  <1>4. /\ maps' \in Seq(MapRecords) /\ DOMAIN maps' = DOMAIN maps /\ Len(maps') = Len(maps)
        /\ maps'[task.in] = new
        /\ \A m \in DOMAIN maps : m # task.in => maps'[m] = maps[m]
    BY <1>1, <1>2, <1>3
  <1>5. \A m \in DOMAIN maps : SameCode(m) /\ maps'[m].counter = maps[m].counter
    BY <1>3, <1>4 DEF SameCode
  <1>. QED BY <1>3, <1>4, <1>5

LEMMA PartsKeep ==
  ASSUME CompilationInv, mode' = "prompt", stage = "compiling", todo # <<>>, task.do # "emit",
         NEW tasks \in Seq(Tasks), NEW well \in BOOLEAN, Parts(tasks, well),
         UNCHANGED <<table, session>>,
         labels' \in Nat, labels <= labels',
         owner' \in Seq(Nat), Len(owner') = labels', \A l \in 1..labels : owner'[l] = owner[l],
         NewMarks(tasks), JumpsForth(tasks),
         \A k \in 1..Len(tasks) : TaskOK(tasks[k])',
         \A k \in 1..Len(tasks) - 1 : Follows(tasks[k], tasks[k + 1])',
         tasks # <<>> => /\ Hands_over(tasks[Len(tasks)], maps'[task.in].sound)
                         /\ tasks[1].in = task.in /\ tasks[1].base <= task.base,
         tasks = <<>> => task.do \notin Pushers \/ ~well
  PROVE  CompilationInv'
  <1>1. task.in \in DOMAIN maps
    BY AtTask DEF CompilationInv
  <1>2. /\ maps' \in Seq(MapRecords) /\ DOMAIN maps' = DOMAIN maps /\ Len(maps') = Len(maps)
        /\ \A m \in DOMAIN maps : SameCode(m)
        /\ maps'[task.in].sound = (maps[task.in].sound /\ well)
        /\ \A m \in DOMAIN maps : maps'[m].sound => maps[m].sound
    BY <1>1, PartsShape DEF CompilationInv
  <1>3. UNCHANGED <<shell_env, stage, linked, trusted, refs, pool, functions>>
    BY DEF table, session
  <1>4. HeadsOK'
    <2>1. labels \in Nat /\ HeadsOK
      BY DEF CompilationInv, StateOK
    <2>2. \A l \in 0..labels - 1 : l \in 0..labels' - 1 /\ l + 1 \in 1..labels
      BY <2>1, Below
    <2>. QED BY <1>3, <2>1, <2>2 DEF HeadsOK
  <1>5. /\ functions' \in Seq([name : STRING, reference : Nat]) /\ Len(maps') = Len(functions') + 1
        /\ \A k \in DOMAIN functions : k \in DOMAIN functions' /\ functions'[k] = functions[k]
    BY <1>2, <1>3 DEF CompilationInv, StateOK
  <1>6. Then(tasks)
    BY DEF Parts
  <1>7. tasks = <<>> => task.do \notin Pushers \/ ~maps'[task.in].sound
    BY <1>2
  <1>8. tasks # <<>> => /\ Hands_over(tasks[Len(tasks)], maps'[task.in].sound)
                        /\ \/ tasks[1].base = 0
                           \/ tasks[1].in = task.in /\ tasks[1].base <= task.base /\ SameCode(task.in)
    BY <1>1, <1>2
  <1>9. Expands(tasks)
    BY <1>2, <1>3, <1>4, <1>5, <1>6, <1>7, <1>8 DEF Expands
  <1>. QED BY <1>9, ExpandKeeps

\* For tasks without labels and jumps.
Unmarked(tasks) == \A k \in DOMAIN tasks :
    tasks[k].do = "emit" => tasks[k].what.op \notin {"LBL", "LBLJMP", "LBLJMPIF"}

LEMMA UnmarkedPartsKeep ==
  ASSUME CompilationInv, mode' = "prompt", stage = "compiling", todo # <<>>, task.do # "emit",
         NEW tasks \in Seq(Tasks), NEW well \in BOOLEAN, Parts(tasks, well),
         UNCHANGED <<table, session, counters>>, Unmarked(tasks),
         \A k \in 1..Len(tasks) : TaskOK(tasks[k])',
         \A k \in 1..Len(tasks) - 1 : Follows(tasks[k], tasks[k + 1])',
         tasks # <<>> => /\ Hands_over(tasks[Len(tasks)], maps'[task.in].sound)
                         /\ tasks[1].in = task.in /\ tasks[1].base <= task.base,
         tasks = <<>> => task.do \notin Pushers \/ ~well
  PROVE  CompilationInv'
  <1>1. /\ labels' \in Nat /\ labels <= labels'
        /\ owner' \in Seq(Nat) /\ Len(owner') = labels' /\ \A l \in 1..labels : owner'[l] = owner[l]
    BY DEF CompilationInv, StateOK, counters
  <1>2. NewMarks(tasks)
    BY DEF NewMarks, Unmarked, Owes, IsLabel
  <1>3. JumpsForth(tasks)
    BY DEF JumpsForth, Unmarked, IsJump
  <1>4. UNCHANGED <<table, session>>
    OBVIOUS
  <1>. QED BY <1>1, <1>2, <1>3, <1>4, PartsKeep

(* A step after which nothing is executed that was not executed before.      *)
LEMMA StandingStill ==
  ASSUME CompilationInv,
         UNCHANGED <<maps, table, counters, todo, shell_env, stage, linked, trusted>>,
         mode' = "executing" => mode = "executing" /\ prog' = prog
  PROVE  CompilationInv'
  <1>1. UNCHANGED <<maps, functions, refs, pool, labels, owner, todo, shell_env, stage, linked, trusted>>
    BY DEF table, counters
  <1>2. StateOK'
    BY <1>1 DEF CompilationInv, StateOK
  <1>3. TodoOK' /\ Reached'
    BY <1>1 DEF CompilationInv, TodoOK, TaskOK, Follows, Written, Reached, task
  <1>4. MapsOK'
    BY <1>1 DEF CompilationInv, MapsOK, Live, Written
  <1>5. PlacedOK' /\ HeadsOK' /\ OwedOK'
    BY <1>1 DEF CompilationInv, PlacedOK, HeadsOK, OwedOK, Live, Belongs
  <1>6. JumpsOK' /\ LinkedOK'
    BY <1>1 DEF CompilationInv, JumpsOK, LinkedOK, Live
  <1>7. CodeVerifies'
    BY <1>1 DEF CompilationInv, CodeVerifies, CellsSuffice
  <1>. QED BY <1>2, <1>3, <1>4, <1>5, <1>6, <1>7 DEF CompilationInv

\* What every step of the compiler is taken at, and leaves as it is.
Stepping == mode = "prompt" /\ stage = "compiling" /\ todo # <<>> /\ UNCHANGED session

LEMMA ThrowKeeps ==
  ASSUME CompilationInv, Stepping, task.do # "emit", ss_throw
  PROVE  CompilationInv'
  <1>1. CASE shell_env /\ Parts(<<>>, FALSE) /\ UNCHANGED <<table, counters, machineVars>>
    <2>1. PICK tasks : tasks = <<>>
      OBVIOUS
    <2>2. PICK well \in BOOLEAN : well = FALSE
      OBVIOUS
    <2>5. Parts(tasks, well)
      BY <1>1, <2>1, <2>2, Zenon
    <2>6. <<>> \in Seq(Tasks) /\ Len(<<>>) = 0 /\ DOMAIN <<>> = {}
      OBVIOUS
    <2>3. /\ tasks \in Seq(Tasks) /\ Unmarked(tasks)
          /\ 1..Len(tasks) = {} /\ 1..Len(tasks) - 1 = {}
      BY <2>1, <2>6 DEF Unmarked
    <2>4. mode' = "prompt" /\ stage = "compiling" /\ todo # <<>> /\ UNCHANGED <<table, session, counters>>
      BY <1>1 DEF Stepping, machineVars
    <2>. QED BY <1>1, <2>1, <2>2, <2>3, <2>4, <2>5, UnmarkedPartsKeep
  <1>2. CASE UNCHANGED <<maps, table, counters, err, todo>> /\ mode' = "closed"
    <2>1. UNCHANGED <<maps, table, counters, todo, shell_env, stage, linked, trusted>>
      BY <1>2 DEF Stepping, session
    <2>. QED BY <1>2, <2>1, StandingStill
  <1>. QED BY <1>1, <1>2 DEF ss_throw
-----------------------------------------------------------------------------
(* The steps that put one or two tasks in the place of one.                  *)

Quietly == Stepping /\ mode' = "prompt" /\ UNCHANGED <<table, counters>> /\ task.do # "emit"

LEMMA PartsTask ==
  ASSUME CompilationInv, Stepping, NEW tasks, NEW well \in BOOLEAN, Parts(tasks, well)
  PROVE  /\ task.in \in DOMAIN maps /\ task.in \in DOMAIN maps' /\ task.in \in Nat /\ task.base \in Nat
         /\ task \in Tasks /\ TaskOK(task)
         /\ maps'[task.in].sound = (maps[task.in].sound /\ well)
  <1>1. task.in \in DOMAIN maps /\ task \in Tasks /\ TaskOK(task) /\ task.base \in Nat
    BY AtTask DEF CompilationInv, Stepping
  <1>2. DOMAIN maps' = DOMAIN maps /\ maps'[task.in].sound = (maps[task.in].sound /\ well)
    BY <1>1, PartsShape DEF CompilationInv
  <1>. QED BY <1>1, <1>2 DEF Tasks

Unmarking(t) == t.do = "emit" => t.what.op \notin {"LBL", "LBLJMP", "LBLJMPIF"}

LEMMA OneTaskKeeps ==
  ASSUME CompilationInv, Quietly, NEW well \in BOOLEAN, NEW t \in Tasks, Parts(<<t>>, well),
         t.in = task.in, t.base <= task.base, TaskOK(t)', Unmarking(t),
         Hands_over(t, maps'[task.in].sound)
  PROVE  CompilationInv'
  <1>1. PICK tasks : tasks = <<t>>
    OBVIOUS
  <1>2. /\ tasks \in Seq(Tasks) /\ Len(tasks) = 1 /\ tasks # <<>> /\ DOMAIN tasks = {1} /\ tasks[1] = t
        /\ tasks[Len(tasks)] = t
        /\ 1..Len(tasks) = {1} /\ 1..Len(tasks) - 1 = {}
    BY <1>1
  <1>3. Parts(tasks, well)
    BY <1>1, Zenon
  <1>4. Unmarked(tasks)
    BY <1>2 DEF Unmarked, Unmarking
  <1>5. ASSUME NEW k \in 1..Len(tasks)
        PROVE  TaskOK(tasks[k])'
    <2>1. tasks[k] = t
      BY <1>2
    <2>. QED BY <2>1 DEF TaskOK
  <1>6. tasks # <<>> => /\ Hands_over(tasks[Len(tasks)], maps'[task.in].sound)
                        /\ tasks[1].in = task.in /\ tasks[1].base <= task.base
    BY <1>2
  <1>7. /\ mode' = "prompt" /\ stage = "compiling" /\ todo # <<>> /\ task.do # "emit"
        /\ UNCHANGED <<table, session, counters>>
    BY DEF Quietly, Stepping
  <1>. QED BY <1>2, <1>3, <1>4, <1>5, <1>6, <1>7, UnmarkedPartsKeep

LEMMA TwoTasksKeep ==
  ASSUME CompilationInv, Quietly, NEW well \in BOOLEAN, NEW t \in Tasks, NEW u \in Tasks, Parts(<<t, u>>, well),
         t.in = task.in, t.base <= task.base, TaskOK(t)', Unmarking(t),
         TaskOK(u)', Unmarking(u), Follows(t, u)',
         Hands_over(u, maps'[task.in].sound)
  PROVE  CompilationInv'
  <1>1. PICK tasks : tasks = <<t, u>>
    OBVIOUS
  <1>2. /\ tasks \in Seq(Tasks) /\ Len(tasks) = 2 /\ tasks # <<>> /\ DOMAIN tasks = {1, 2}
        /\ tasks[1] = t /\ tasks[2] = u /\ tasks[1 + 1] = u /\ tasks[Len(tasks)] = u
        /\ 1..Len(tasks) = {1, 2} /\ 1..Len(tasks) - 1 = {1}
    BY <1>1
  <1>3. Parts(tasks, well)
    BY <1>1, Zenon
  <1>4. Unmarked(tasks)
    BY <1>2 DEF Unmarked, Unmarking
  <1>5. ASSUME NEW k \in 1..Len(tasks)
        PROVE  TaskOK(tasks[k])'
    <2>1. tasks[k] = t \/ tasks[k] = u
      BY <1>2
    <2>. QED BY <2>1 DEF TaskOK
  <1>6. ASSUME NEW k \in 1..Len(tasks) - 1
        PROVE  Follows(tasks[k], tasks[k + 1])'
    <2>1. tasks[k] = t /\ tasks[k + 1] = u
      BY <1>2
    <2>. QED BY <2>1 DEF Follows
  <1>7. tasks # <<>> => /\ Hands_over(tasks[Len(tasks)], maps'[task.in].sound)
                        /\ tasks[1].in = task.in /\ tasks[1].base <= task.base
    BY <1>2
  <1>8. /\ mode' = "prompt" /\ stage = "compiling" /\ todo # <<>> /\ task.do # "emit"
        /\ UNCHANGED <<table, session, counters>>
    BY DEF Quietly, Stepping
  <1>. QED BY <1>2, <1>3, <1>4, <1>5, <1>6, <1>7, <1>8, UnmarkedPartsKeep

LEMMA NoTaskKeeps ==
  ASSUME CompilationInv, Quietly, NEW well \in BOOLEAN, Parts(<<>>, well),
         task.do \notin Pushers \/ ~well
  PROVE  CompilationInv'
  <1>1. PICK tasks : tasks = <<>>
    OBVIOUS
  <1>2. <<>> \in Seq(Tasks) /\ Len(<<>>) = 0 /\ DOMAIN <<>> = {}
    OBVIOUS
  <1>3. /\ tasks \in Seq(Tasks) /\ Unmarked(tasks)
        /\ 1..Len(tasks) = {} /\ 1..Len(tasks) - 1 = {}
    BY <1>1, <1>2 DEF Unmarked
  <1>4. Parts(tasks, well)
    BY <1>1, Zenon
  <1>5. /\ mode' = "prompt" /\ stage = "compiling" /\ todo # <<>> /\ task.do # "emit"
        /\ UNCHANGED <<table, session, counters>>
    BY DEF Quietly, Stepping
  <1>. QED BY <1>1, <1>3, <1>4, <1>5, UnmarkedPartsKeep

LEMMA StatementTasks ==
  ASSUME NEW m \in Nat, NEW b \in Nat
  PROVE  /\ \A e \in Expressions : ValueOf(e, m, b) \in Tasks
         /\ \A t \in Terms : Task("term", m, b, t) \in Tasks
         /\ \A name \in STRING : Task("declare", m, b, name) \in Tasks /\ Task("call", m, b, name) \in Tasks
         /\ \A s \in Statements : Task("statement", m, b, s) \in Tasks
         /\ \A s \in Scopes : Task("objects", m, b, s) \in Tasks /\ Task("scope", m, b, s) \in Tasks
         /\ \A c \in Seq(Clauses) : Task("if", m, b, c) \in Tasks
         /\ \A i \in Assembled : Task("emit", m, b, i) \in Tasks
  BY DEF ValueOf, Task, Tasks, Kinds, Pieces

LEMMA CompileStatementKeeps ==
  ASSUME CompilationInv, compile_statement, UNCHANGED session
  PROVE  CompilationInv'
  <1>1. Quietly /\ Stepping /\ task.do = "objects"
    BY DEF compile_statement, Doing, Quietly, Stepping, NoNames, machineVars
  <1>2. CASE task.what = <<>> /\ Parts(<<>>, TRUE)
    <2>1. PICK well \in BOOLEAN : well = TRUE
      OBVIOUS
    <2>2. Parts(<<>>, well)
      BY <1>2, <2>1, Zenon
    <2>. QED BY <1>1, <2>2, NoTaskKeeps DEF Pushers
  <1>3. CASE /\ task.what # <<>>
             /\ Parts(<<Task("statement", task.in, 0, Head(task.what)),
                        Task("objects", task.in, 0, Tail(task.what))>>, TRUE)
    <2>1. PICK well \in BOOLEAN : well = TRUE
      OBVIOUS
    <2>2. PICK t, u : /\ t = Task("statement", task.in, 0, Head(task.what))
                      /\ u = Task("objects", task.in, 0, Tail(task.what))
      OBVIOUS
    <2>3. Parts(<<t, u>>, well)
      BY <1>3, <2>1, <2>2, Zenon
    <2>4. task.in \in Nat /\ task.in \in DOMAIN maps' /\ TaskOK(task) /\ task.base \in Nat
      BY <1>1, <2>3, PartsTask
    <2>5. Head(task.what) \in Statements /\ Tail(task.what) \in Scopes
      BY <1>1, <1>3, <2>4 DEF TaskOK, Scopes
    <2>6. t \in Tasks /\ u \in Tasks
      BY <2>2, <2>4, <2>5, StatementTasks
    <2>7. TaskOK(t)' /\ Unmarking(t) /\ t.in = task.in /\ t.base <= task.base
      BY <2>2, <2>4, <2>5 DEF TaskOK, Task, Unmarking
    <2>8. TaskOK(u)' /\ Unmarking(u) /\ Follows(t, u)'
      BY <2>2, <2>4, <2>5 DEF TaskOK, Task, Unmarking, Follows
    <2>9. Hands_over(u, maps'[task.in].sound)
      BY <1>1 DEF Hands_over, Pushers
    <2>. QED BY <1>1, <2>3, <2>6, <2>7, <2>8, <2>9, TwoTasksKeep
  <1>. QED BY <1>2, <1>3 DEF compile_statement

LEMMA PushVariableKeeps ==
  ASSUME CompilationInv, push_variable, UNCHANGED session
  PROVE  CompilationInv'
  <1>1. Quietly /\ Stepping /\ task.do = "statement" /\ task.what.type = "VARIABLE"
    BY DEF push_variable, Stating, Doing, Quietly, Stepping, NoNames, machineVars
  <1>2. PICK well \in BOOLEAN : well = TRUE
    OBVIOUS
  <1>3. PICK t, u : /\ t = IF task.what.initialized THEN ValueOf(task.what.states, task.in, 0)
                                                    ELSE Emission(task.in, 0, "LOADBOOL", 0)
                    /\ u = Task("declare", task.in, 1, task.what.name)
    OBVIOUS
  <1>4. Parts(<<t, u>>, well)
    <2>1. Parts(<<IF task.what.initialized THEN ValueOf(task.what.states, task.in, 0)
                                           ELSE Emission(task.in, 0, "LOADBOOL", 0),
                  Task("declare", task.in, 1, task.what.name)>>, TRUE)
      BY DEF push_variable
    <2>. QED BY <1>2, <1>3, <2>1, Zenon
  <1>5. task.in \in Nat /\ task.in \in DOMAIN maps' /\ TaskOK(task) /\ task.base \in Nat
    BY <1>1, <1>4, PartsTask
  <1>6. task.what.states \in Expressions /\ task.what.name \in STRING
    BY <1>1, <1>5, StatementsAssumption DEF TaskOK
  <1>7. u \in Tasks /\ TaskOK(u)' /\ Unmarking(u)
    <2>1. u \in Tasks
      BY <1>3, <1>5, <1>6, StatementTasks
    <2>. QED BY <1>3, <1>5, <1>6, <2>1 DEF TaskOK, Task, Unmarking
  <1>8. t \in Tasks /\ TaskOK(t)' /\ Unmarking(t) /\ t.in = task.in /\ t.base <= task.base /\ Follows(t, u)'
    <2>1. CASE t = ValueOf(task.what.states, task.in, 0)
      <3>1. t \in Tasks
        BY <1>5, <1>6, <2>1, StatementTasks
      <3>2. After(t) = 1 /\ u.base = 1 /\ u.in = task.in /\ t.do \in Pushers /\ t.in = task.in
        BY <1>3, <2>1 DEF After, ValueOf, Task, Pushers
      <3>. QED BY <1>5, <1>6, <2>1, <3>1, <3>2 DEF TaskOK, ValueOf, Task, Unmarking, Follows
    <2>2. CASE t = Emission(task.in, 0, "LOADBOOL", 0)
      <3>1. /\ t \in Tasks /\ t.do = "emit" /\ t.base = 0 /\ t.in = task.in
            /\ t.what.op = "LOADBOOL" /\ t.what \in Assembled
        BY <1>5, <2>2 DEF Task, Emission, Instruction, Assembled, Opcodes, Tasks, Kinds, Pieces
      <3>2. After(t) = 1 /\ u.base = 1 /\ u.in = task.in /\ t.do \in Pushers
        BY <1>3, <3>1 DEF After, Growth, Task, Pushers
      <3>3. Operands(t.what) = 0
        BY <3>1 DEF Operands
      <3>4. Written(t.what)'
        BY <3>1 DEF Written, WrittenOps
      <3>6. TaskOK(t)'
        BY <1>5, <3>1, <3>3, <3>4 DEF TaskOK
      <3>. QED BY <1>5, <3>1, <3>2, <3>6 DEF Unmarking, Follows
    <2>. QED BY <1>3, <2>1, <2>2
  <1>9. Hands_over(u, maps'[task.in].sound)
    BY <1>1 DEF Hands_over, Pushers
  <1>. QED BY <1>1, <1>4, <1>7, <1>8, <1>9, TwoTasksKeep

LEMMA PushReassignmentKeeps ==
  ASSUME CompilationInv, push_reassignment, UNCHANGED session
  PROVE  CompilationInv'
  <1>1. Stepping /\ task.do = "statement" /\ task.what.type = "REASSIGN"
    BY DEF push_reassignment, Stating, Doing, Stepping
  <1>2. ASSUME NEW i \in DOMAIN refs, NoNames,
               Parts(<<ValueOf(task.what.states, task.in, 0),
                       Emission(task.in, 1, "STORE", refs[i].ref)>>, TRUE)
        PROVE  CompilationInv'
    <2>1. PICK well \in BOOLEAN : well = TRUE
      OBVIOUS
    <2>2. PICK t, u : /\ t = ValueOf(task.what.states, task.in, 0)
                      /\ u = Emission(task.in, 1, "STORE", refs[i].ref)
      OBVIOUS
    <2>3. Quietly
      BY <1>1, <1>2 DEF Quietly, Stepping, NoNames, machineVars
    <2>4. Parts(<<t, u>>, well)
      BY <1>2, <2>1, <2>2, Zenon
    <2>5. task.in \in Nat /\ task.in \in DOMAIN maps' /\ TaskOK(task) /\ task.base \in Nat
      BY <1>1, <2>4, PartsTask
    <2>6. task.what.states \in Expressions
      BY <1>1, <2>5, StatementsAssumption DEF TaskOK
    <2>7. t \in Tasks /\ TaskOK(t)' /\ Unmarking(t) /\ t.in = task.in /\ t.base <= task.base
      <3>1. t \in Tasks
        BY <2>2, <2>5, <2>6, StatementTasks
      <3>. QED BY <2>2, <2>5, <2>6, <3>1 DEF TaskOK, ValueOf, Task, Unmarking
    <2>8. u \in Tasks /\ TaskOK(u)' /\ Unmarking(u) /\ u.base = 1 /\ u.in = task.in
      <3>1. refs' = refs /\ refs[i].ref \in Int
        <4>1. refs \in Seq([name : STRING, ref : Nat])
          BY DEF CompilationInv, StateOK
        <4>2. refs[i] \in [name : STRING, ref : Nat]
          BY <4>1, Entry
        <4>. QED BY <2>3, <4>2 DEF Quietly, table
      <3>2. PICK arg \in Int : arg = refs[i].ref
        BY <3>1
      <3>3. /\ u \in Tasks /\ u.do = "emit" /\ u.base = 1 /\ u.in = task.in /\ u.what \in Assembled
            /\ u.what.op = "STORE" /\ u.what.arg = refs[i].ref
        BY <2>2, <2>5, <3>2 DEF Task, Emission, Instruction, Assembled, Opcodes, Tasks, Kinds, Pieces
      <3>4. Operands(u.what) = 1
        BY <3>3 DEF Operands
      <3>5. Written(u.what)'
        BY <3>1, <3>3 DEF Written, WrittenOps
      <3>6. TaskOK(u)'
        BY <2>5, <3>3, <3>4, <3>5 DEF TaskOK
      <3>. QED BY <3>3, <3>6 DEF Unmarking
    <2>9. Follows(t, u)'
      <3>1. After(t) = 1 /\ t.do \in Pushers /\ t.in = task.in
        BY <2>2 DEF After, ValueOf, Task, Pushers
      <3>. QED BY <2>8, <3>1 DEF Follows
    <2>10. Hands_over(u, maps'[task.in].sound)
      BY <1>1 DEF Hands_over, Pushers
    <2>. QED BY <2>3, <2>4, <2>7, <2>8, <2>9, <2>10, TwoTasksKeep
  <1>3. CASE ss_throw
    BY <1>1, <1>3, ThrowKeeps
  <1>. QED BY <1>2, <1>3 DEF push_reassignment

LEMMA ReturnStatementKeeps ==
  ASSUME CompilationInv, return_statement, UNCHANGED session
  PROVE  CompilationInv'
  <1>1. Quietly /\ Stepping /\ task.do = "statement" /\ task.what.type = "RETURN"
    BY DEF return_statement, Stating, Doing, Quietly, Stepping, NoNames, machineVars
  <1>2. PICK well \in BOOLEAN : well = TRUE
    OBVIOUS
  <1>3. PICK t : t = ValueOf(task.what.states, task.in, 0)
    OBVIOUS
  <1>4. Parts(<<t>>, well)
    BY <1>2, <1>3, Zenon DEF return_statement
  <1>5. task.in \in Nat /\ task.in \in DOMAIN maps' /\ TaskOK(task) /\ task.base \in Nat
    BY <1>1, <1>4, PartsTask
  <1>6. task.what.states \in Expressions
    BY <1>1, <1>5, StatementsAssumption DEF TaskOK
  <1>7. t \in Tasks /\ TaskOK(t)' /\ Unmarking(t) /\ t.in = task.in /\ t.base <= task.base
    <2>1. t \in Tasks
      BY <1>3, <1>5, <1>6, StatementTasks
    <2>. QED BY <1>3, <1>5, <1>6, <2>1 DEF TaskOK, ValueOf, Task, Unmarking
  <1>8. Hands_over(t, maps'[task.in].sound)
    BY <1>1 DEF Hands_over, Pushers
  <1>. QED BY <1>1, <1>4, <1>7, <1>8, OneTaskKeeps

LEMMA IfStatementKeeps ==
  ASSUME CompilationInv, if_statement, UNCHANGED session
  PROVE  CompilationInv'
  <1>1. Quietly /\ Stepping /\ task.do = "statement" /\ task.what.type = "IFSTATEMENT"
    BY DEF if_statement, Stating, Doing, Quietly, Stepping, NoNames, machineVars
  <1>2. PICK well \in BOOLEAN : well = TRUE
    OBVIOUS
  <1>3. PICK t : t = Task("if", task.in, 0, task.what.clauses)
    OBVIOUS
  <1>4. Parts(<<t>>, well)
    BY <1>2, <1>3, Zenon DEF if_statement
  <1>5. task.in \in Nat /\ task.in \in DOMAIN maps' /\ TaskOK(task) /\ task.base \in Nat
    BY <1>1, <1>4, PartsTask
  <1>6. task.what.clauses \in Seq(Clauses) /\ task.what.clauses # <<>>
    BY <1>1, <1>5, StatementsAssumption DEF TaskOK
  <1>7. t \in Tasks /\ TaskOK(t)' /\ Unmarking(t) /\ t.in = task.in /\ t.base <= task.base
    <2>1. t \in Tasks
      BY <1>3, <1>5, <1>6, StatementTasks
    <2>. QED BY <1>3, <1>5, <1>6, <2>1 DEF TaskOK, Task, Unmarking
  <1>8. Hands_over(t, maps'[task.in].sound)
    BY <1>1 DEF Hands_over, Pushers
  <1>. QED BY <1>1, <1>4, <1>7, <1>8, OneTaskKeeps

LEMMA OperationFacts ==
  ASSUME NEW op \in MeantOps
  PROVE  /\ Operation(op) \in Seq(Assembled)
         /\ Len(Operation(op)) \in {1, 2}
         /\ \A i \in DOMAIN Operation(op) :
               /\ Operation(op)[i].op \in {"ADD", "SUB", "MUL", "DIV", "GT", "LT", "EQ", "NOT"}
               /\ Operands(Operation(op)[i]) <= 2
               /\ Growth(Operation(op)[i]) \in {-1, 1}
         /\ Len(Operation(op)) = 2 => Growth(Operation(op)[1]) = 1
  <1>1. PICK code : code = Operation(op)
    OBVIOUS
  <1>2. ASSUME NEW name \in {"ADD", "SUB", "MUL", "DIV", "GT", "LT", "EQ", "NOT"}, NEW i, i = Instruction(name, 0)
        PROVE  i \in Assembled /\ i.op = name /\ Operands(i) <= 2 /\ Growth(i) \in {-1, 1} /\ (name = "EQ" => Growth(i) = 1)
    <2>1. i \in Assembled /\ i.op = name /\ i.arg = 0
      BY <1>2 DEF Instruction, Assembled, Opcodes
    <2>. QED BY <2>1 DEF Operands, Growth
  <1>3. CASE \E name \in {"ADD", "SUB", "MUL", "DIV", "GT", "LT", "EQ", "NOT"} : code = <<Instruction(name, 0)>>
    <2>0. PICK name \in {"ADD", "SUB", "MUL", "DIV", "GT", "LT", "EQ", "NOT"} : code = <<Instruction(name, 0)>>
      BY <1>3
    <2>1. PICK i : i = Instruction(name, 0) /\ code = <<i>>
      BY <2>0
    <2>2. i \in Assembled /\ i.op = name /\ Operands(i) <= 2 /\ Growth(i) \in {-1, 1}
      BY <1>2, <2>1
    <2>3. code \in Seq(Assembled) /\ Len(code) = 1 /\ DOMAIN code = {1} /\ code[1] = i
      BY <2>1, <2>2
    <2>. QED BY <1>1, <2>2, <2>3
  <1>4. CASE code = <<Instruction("EQ", 0), Instruction("NOT", 0)>>
    <2>1. PICK i, j : i = Instruction("EQ", 0) /\ j = Instruction("NOT", 0)
      OBVIOUS
    <2>2. /\ i \in Assembled /\ i.op = "EQ" /\ Operands(i) <= 2 /\ Growth(i) = 1
          /\ j \in Assembled /\ j.op = "NOT" /\ Operands(j) <= 2 /\ Growth(j) \in {-1, 1}
      BY <1>2, <2>1
    <2>3. code \in Seq(Assembled) /\ Len(code) = 2 /\ DOMAIN code = {1, 2} /\ code[1] = i /\ code[2] = j
      BY <1>4, <2>1, <2>2
    <2>. QED BY <1>1, <2>2, <2>3
  <1>5. \/ \E name \in {"ADD", "SUB", "MUL", "DIV", "GT", "LT", "EQ", "NOT"} : code = <<Instruction(name, 0)>>
        \/ code = <<Instruction("EQ", 0), Instruction("NOT", 0)>>
    BY <1>1 DEF Operation, MeantOps
  <1>. QED BY <1>3, <1>4, <1>5

LEMMA PushOperationKeeps ==
  ASSUME CompilationInv, Quietly, task.do = "value", NEW e \in Expressions, e = task.what,
         Len(e) = 3, e[2].type = "OPERATOR",
         Parts(<<Task("term", task.in, task.base, e[1]), Task("term", task.in, task.base + 1, e[3])>>
                  \o [i \in DOMAIN Operation(e[2].value) |->
                        Task("emit", task.in, task.base + 2, Operation(e[2].value)[i])], TRUE)
  PROVE  CompilationInv'
  <1>1. PICK code, m, b : code = Operation(e[2].value) /\ m = task.in /\ b = task.base
    OBVIOUS
  <1>2. e[1] \in Terms /\ e[2] \in Terms /\ e[3] \in Terms
    BY DEF Expressions
  <1>3. /\ code \in Seq(Assembled) /\ Len(code) \in {1, 2} /\ DOMAIN code = 1..Len(code)
        /\ \A i \in DOMAIN code :
               /\ code[i] \in Assembled
               /\ code[i].op \in {"ADD", "SUB", "MUL", "DIV", "GT", "LT", "EQ", "NOT"}
               /\ Operands(code[i]) <= 2
               /\ Growth(code[i]) \in {-1, 1}
        /\ Len(code) = 2 => Growth(code[1]) = 1
    <2>1. e[2].value \in MeantOps
      BY <1>2, TermsAssumption
    <2>. QED BY <1>1, <2>1, OperationFacts
  <1>0. PICK well \in BOOLEAN : well = TRUE
    OBVIOUS
  <1>4. PICK t, u, emits, tasks :
           /\ t = Task("term", m, b, e[1]) /\ u = Task("term", m, b + 1, e[3])
           /\ emits = [i \in DOMAIN code |-> Task("emit", m, b + 2, code[i])]
           /\ tasks = <<t, u>> \o emits
    OBVIOUS
  <1>5. Parts(tasks, well)
    BY <1>0, <1>1, <1>4, Zenon
  <1>6. /\ m \in Nat /\ b \in Nat /\ m \in DOMAIN maps' /\ task.base = b /\ task.in = m /\ TaskOK(task)
    BY <1>1, <1>5, PartsTask DEF Quietly
  <1>7. /\ t \in Tasks /\ u \in Tasks
        /\ t.do = "term" /\ t.in = m /\ t.base = b /\ t.what \in Terms
        /\ u.do = "term" /\ u.in = m /\ u.base = b + 1 /\ u.what \in Terms
    <2>1. b + 1 \in Nat
      BY <1>6
    <2>. QED BY <1>2, <1>4, <1>6, <2>1, StatementTasks DEF Task
  <1>8. /\ emits \in Seq(Tasks) /\ Len(emits) = Len(code) /\ DOMAIN emits = 1..Len(code)
        /\ \A i \in 1..Len(code) :
              /\ emits[i] \in Tasks /\ emits[i].do = "emit" /\ emits[i].in = m /\ emits[i].base = b + 2
              /\ emits[i].what = code[i]
    <2>1. ASSUME NEW i \in 1..Len(code)
          PROVE  /\ emits[i] \in Tasks /\ emits[i].do = "emit" /\ emits[i].in = m /\ emits[i].base = b + 2
                 /\ emits[i].what = code[i]
      <3>1. emits[i] = Task("emit", m, b + 2, code[i]) /\ code[i] \in Assembled /\ b + 2 \in Nat
        BY <1>3, <1>4, <1>6
      <3>2. PICK c \in Assembled, base \in Nat : c = code[i] /\ base = b + 2
        BY <3>1
      <3>3. Task("emit", m, base, c) \in Tasks
        BY <1>6, StatementTasks
      <3>. QED BY <3>1, <3>2, <3>3 DEF Task
    <2>2. DOMAIN emits = 1..Len(code) /\ Len(code) \in Nat
      BY <1>3, <1>4
    <2>3. emits \in [1..Len(code) -> Tasks]
      BY <1>3, <1>4, <2>1
    <2>. QED BY <2>1, <2>2, <2>3
  <1>9. /\ tasks \in Seq(Tasks) /\ Len(tasks) = 2 + Len(code) /\ DOMAIN tasks = 1..2 + Len(code)
        /\ tasks[1] = t /\ tasks[2] = u /\ tasks # <<>>
        /\ \A i \in 1..Len(code) : tasks[2 + i] = emits[i]
    <2>1. <<t, u>> \in Seq(Tasks) /\ Len(<<t, u>>) = 2 /\ <<t, u>>[1] = t /\ <<t, u>>[2] = u
      BY <1>7
    <2>2. /\ tasks \in Seq(Tasks) /\ Len(tasks) = 2 + Len(code) /\ DOMAIN tasks = 1..2 + Len(code)
          /\ \A i \in 1..2 : tasks[i] = <<t, u>>[i]
          /\ \A i \in 1..Len(code) : tasks[2 + i] = emits[i]
      BY <1>4, <1>8, <2>1, Joined
    <2>3. tasks # <<>>
      BY <1>3, <2>2
    <2>. QED BY <2>1, <2>2, <2>3
  <1>10. \A k \in DOMAIN tasks : \/ k = 1 /\ tasks[k] = t
                                 \/ k = 2 /\ tasks[k] = u
                                 \/ k - 2 \in 1..Len(code) /\ tasks[k] = emits[k - 2]
    <2>1. ASSUME NEW k \in 3..2 + Len(code)
          PROVE  k - 2 \in 1..Len(code) /\ 2 + (k - 2) = k
      BY <1>3
    <2>2. \A k \in 1..2 + Len(code) : k = 1 \/ k = 2 \/ k \in 3..2 + Len(code)
      BY <1>3
    <2>. QED BY <1>9, <2>1, <2>2
  <1>11. ASSUME NEW k \in DOMAIN tasks
         PROVE  TaskOK(tasks[k])'
    <2>1. CASE tasks[k] = t
      BY <1>6, <1>7, <2>1 DEF TaskOK
    <2>2. CASE tasks[k] = u
      BY <1>6, <1>7, <2>2 DEF TaskOK
    <2>3. CASE k - 2 \in 1..Len(code) /\ tasks[k] = emits[k - 2]
      <3>1. PICK i \in 1..Len(code) : tasks[k] = emits[i]
        BY <2>3
      <3>2. Written(code[i])'
        BY <1>3 DEF Written, WrittenOps
      <3>3. code[i] \in Assembled /\ code[i].op # "LBL" /\ Operands(code[i]) <= b + 2
        <4>1. PICK c \in Assembled : c = code[i]
          BY <1>3
        <4>2. Operands(c) \in Nat /\ Operands(c) <= 2
          BY <1>3, <4>1, GrowthBounds
        <4>3. Operands(c) <= b + 2
          BY <1>6, <4>2
        <4>4. code[i].op # "LBL"
          BY <1>3
        <4>. QED BY <4>1, <4>3, <4>4
      <3>4. /\ tasks[k].do = "emit" /\ tasks[k].in = m /\ tasks[k].base = b + 2 /\ tasks[k].what = code[i]
        BY <1>8, <3>1
      <3>5. Written(tasks[k].what)'
        BY <3>2, <3>4 DEF Written
      <3>. QED BY <1>6, <3>3, <3>4, <3>5 DEF TaskOK
    <2>. QED BY <1>10, <2>1, <2>2, <2>3
  <1>12. ASSUME NEW k \in 1..Len(tasks) - 1
         PROVE  Follows(tasks[k], tasks[k + 1])'
    <2>1. \/ k = 1 /\ k + 1 = 2
          \/ k = 2 /\ k + 1 = 2 + 1 /\ 1 \in 1..Len(code)
          \/ k = 2 + 1 /\ k + 1 = 2 + 2 /\ Len(code) = 2 /\ 1 \in 1..Len(code) /\ 2 \in 1..Len(code)
      <3>1. CASE Len(code) = 1
        <4>1. Len(tasks) = 3
          BY <1>9, <3>1
        <4>2. k = 1 \/ k = 2
          BY <1>12, <4>1
        <4>. QED BY <3>1, <4>2
      <3>2. CASE Len(code) = 2
        <4>1. Len(tasks) = 4
          BY <1>9, <3>2
        <4>2. k = 1 \/ k = 2 \/ k = 2 + 1
          BY <1>12, <4>1
        <4>. QED BY <3>2, <4>2
      <3>. QED BY <1>3, <3>1, <3>2
    <2>2. CASE k = 1 /\ k + 1 = 2
      <3>1. After(t) = b + 1 /\ tasks[k] = t /\ tasks[k + 1] = u
        BY <1>7, <1>9, <2>2 DEF After
      <3>2. Follows(t, u)'
        BY <1>6, <1>7, <3>1 DEF Follows, Pushers
      <3>. QED BY <3>1, <3>2 DEF Follows
    <2>3. CASE k = 2 /\ k + 1 = 2 + 1 /\ 1 \in 1..Len(code)
      <3>1. After(u) = (b + 1) + 1 /\ tasks[k] = u /\ tasks[k + 1] = emits[1]
        BY <1>7, <1>9, <2>3 DEF After
      <3>2. emits[1].base = b + 2 /\ emits[1].in = m
        BY <1>8, <2>3
      <3>3. emits[1].base <= After(u)
        BY <1>6, <3>1, <3>2
      <3>4. Follows(u, emits[1])'
        BY <1>6, <1>7, <3>2, <3>3 DEF Follows, Pushers
      <3>. QED BY <3>1, <3>4 DEF Follows
    <2>4. CASE k = 2 + 1 /\ k + 1 = 2 + 2 /\ Len(code) = 2 /\ 1 \in 1..Len(code) /\ 2 \in 1..Len(code)
      <3>1. /\ emits[1].do = "emit" /\ emits[1].in = m /\ emits[1].base = b + 2 /\ emits[1].what = code[1]
            /\ emits[2].base = b + 2 /\ emits[2].in = m
            /\ tasks[k] = emits[1] /\ tasks[k + 1] = emits[2]
        BY <1>8, <1>9, <2>4
      <3>2. After(emits[1]) = (b + 2) + 1
        BY <1>3, <2>4, <3>1 DEF After
      <3>3. emits[2].base <= After(emits[1])
        BY <1>6, <3>1, <3>2
      <3>4. Follows(emits[1], emits[2])'
        BY <1>6, <1>7, <3>1, <3>3 DEF Follows, Pushers
      <3>. QED BY <3>1, <3>4 DEF Follows
    <2>. QED BY <2>1, <2>2, <2>3, <2>4
  <1>13. Hands_over(tasks[Len(tasks)], maps'[task.in].sound)
    <2>1. PICK i \in 1..Len(code) : tasks[Len(tasks)] = emits[i]
      <3>1. Len(code) \in 1..Len(code) /\ Len(tasks) = 2 + Len(code)
        BY <1>3, <1>9
      <3>2. tasks[Len(tasks)] = emits[Len(code)]
        BY <1>9, <3>1
      <3>. QED BY <3>1, <3>2
    <2>2. emits[i].do = "emit" /\ emits[i].in = m /\ emits[i].base = b + 2 /\ emits[i].what = code[i]
      BY <1>8
    <2>3. After(emits[i]) = (b + 2) + Growth(code[i]) /\ After(task) = b + 1
      BY <1>6, <2>2 DEF After
    <2>4. After(task) <= After(emits[i])
      BY <1>3, <1>6, <2>3
    <2>. QED BY <1>6, <2>1, <2>2, <2>4 DEF Hands_over, Pushers
  <1>14. Unmarked(tasks)
    <2>1. ASSUME NEW k \in DOMAIN tasks, tasks[k].do = "emit"
          PROVE  tasks[k].what.op \notin {"LBL", "LBLJMP", "LBLJMPIF"}
      <3>1. PICK i \in 1..Len(code) : tasks[k] = emits[i]
        BY <1>7, <1>10, <2>1
      <3>. QED BY <1>3, <1>8, <3>1
    <2>. QED BY <2>1 DEF Unmarked
  <1>15. /\ mode' = "prompt" /\ stage = "compiling" /\ todo # <<>> /\ task.do # "emit"
         /\ UNCHANGED <<table, session, counters>>
    BY DEF Quietly, Stepping
  <1>16. /\ \A k \in 1..Len(tasks) : TaskOK(tasks[k])'
         /\ \A k \in 1..Len(tasks) - 1 : Follows(tasks[k], tasks[k + 1])'
    BY <1>9, <1>11, <1>12
  <1>17. tasks[1].in = task.in /\ tasks[1].base <= task.base
    BY <1>6, <1>7, <1>9
  <1>. QED BY <1>5, <1>9, <1>13, <1>14, <1>15, <1>16, <1>17, UnmarkedPartsKeep

LEMMA PushExpressionKeeps ==
  ASSUME CompilationInv, push_expression, UNCHANGED session
  PROVE  CompilationInv'
  <1>1. Quietly /\ Stepping /\ task.do = "value"
    BY DEF push_expression, Doing, Quietly, Stepping, NoNames, machineVars
  <1>2. TaskOK(task)
    BY <1>1, AtTask DEF CompilationInv, Stepping
  <1>3. PICK e \in Expressions : e = task.what
    BY <1>1, <1>2 DEF TaskOK
  <1>4. CASE Len(e) = 1 /\ Parts(<<Task("term", task.in, task.base, e[1])>>, TRUE)
    <2>1. PICK well, t : well = TRUE /\ t = Task("term", task.in, task.base, e[1])
      OBVIOUS
    <2>2. Parts(<<t>>, well)
      BY <1>4, <2>1, Zenon
    <2>3. task.in \in Nat /\ task.in \in DOMAIN maps' /\ task.base \in Nat
      BY <1>1, <2>1, <2>2, PartsTask
    <2>4. e[1] \in Terms
      <3>1. 1 \in DOMAIN e /\ e \in Seq(Terms)
        BY <1>4 DEF Expressions
      <3>. QED BY <3>1, Entry
    <2>5. t \in Tasks
      BY <2>1, <2>3, <2>4, StatementTasks
    <2>6. t.do = "term" /\ t.in = task.in /\ t.base = task.base /\ t.what \in Terms
      BY <2>1, <2>4 DEF Task
    <2>7. TaskOK(t)' /\ Unmarking(t)
      BY <2>3, <2>6 DEF TaskOK, Unmarking
    <2>8. After(t) = task.base + 1 /\ After(task) = task.base + 1
      BY <1>1, <2>6 DEF After
    <2>9. Hands_over(t, maps'[task.in].sound) /\ t.base <= task.base
      BY <1>1, <2>3, <2>6, <2>8 DEF Hands_over, Pushers
    <2>. QED BY <1>1, <2>1, <2>2, <2>5, <2>6, <2>7, <2>9, OneTaskKeeps
  <1>5. CASE /\ Len(e) = 3 /\ e[2].type = "OPERATOR"
             /\ Parts(<<Task("term", task.in, task.base, e[1]), Task("term", task.in, task.base + 1, e[3])>>
                  \o [i \in DOMAIN Operation(e[2].value) |->
                        Task("emit", task.in, task.base + 2, Operation(e[2].value)[i])], TRUE)
    BY <1>1, <1>3, <1>5, PushOperationKeeps
  <1>6. CASE Parts(<<>>, FALSE)
    <2>1. PICK well \in BOOLEAN : well = FALSE
      OBVIOUS
    <2>2. Parts(<<>>, well)
      BY <1>6, <2>1, Zenon
    <2>. QED BY <1>1, <2>1, <2>2, NoTaskKeeps
  <1>. QED BY <1>3, <1>4, <1>5, <1>6 DEF push_expression
-----------------------------------------------------------------------------
(* Calls: the arguments, each on top of those before it, then the call.      *)

LEMMA GivenFacts ==
  ASSUME NEW call, call.args \in Seq(Expressions)
  PROVE  /\ Given(call) \in Nat
         /\ \A i \in 1..Given(call) : call.args[Given(call) + 1 - i] \in Expressions
  <1>1. Given(call) \in Nat /\ Given(call) <= Len(call.args)
    BY DEF Given
  <1>2. ASSUME NEW i \in 1..Given(call)
        PROVE  Given(call) + 1 - i \in DOMAIN call.args
    BY <1>1
  <1>. QED BY <1>1, <1>2, Entry

\* One task per argument, on top of those before it, and the call on top of them all.
AreCallTasks(tasks, n, m, b, name) ==
    /\ n \in Nat /\ tasks \in Seq(Tasks) /\ Len(tasks) = n + 1
    /\ \A k \in 1..n : /\ tasks[k].do = "value" /\ tasks[k].in = m /\ tasks[k].base = b + k - 1
                       /\ tasks[k].what \in Expressions
    /\ tasks[n + 1] = Task("call", m, b + n, name)

LEMMA CallTasksFacts ==
  ASSUME NEW call, call.args \in Seq(Expressions), call.name \in STRING,
         NEW m \in Nat, NEW b \in Nat
  PROVE  AreCallTasks(CallTasks(call, m, b), Given(call), m, b, call.name)
  <1>0. PICK n, tasks : n = Given(call) /\ tasks = CallTasks(call, m, b)
    OBVIOUS
  <1> DEFINE vals == [i \in 1..n |-> ValueOf(call.args[n + 1 - i], m, b + i - 1)]
             last == Task("call", m, b + n, call.name)
  <1>1. n \in Nat /\ \A i \in 1..n : call.args[n + 1 - i] \in Expressions
    BY <1>0, GivenFacts
  <1>2. ASSUME NEW i \in 1..n
        PROVE  /\ vals[i] \in Tasks /\ vals[i].do = "value" /\ vals[i].in = m /\ vals[i].base = b + i - 1
               /\ vals[i].what \in Expressions
    <2>1. PICK e \in Expressions, base \in Nat : e = call.args[n + 1 - i] /\ base = b + i - 1
      BY <1>1
    <2>2. vals[i] = ValueOf(e, m, base)
      BY <2>1
    <2>3. ValueOf(e, m, base) \in Tasks
      BY StatementTasks
    <2>. QED BY <2>1, <2>2, <2>3 DEF ValueOf, Task
  <1>3. vals \in Seq(Tasks) /\ Len(vals) = n
    <2>1. vals \in [1..n -> Tasks]
      BY <1>2
    <2> HIDE DEF vals
    <2>2. \A f \in [1..n -> Tasks] : f \in Seq(Tasks) /\ Len(f) = n
      BY <1>1
    <2>. QED BY <2>1, <2>2
  <1>4. last \in Tasks
    <2>1. PICK base \in Nat : base = b + n
      BY <1>1
    <2>2. Task("call", m, base, call.name) \in Tasks
      BY StatementTasks
    <2>. QED BY <2>1, <2>2
  <1>5. tasks = vals \o <<last>>
    BY <1>0 DEF CallTasks
  <1> HIDE DEF vals, last
  <1>6. <<last>> \in Seq(Tasks) /\ Len(<<last>>) = 1 /\ <<last>>[1] = last
    BY <1>4
  <1>7. /\ tasks \in Seq(Tasks) /\ Len(tasks) = n + 1
        /\ \A k \in 1..n : tasks[k] = vals[k]
        /\ tasks[n + 1] = last
    <2>1. /\ tasks \in Seq(Tasks) /\ Len(tasks) = n + 1
          /\ \A k \in 1..n : tasks[k] = vals[k]
          /\ \A k \in 1..1 : tasks[n + k] = <<last>>[k]
      BY <1>3, <1>5, <1>6, Joined
    <2>. QED BY <1>6, <2>1
  <1>8. AreCallTasks(tasks, n, m, b, call.name)
    BY <1>1, <1>2, <1>7 DEF last, AreCallTasks
  <1>. QED BY <1>0, <1>8

LEMMA CallTasksKeep ==
  ASSUME CompilationInv, Quietly,
         NEW call, call.args \in Seq(Expressions), call.name \in STRING,
         NEW b \in Nat, b <= task.base,
         NEW well \in BOOLEAN, Parts(CallTasks(call, task.in, b), well),
         well /\ IsBuiltin(call.name) => Given(call) = Arity(call.name),
         task.do \in Pushers => task.do = "term" /\ b = task.base /\ (well => IsBuiltin(call.name))
  PROVE  CompilationInv'
  <1>1. PICK m, n, tasks : m = task.in /\ n = Given(call) /\ tasks = CallTasks(call, m, b)
    OBVIOUS
  <1>2. Parts(tasks, well)
    BY <1>1, Zenon
  <1>3. /\ m \in Nat /\ m \in DOMAIN maps' /\ task.base \in Nat
        /\ maps'[m].sound => well
    BY <1>1, <1>2, PartsTask DEF Quietly
  <1>4. /\ n \in Nat /\ tasks \in Seq(Tasks) /\ Len(tasks) = n + 1
        /\ \A k \in 1..n : /\ tasks[k].do = "value" /\ tasks[k].in = m /\ tasks[k].base = b + k - 1
                           /\ tasks[k].what \in Expressions
        /\ tasks[n + 1] = Task("call", m, b + n, call.name)
    <2>1. /\ call.args \in Seq(Expressions) /\ call.name \in STRING
          /\ m \in Nat /\ b \in Nat /\ n = Given(call) /\ tasks = CallTasks(call, m, b)
      BY <1>1, <1>3
    <2>2. AreCallTasks(tasks, n, m, b, call.name)
      BY <2>1, CallTasksFacts
    <2>. QED BY <2>2 DEF AreCallTasks
  <1>5. PICK last : last = tasks[n + 1]
    OBVIOUS
  <1>6. last.do = "call" /\ last.in = m /\ last.base = b + n /\ last.what = call.name
    BY <1>4, <1>5 DEF Task
  <1>7. /\ \A k \in 1..n + 1 : k \in 1..n \/ k = n + 1
        /\ tasks # <<>> /\ DOMAIN tasks = 1..n + 1 /\ n + 1 \in 1..n + 1 /\ 1 \in 1..n + 1
        /\ b + (n + 1) - 1 = b + n /\ b + 1 - 1 = b
    BY <1>4
  <1>8. \A k \in 1..n + 1 : tasks[k].in = m /\ tasks[k].base = b + k - 1
    BY <1>4, <1>5, <1>6, <1>7
  <1>9. Arity(call.name) \in {0, 1} /\ (Arity(call.name) = 0 <=> call.name \in {"input", "time"})
    BY DEF Arity
  <1>10. TaskOK(last)'
    <2>1. maps'[m].sound /\ IsBuiltin(call.name) => Arity(call.name) <= b + n
      BY <1>1, <1>3, <1>4, <1>9
    <2>. QED BY <1>3, <1>6, <2>1 DEF TaskOK
  <1>11. ASSUME NEW k \in 1..Len(tasks)
         PROVE  TaskOK(tasks[k])'
    <2>1. CASE k \in 1..n
      BY <1>3, <1>4, <2>1 DEF TaskOK
    <2>2. CASE k = n + 1
      BY <1>5, <1>10, <2>2 DEF TaskOK
    <2>. QED BY <1>4, <1>7, <2>1, <2>2
  <1>12. ASSUME NEW k \in 1..Len(tasks) - 1
         PROVE  Follows(tasks[k], tasks[k + 1])'
    <2>1. k \in 1..n /\ k + 1 \in 1..n + 1
      BY <1>4
    <2>2. PICK t, u : t = tasks[k] /\ u = tasks[k + 1]
      OBVIOUS
    <2>3. t.do = "value" /\ t.in = m /\ t.base = b + k - 1 /\ u.in = m /\ u.base = b + (k + 1) - 1
      BY <1>4, <1>8, <2>1, <2>2
    <2>4. After(t) = (b + k - 1) + 1
      BY <2>3 DEF After
    <2>5. u.base <= After(t)
      BY <2>1, <2>3, <2>4
    <2>6. Follows(t, u)'
      BY <2>3, <2>5 DEF Follows, Pushers
    <2>. QED BY <2>2, <2>6 DEF Follows
  <1>13. Hands_over(tasks[Len(tasks)], maps'[task.in].sound)
    <2>1. CASE task.do \notin Pushers
      BY <2>1 DEF Hands_over
    <2>2. CASE task.do \in Pushers
      <3>1. After(task) = b + 1
        BY <2>2 DEF After
      <3>2. After(last) = b + n + (IF call.name \in {"input", "time"} THEN 1 ELSE 0)
        BY <1>6 DEF After
      <3>3. ASSUME maps'[m].sound
            PROVE  After(task) <= After(last)
        <4>1. n = Arity(call.name)
          BY <1>1, <1>3, <2>2, <3>3
        <4>2. CASE call.name \in {"input", "time"}
          <5>1. n = 0 /\ After(last) = b + 0 + 1
            BY <1>9, <3>2, <4>1, <4>2
          <5>. QED BY <3>1, <5>1
        <4>3. CASE call.name \notin {"input", "time"}
          <5>1. n = 1 /\ After(last) = b + 1 + 0
            BY <1>9, <3>2, <4>1, <4>3
          <5>. QED BY <3>1, <5>1
        <4>. QED BY <4>2, <4>3
      <3>. QED BY <1>1, <1>4, <1>5, <1>6, <3>3 DEF Hands_over, Pushers
    <2>. QED BY <2>1, <2>2
  <1>14. Unmarked(tasks)
    <2>1. \A k \in DOMAIN tasks : tasks[k].do # "emit"
      BY <1>4, <1>5, <1>6, <1>7
    <2>. QED BY <2>1 DEF Unmarked
  <1>15. /\ mode' = "prompt" /\ stage = "compiling" /\ todo # <<>> /\ task.do # "emit"
         /\ UNCHANGED <<table, session, counters>>
    BY DEF Quietly, Stepping
  <1>16. tasks[1].in = task.in /\ tasks[1].base <= task.base
    BY <1>1, <1>7, <1>8
  <1>. QED BY <1>2, <1>4, <1>7, <1>11, <1>12, <1>13, <1>14, <1>15, <1>16, UnmarkedPartsKeep

LEMMA PushFunctionCallKeeps ==
  ASSUME CompilationInv, push_function_call, UNCHANGED session
  PROVE  CompilationInv'
  <1>1. Quietly /\ Stepping /\ task.do = "term" /\ task.what.type = "FUNCTIONCALL"
    BY DEF push_function_call, Pushing, Doing, Quietly, Stepping, NoNames, machineVars
  <1>2. TaskOK(task) /\ task.base \in Nat
    BY <1>1, AtTask DEF CompilationInv, Stepping
  <1>3. PICK call : call = task.what
    OBVIOUS
  <1>7. PICK b \in Nat : b = task.base
    BY <1>2
  <1>8. PICK well \in BOOLEAN : well = (IsBuiltin(call.name) /\ Given(call) = Arity(call.name))
    BY Zenon
  <1>4. call.name \in STRING /\ call.args \in Seq(Expressions)
    BY <1>1, <1>2, <1>3, TermsAssumption DEF TaskOK
  <1>5. Parts(CallTasks(call, task.in, b), well)
    BY <1>3, <1>7, <1>8, Zenon DEF push_function_call
  <1>9. well /\ IsBuiltin(call.name) => Given(call) = Arity(call.name)
    BY <1>8, Zenon
  <1>10. task.do \in Pushers => task.do = "term" /\ b = task.base /\ (well => IsBuiltin(call.name))
    BY <1>1, <1>7, <1>8, Zenon
  <1>11. b <= task.base
    BY <1>7
  <1>. QED BY <1>1, <1>4, <1>5, <1>9, <1>10, <1>11, CallTasksKeep

LEMMA CallStatementKeeps ==
  ASSUME CompilationInv, call_statement, UNCHANGED session
  PROVE  CompilationInv'
  <1>1. Quietly /\ Stepping /\ task.do = "statement" /\ task.what.type = "FUNCTIONCALL"
    BY DEF call_statement, Stating, Doing, Quietly, Stepping, NoNames, machineVars
  <1>2. TaskOK(task) /\ task.base \in Nat
    BY <1>1, AtTask DEF CompilationInv, Stepping
  <1>3. PICK call : call = task.what
    OBVIOUS
  <1>7. PICK well \in BOOLEAN : well = (IsBuiltin(call.name) => Given(call) = Arity(call.name))
    BY Zenon
  <1>4. call.name \in STRING /\ call.args \in Seq(Expressions)
    BY <1>1, <1>2, <1>3, StatementsAssumption DEF TaskOK
  <1>5. Parts(CallTasks(call, task.in, 0), well)
    BY <1>3, <1>7, Zenon DEF call_statement
  <1>6. 0 \in Nat /\ 0 <= task.base
    BY <1>2
  <1>. QED BY <1>1, <1>4, <1>5, <1>6, <1>7, CallTasksKeep DEF Pushers
-----------------------------------------------------------------------------
(* The steps that write an instruction.                                      *)

LEMMA AppendKeeps ==
  ASSUME CompilationInv, Stepping, mode' = "prompt", UNCHANGED <<functions, counters>>, TablesGrow,
         NEW instr \in Assembled, Append_instruction(instr), Written(instr)',
         maps[task.in].sound => Operands(instr) <= task.base,
         instr.op = "LBL" => task.base = 0,
         instr.op \in {"LBL", "LBLJMP", "LBLJMPIF"} => task.do = "emit",
         task.do = "emit" => task.what = instr,
         task.do \in Pushers /\ maps[task.in].sound => After(task) <= task.base + Growth(instr)
  PROVE  CompilationInv'
  <1>1. task.in \in DOMAIN maps /\ maps[task.in] \in MapRecords /\ task.base \in Nat
    BY AtTask DEF CompilationInv, Stepping
  <1>2. PICK map, base : map = maps[task.in] /\ base = task.base
    OBVIOUS
  <1>3. PICK new : new = Longer(map, instr, base)
    OBVIOUS
  <1>4. /\ new \in MapRecords /\ new.code = Append(map.code, instr) /\ new.depth = Append(map.depth, base)
        /\ new.sound = map.sound
    BY <1>1, <1>2, <1>3, LongerFacts
  <1>5. maps' = [maps EXCEPT ![task.in] = new] /\ Then(<<>>)
    BY <1>1, <1>2, <1>3 DEF Append_instruction
  <1>6. Writes(instr, new)
    BY <1>2, <1>4, <1>5 DEF Writes, Stepping, session
  <1>. QED BY <1>6, WriteKeeps

LEMMA AtTerm ==
  ASSUME CompilationInv, Stepping
  PROVE  task \in Tasks /\ TaskOK(task) /\ task.base \in Nat /\ task.in \in DOMAIN maps /\ task.in \in Nat
  BY AtTask DEF CompilationInv, Stepping, Tasks

LEMMA SameTables == ASSUME StateOK, UNCHANGED <<refs, pool>> PROVE TablesGrow
  BY DEF StateOK, TablesGrow, Names

LEMMA EmitKeeps ==
  ASSUME CompilationInv, Emit, UNCHANGED session
  PROVE  CompilationInv'
  <1>1. Stepping /\ mode' = "prompt" /\ UNCHANGED <<table, counters>> /\ task.do = "emit"
    BY DEF Emit, Doing, Stepping, NoNames, machineVars
  <1>2. PICK instr : instr = task.what
    OBVIOUS
  <1>3. /\ instr \in Assembled /\ Written(instr) /\ Operands(instr) <= task.base
        /\ instr.op = "LBL" => task.base = 0
    BY <1>1, <1>2, AtTerm DEF TaskOK
  <1>4. Written(instr)'
    BY <1>1, <1>3 DEF Written, table
  <1>5. After(task) = task.base + Growth(instr)
    BY <1>1, <1>2 DEF After
  <1>6. After(task) <= task.base + Growth(instr)
    <2>1. Growth(instr) \in Int /\ task.base \in Nat
      BY <1>1, <1>3, AtTerm, GrowthBounds
    <2>. QED BY <1>5, <2>1
  <1>7. Append_instruction(instr)
    BY <1>2, Zenon DEF Emit
  <1>8. TablesGrow /\ UNCHANGED <<functions, counters>>
    BY <1>1, SameTables DEF table, CompilationInv
  <1>. QED BY <1>1, <1>2, <1>3, <1>4, <1>6, <1>7, <1>8, AppendKeeps

\* An instruction that adds an operand and finds none missing.
LoadOps == {"LOADC", "LOADBOOL", "LOADPOOL", "LOAD"}

LEMMA LoadKeeps ==
  ASSUME CompilationInv, Stepping, mode' = "prompt", UNCHANGED <<functions, counters>>, TablesGrow,
         task.do = "term", NEW op \in LoadOps, NEW arg \in Int, NEW instr, instr = Instruction(op, arg),
         Append_instruction(instr), Written(instr)'
  PROVE  CompilationInv'
  <1>1. instr \in Assembled /\ instr.op = op
    BY DEF Assembled, Opcodes, Instruction, LoadOps
  <1>2. Operands(instr) = 0 /\ Growth(instr) = 1
    BY <1>1 DEF Operands, Growth, LoadOps
  <1>3. After(task) = task.base + 1 /\ task.base \in Nat
    BY AtTerm DEF After
  <1>4. Operands(instr) <= task.base /\ After(task) <= task.base + Growth(instr)
    BY <1>2, <1>3
  <1>5. instr.op \notin {"LBL", "LBLJMP", "LBLJMPIF"} /\ instr.op # "LBL" /\ task.do # "emit"
    BY <1>1 DEF LoadOps
  <1>. QED BY <1>1, <1>4, <1>5, AppendKeeps

LEMMA PushNumberKeeps ==
  ASSUME CompilationInv, push_number, UNCHANGED session
  PROVE  CompilationInv'
  <1>1. Stepping /\ mode' = "prompt" /\ UNCHANGED <<table, counters>> /\ task.do = "term" /\ task.what.type = "NUMBER"
    BY DEF push_number, Pushing, Doing, Stepping, NoNames, machineVars
  <1>2. task.what.value \in Int
    BY <1>1, AtTerm, TermsAssumption DEF TaskOK
  <1>3. PICK arg, op, instr :
           /\ arg \in Int /\ op \in LoadOps
           /\ arg = task.what.value /\ op = "LOADC" /\ instr = Instruction(op, arg)
    BY <1>2 DEF LoadOps
  <1>4. Append_instruction(instr)
    BY <1>3, Zenon DEF push_number
  <1>5. Written(instr)'
    BY <1>3 DEF Written, WrittenOps, Instruction
  <1>6. TablesGrow /\ UNCHANGED <<functions, counters>>
    BY <1>1, SameTables DEF table, CompilationInv
  <1>. QED BY <1>1, <1>3, <1>4, <1>5, <1>6, LoadKeeps

LEMMA PushStringKeeps ==
  ASSUME CompilationInv, push_string, UNCHANGED session
  PROVE  CompilationInv'
  <1>1. /\ Stepping /\ mode' = "prompt" /\ UNCHANGED <<functions, refs, counters>>
        /\ task.do = "term" /\ task.what.type = "STRING"
    BY DEF push_string, Pushing, Doing, Stepping, machineVars
  <1>2. PICK text \in Int \cup Text : text = task.what.value
    BY <1>1, AtTerm, TermsAssumption DEF TaskOK
  <1>3. pool \in Seq(Int \cup Text) /\ refs \in Names /\ Len(pool) \in Nat /\ DOMAIN pool = 1..Len(pool)
    BY DEF CompilationInv, StateOK, Names
  <1>4. ASSUME NEW i \in DOMAIN pool, Append_instruction(Instruction("LOADPOOL", i - 1)), UNCHANGED pool
        PROVE  CompilationInv'
    <2>0. i \in Int /\ i - 1 \in Int
      BY <1>3
    <2>1. PICK arg, op, instr :
             /\ arg \in Int /\ op \in LoadOps
             /\ arg = i - 1 /\ op = "LOADPOOL" /\ instr = Instruction(op, arg)
      BY <2>0 DEF LoadOps
    <2>2. Append_instruction(instr)
      BY <1>4, <2>1, Zenon
    <2>3. instr.arg + 1 = i /\ instr.op = "LOADPOOL"
      BY <2>0, <2>1 DEF Instruction
    <2>4. Written(instr)'
      BY <1>4, <2>3 DEF Written, WrittenOps
    <2>5. TablesGrow
      BY <1>1, <1>4, SameTables DEF CompilationInv
    <2>. QED BY <1>1, <2>1, <2>2, <2>4, <2>5, LoadKeeps
  <1>5. ASSUME Append_instruction(Instruction("LOADPOOL", Len(pool))), pool' = Append(pool, text)
        PROVE  CompilationInv'
    <2>0. Len(pool) \in Int
      BY <1>3
    <2>1. PICK arg, op, instr :
             /\ arg \in Int /\ op \in LoadOps
             /\ arg = Len(pool) /\ op = "LOADPOOL" /\ instr = Instruction(op, arg)
      BY <2>0 DEF LoadOps
    <2>2. Append_instruction(instr)
      BY <1>5, <2>1, Zenon
    <2>3. pool' \in Seq(Int \cup Text) /\ DOMAIN pool' = 1..Len(pool) + 1
      BY <1>3, <1>5, Appended
    <2>4. Written(instr)'
      <3>1. instr.arg + 1 \in DOMAIN pool' /\ instr.op = "LOADPOOL"
        BY <1>3, <2>1, <2>3 DEF Instruction
      <3>. QED BY <3>1 DEF Written, WrittenOps
    <2>5. TablesGrow
      <3>1. \A i \in DOMAIN pool : i \in DOMAIN pool'
        BY <1>3, <2>3
      <3>. QED BY <1>1, <1>3, <2>3, <3>1 DEF TablesGrow
    <2>. QED BY <1>1, <2>1, <2>2, <2>4, <2>5, LoadKeeps
  <1>. QED BY <1>2, <1>4, <1>5 DEF push_string

LEMMA PushIdentifierKeeps ==
  ASSUME CompilationInv, push_identifier, UNCHANGED session
  PROVE  CompilationInv'
  <1>1. Stepping /\ task.do = "term"
    BY DEF push_identifier, Pushing, Doing, Stepping
  <1>2. ASSUME NEW b \in {0, 1}, Append_instruction(Instruction("LOADBOOL", b)), NoNames
        PROVE  CompilationInv'
    <2>1. PICK arg, op, instr :
             /\ arg \in Int /\ op \in LoadOps
             /\ arg = b /\ op = "LOADBOOL" /\ instr = Instruction(op, arg)
      BY DEF LoadOps
    <2>2. Append_instruction(instr)
      BY <1>2, <2>1, Zenon
    <2>3. mode' = "prompt" /\ UNCHANGED <<table, counters>>
      BY <1>1, <1>2 DEF Stepping, NoNames, machineVars
    <2>4. Written(instr)'
      BY <2>1 DEF Written, WrittenOps, Instruction
    <2>5. TablesGrow /\ UNCHANGED <<functions, counters>>
      BY <2>3, SameTables DEF table, CompilationInv
    <2>. QED BY <1>1, <2>1, <2>2, <2>3, <2>4, <2>5, LoadKeeps
  <1>3. ASSUME NEW i \in DOMAIN refs, Append_instruction(Instruction("LOAD", refs[i].ref)), NoNames
        PROVE  CompilationInv'
    <2>0. refs[i].ref \in Int
      <3>1. refs \in Seq([name : STRING, ref : Nat])
        BY DEF CompilationInv, StateOK
      <3>2. refs[i] \in [name : STRING, ref : Nat]
        BY <3>1, Entry
      <3>. QED BY <3>2
    <2>1. PICK arg, op, instr :
             /\ arg \in Int /\ op \in LoadOps
             /\ arg = refs[i].ref /\ op = "LOAD" /\ instr = Instruction(op, arg)
      BY <2>0 DEF LoadOps
    <2>2. Append_instruction(instr)
      BY <1>3, <2>1, Zenon
    <2>3. mode' = "prompt" /\ UNCHANGED <<table, counters>>
      BY <1>1, <1>3 DEF Stepping, NoNames, machineVars
    <2>4. Written(instr)'
      <3>1. instr.arg = refs[i].ref /\ instr.op = "LOAD" /\ refs' = refs
        BY <2>1, <2>3 DEF Instruction, table
      <3>. QED BY <3>1 DEF Written, WrittenOps
    <2>5. TablesGrow /\ UNCHANGED <<functions, counters>>
      BY <2>3, SameTables DEF table, CompilationInv
    <2>. QED BY <1>1, <2>1, <2>2, <2>3, <2>4, <2>5, LoadKeeps
  <1>4. CASE ss_throw
    BY <1>1, <1>4, ThrowKeeps
  <1>. QED BY <1>2, <1>3, <1>4 DEF push_identifier

LEMMA PushNoOperandKeeps ==
  ASSUME CompilationInv, push_no_operand, UNCHANGED session
  PROVE  CompilationInv'
  <1>1. Stepping /\ task.do = "term" /\ ss_throw
    BY DEF push_no_operand, Pushing, Doing, Stepping
  <1>. QED BY <1>1, ThrowKeeps

LEMMA PushCallKeeps ==
  ASSUME CompilationInv, push_call, UNCHANGED session
  PROVE  CompilationInv'
  <1>1. Stepping /\ task.do = "call"
    BY DEF push_call, Doing, Stepping
  <1>2. /\ TaskOK(task) /\ task.base \in Nat
        /\ maps[task.in].sound /\ IsBuiltin(task.what) => Arity(task.what) <= task.base
    BY <1>1, AtTerm DEF TaskOK
  <1>3. ASSUME NEW i \in DOMAIN builtins, builtins[i] = task.what,
               Append_instruction(Instruction("CALLC", i - 1)), NoNames
        PROVE  CompilationInv'
    <2>1. mode' = "prompt" /\ UNCHANGED <<table, counters>>
      BY <1>1, <1>3 DEF Stepping, NoNames, machineVars
    <2>2. i \in 1..6
      BY DEF builtins
    <2>3. PICK arg, instr : arg \in Int /\ arg = i - 1 /\ instr = Instruction("CALLC", arg)
      BY <2>2
    <2>4. Append_instruction(instr)
      BY <1>3, <2>3, Zenon
    <2>5. instr \in Assembled /\ instr.op = "CALLC" /\ instr.arg = i - 1 /\ instr.arg \in ss_functions
      BY <2>2, <2>3 DEF Instruction, Assembled, Opcodes, ss_functions
    <2>6. Written(instr)'
      BY <2>5 DEF Written, WrittenOps
    <2>7. IsBuiltin(task.what)
      BY <1>3 DEF IsBuiltin
    <2>8. Operands(instr) = Arity(task.what)
      BY <1>3, <2>2, <2>5 DEF builtins, Arity, Operands,
            ss_f_print, ss_f_input, ss_f_exit, ss_f_to_string, ss_f_to_number, ss_f_time
    <2>9. Growth(instr) = IF task.what \in {"input", "time"} THEN 1 ELSE 0
      BY <1>3, <2>2, <2>5 DEF builtins, Growth, ss_f_input, ss_f_time
    <2>10. After(task) = task.base + Growth(instr)
      BY <1>1, <2>9 DEF After
    <2>11. After(task) <= task.base + Growth(instr)
      <3>1. Growth(instr) \in Int
        BY <2>9
      <3>. QED BY <1>2, <2>10, <3>1
    <2>12. maps[task.in].sound => Operands(instr) <= task.base
      BY <1>2, <2>7, <2>8
    <2>13. TablesGrow /\ UNCHANGED <<functions, counters>>
      BY <2>1, SameTables DEF table, CompilationInv
    <2>14. task.do # "emit" /\ instr.op \notin {"LBL", "LBLJMP", "LBLJMPIF"} /\ instr.op # "LBL"
      BY <1>1, <2>5
    <2>. QED BY <1>1, <2>1, <2>4, <2>5, <2>6, <2>11, <2>12, <2>13, <2>14, AppendKeeps
  <1>4. ASSUME NEW i \in DOMAIN functions, ~IsBuiltin(task.what),
               Append_instruction(Instruction("LBLCALL", functions[i].reference)), NoNames
        PROVE  CompilationInv'
    <2>1. mode' = "prompt" /\ UNCHANGED <<table, counters>>
      BY <1>1, <1>4 DEF Stepping, NoNames, machineVars
    <2>2. functions[i].reference \in Int
      <3>1. functions \in Seq([name : STRING, reference : Nat])
        BY DEF CompilationInv, StateOK
      <3>2. functions[i] \in [name : STRING, reference : Nat]
        BY <3>1, Entry
      <3>. QED BY <3>2
    <2>3. PICK arg, instr : arg \in Int /\ arg = functions[i].reference /\ instr = Instruction("LBLCALL", arg)
      BY <2>2
    <2>4. Append_instruction(instr)
      BY <1>4, <2>3, Zenon
    <2>5. instr \in Assembled /\ instr.op = "LBLCALL" /\ instr.arg = functions[i].reference
      BY <2>3 DEF Instruction, Assembled, Opcodes
    <2>6. Written(instr)'
      <3>1. functions' = functions
        BY <2>1 DEF table
      <3>. QED BY <2>5, <3>1 DEF Written, WrittenOps
    <2>8. Operands(instr) = 0 /\ Growth(instr) = 0
      BY <2>5 DEF Operands, Growth
    <2>9. After(task) = task.base
      <3>1. task.what \notin {"input", "time"}
        BY <1>4 DEF IsBuiltin, builtins
      <3>2. After(task) = task.base + 0
        BY <1>1, <3>1 DEF After
      <3>. QED BY <1>2, <3>2
    <2>10. After(task) <= task.base + Growth(instr) /\ Operands(instr) <= task.base
      BY <1>2, <2>8, <2>9
    <2>13. TablesGrow /\ UNCHANGED <<functions, counters>>
      BY <2>1, SameTables DEF table, CompilationInv
    <2>14. task.do # "emit" /\ instr.op \notin {"LBL", "LBLJMP", "LBLJMPIF"} /\ instr.op # "LBL"
      BY <1>1, <2>5
    <2>. QED BY <1>1, <2>1, <2>4, <2>5, <2>6, <2>10, <2>13, <2>14, AppendKeeps
  <1>5. CASE ss_throw
    BY <1>1, <1>5, ThrowKeeps
  <1>. QED BY <1>3, <1>4, <1>5 DEF push_call

LEMMA DeclareKeeps ==
  ASSUME CompilationInv, declare, UNCHANGED session
  PROVE  CompilationInv'
  <1>1. /\ Stepping /\ task.do = "declare" /\ mode' = "prompt"
        /\ UNCHANGED <<functions, pool, counters>> /\ Then(<<>>)
    BY DEF declare, Doing, Stepping, machineVars
  <1>2. /\ task.in \in DOMAIN maps /\ task.base = 1 /\ task.what \in STRING
    BY <1>1, AtTerm DEF TaskOK
  <1>3. PICK map : map = maps[task.in]
    OBVIOUS
  <1>4. map \in MapRecords /\ map.counter \in Nat
    <2>1. map \in MapRecords
      BY <1>1, <1>3, AtTask DEF CompilationInv, Stepping
    <2>. QED BY <2>1 DEF MapRecords
  <1>5. PICK id, instr : id \in Nat /\ id = map.counter /\ instr = Instruction("STORE", id)
    BY <1>4
  <1>6. instr \in Assembled /\ instr.op = "STORE" /\ instr.arg = id
    BY <1>5 DEF Instruction, Assembled, Opcodes
  <1>7. PICK new : new = [Longer(map, instr, 1) EXCEPT !.counter = id + 1]
    OBVIOUS
  <1>8. /\ new \in MapRecords /\ new.code = Append(map.code, instr) /\ new.depth = Append(map.depth, 1)
        /\ new.sound = map.sound
    <2>0. 1 \in Nat /\ id + 1 \in Nat
      BY <1>5
    <2>1. PICK base \in Nat, next \in Nat : base = 1 /\ next = id + 1
      BY <2>0
    <2>2. PICK long : long = Longer(map, instr, base)
      OBVIOUS
    <2>3. /\ long \in MapRecords /\ long.code = Append(map.code, instr) /\ long.depth = Append(map.depth, base)
          /\ long.sound = map.sound
      BY <1>4, <1>6, <2>2, LongerFacts
    <2>4. new = [long EXCEPT !.counter = next]
      BY <1>7, <2>1, <2>2
    <2>5. /\ new \in MapRecords /\ new.code = long.code /\ new.depth = long.depth /\ new.sound = long.sound
      BY <2>3, <2>4 DEF MapRecords
    <2>. QED BY <2>1, <2>3, <2>5
  <1>9. maps' = [maps EXCEPT ![task.in] = new]
    BY <1>2, <1>3, <1>5, <1>7 DEF declare
  <1>10. refs' = Append(refs, [name |-> task.what, ref |-> id])
    BY <1>3, <1>5 DEF declare
  <1>11. /\ refs \in Names /\ pool \in Seq(Int \cup Text)
    BY DEF CompilationInv, StateOK, Names
  <1>12. /\ refs' \in Names /\ Len(refs) \in Nat /\ DOMAIN refs = 1..Len(refs) /\ DOMAIN refs' = 1..Len(refs) + 1
         /\ \A i \in 1..Len(refs) : refs'[i] = refs[i]
         /\ refs'[Len(refs) + 1] = [name |-> task.what, ref |-> id]
    <2>1. PICK e \in [name : STRING, ref : Nat] : e = [name |-> task.what, ref |-> id]
      BY <1>2, <1>5
    <2>. QED BY <1>10, <1>11, <2>1, Appended DEF Names
  <1>13. TablesGrow
    BY <1>1, <1>11, <1>12 DEF TablesGrow
  <1>14. Written(instr)'
    <2>1. Len(refs) + 1 \in DOMAIN refs' /\ refs'[Len(refs) + 1].ref = id
      BY <1>12
    <2>. QED BY <1>6, <2>1 DEF Written, WrittenOps
  <1>15. Operands(instr) = 1
    BY <1>6 DEF Operands
  <1>16. Writes(instr, new)
    BY <1>1, <1>2, <1>3, <1>6, <1>8, <1>9, <1>13, <1>14, <1>15 DEF Writes, Stepping, session, Pushers
  <1>. QED BY <1>16, WriteKeeps
-----------------------------------------------------------------------------
(* Scopes, functions and branches.                                           *)

LEMMA OneTask ==
  ASSUME NEW t \in Tasks, NEW tasks, tasks = <<t>>, task.do \notin Pushers,
         t.do # "emit", t.base = 0, TaskOK(t)'
  PROVE  /\ tasks \in Seq(Tasks) /\ tasks # <<>> /\ tasks[1].base = 0
         /\ \A k \in 1..Len(tasks) : TaskOK(tasks[k])'
         /\ \A k \in 1..Len(tasks) - 1 : Follows(tasks[k], tasks[k + 1])'
         /\ Hands_over(tasks[Len(tasks)], maps'[task.in].sound)
         /\ NewMarks(tasks) /\ JumpsForth(tasks)
  <1>1. /\ tasks \in Seq(Tasks) /\ Len(tasks) = 1 /\ tasks # <<>> /\ DOMAIN tasks = {1} /\ tasks[1] = t
        /\ 1..Len(tasks) = {1} /\ 1..Len(tasks) - 1 = {}
    OBVIOUS
  <1>2. ASSUME NEW k \in 1..Len(tasks)
        PROVE  TaskOK(tasks[k])'
    <2>1. tasks[k] = t
      BY <1>1
    <2>. QED BY <2>1 DEF TaskOK
  <1>3. NewMarks(tasks) /\ JumpsForth(tasks)
    BY <1>1 DEF NewMarks, JumpsForth, Owes
  <1>. QED BY <1>1, <1>2, <1>3 DEF Hands_over

LEMMA CompileObjectsKeeps ==
  ASSUME CompilationInv, compile_objects, UNCHANGED session
  PROVE  CompilationInv'
  <1>1. Quietly /\ Stepping /\ task.do = "scope" /\ Then(<<Task("objects", task.in, 0, task.what)>>)
    BY DEF compile_objects, Doing, Quietly, Stepping, NoNames, machineVars
  <1>2. /\ task.in \in DOMAIN maps /\ task.in \in Nat /\ maps[task.in] \in MapRecords
        /\ task.what \in Scopes
    BY <1>1, AtTerm, AtTask DEF TaskOK, CompilationInv, Stepping
  <1>3. /\ maps' \in Seq(MapRecords) /\ DOMAIN maps' = DOMAIN maps /\ Len(maps') = Len(maps)
        /\ \A m \in DOMAIN maps : maps'[m].sound => maps[m].sound
        /\ \A m \in DOMAIN maps : SameCode(m) \/ (maps'[m].code = <<>> /\ maps'[m].depth = <<>>)
    <2>0. maps \in Seq(MapRecords)
      BY DEF CompilationInv, StateOK
    <2>1. CASE maps' = maps
      <3>1. maps' \in Seq(MapRecords) /\ DOMAIN maps' = DOMAIN maps /\ Len(maps') = Len(maps)
        BY <2>0, <2>1
      <3>. QED BY <2>1, <3>1, Zenon DEF SameCode
    <2>2. CASE maps' = [maps EXCEPT ![task.in] = Emptied(@)]
      <3>1. PICK new : new = Emptied(maps[task.in])
        OBVIOUS
      <3>2. /\ new \in MapRecords /\ new.code = <<>> /\ new.depth = <<>>
            /\ new.sound = maps[task.in].sound
        <4>1. <<>> \in Seq(Assembled) /\ <<>> \in Seq(Nat)
          OBVIOUS
        <4>. QED BY <1>2, <3>1, <4>1, Zenon DEF Emptied, MapRecords
      <3>3. maps' = [maps EXCEPT ![task.in] = new]
        BY <1>2, <2>2, <3>1
      <3>4. /\ maps' \in Seq(MapRecords) /\ DOMAIN maps' = DOMAIN maps /\ Len(maps') = Len(maps)
            /\ maps'[task.in] = new
            /\ \A m \in DOMAIN maps : m # task.in => maps'[m] = maps[m]
        BY <1>2, <2>0, <3>2, <3>3
      <3>5. \A m \in DOMAIN maps : maps'[m].sound => maps[m].sound
        BY <3>2, <3>4, Zenon
      <3>6. \A m \in DOMAIN maps : SameCode(m) \/ (maps'[m].code = <<>> /\ maps'[m].depth = <<>>)
        BY <3>2, <3>4 DEF SameCode
      <3>. QED BY <3>4, <3>5, <3>6
    <2>. QED BY <2>1, <2>2 DEF compile_objects
  <1>4. PICK t, tasks : t = Task("objects", task.in, 0, task.what) /\ tasks = <<t>>
    OBVIOUS
  <1>5. /\ t \in Tasks /\ t.do # "emit" /\ t.base = 0
    BY <1>2, <1>4, StatementTasks DEF Task
  <1>6. TaskOK(t)'
    BY <1>2, <1>3, <1>4 DEF TaskOK, Task
  <1>7. /\ tasks \in Seq(Tasks) /\ tasks # <<>> /\ tasks[1].base = 0
        /\ \A k \in 1..Len(tasks) : TaskOK(tasks[k])'
        /\ \A k \in 1..Len(tasks) - 1 : Follows(tasks[k], tasks[k + 1])'
        /\ Hands_over(tasks[Len(tasks)], maps'[task.in].sound)
        /\ NewMarks(tasks) /\ JumpsForth(tasks)
    <2>1. task.do \notin Pushers
      BY <1>1 DEF Pushers
    <2>. QED BY <1>4, <1>5, <1>6, <2>1, OneTask
  <1>8. UNCHANGED <<functions, refs, pool, labels, owner, shell_env, stage, linked, trusted>>
    BY <1>1 DEF Quietly, Stepping, table, counters, session
  <1>9. /\ functions' \in Seq([name : STRING, reference : Nat]) /\ Len(maps') = Len(functions') + 1
        /\ \A k \in DOMAIN functions : k \in DOMAIN functions' /\ functions'[k] = functions[k]
        /\ labels' \in Nat /\ labels <= labels'
        /\ owner' \in Seq(Nat) /\ Len(owner') = labels' /\ \A l \in 1..labels : owner'[l] = owner[l]
        /\ HeadsOK'
    BY <1>3, <1>8 DEF CompilationInv, StateOK, HeadsOK
  <1>10. Then(tasks)
    BY <1>1, <1>4
  <1>11. stage = "compiling" /\ mode' = "prompt" /\ todo # <<>> /\ task.do # "emit"
    BY <1>1 DEF Quietly, Stepping
  <1>12. Expands(tasks)
    BY <1>3, <1>7, <1>8, <1>9, <1>10, <1>11 DEF Expands
  <1>. QED BY <1>12, ExpandKeeps

LEMMA PushFunctionKeeps ==
  ASSUME CompilationInv, push_function, UNCHANGED session
  PROVE  CompilationInv'
  <1>1. Stepping /\ task.do = "statement" /\ task.what.type = "FUNCTION" /\ mode' = "prompt"
    BY DEF push_function, Stating, Doing, Stepping, machineVars
  <1>2. task.what \in Statements
    BY <1>1, AtTerm DEF TaskOK
  <1>3. task.what.name \in STRING /\ task.what.scope \in Scopes
    BY <1>1, <1>2, StatementsAssumption
  <1>4. /\ maps \in Seq(MapRecords) /\ functions \in Seq([name : STRING, reference : Nat])
        /\ Len(maps) \in Nat /\ DOMAIN maps = 1..Len(maps)
        /\ Len(functions) \in Nat /\ DOMAIN functions = 1..Len(functions)
        /\ Len(maps) = Len(functions) + 1
        /\ labels \in Nat /\ owner \in Seq(Nat) /\ Len(owner) = labels
    BY DEF CompilationInv, StateOK
  <1>5. new_map \in MapRecords /\ new_map.code = <<>> /\ new_map.depth = <<>>
    BY DEF new_map, MapRecords
  <1>6. /\ maps' \in Seq(MapRecords) /\ Len(maps') = Len(maps) + 1 /\ DOMAIN maps' = 1..Len(maps) + 1
        /\ \A m \in 1..Len(maps) : maps'[m] = maps[m]
        /\ maps'[Len(maps) + 1] = new_map
    BY <1>4, <1>5, Appended DEF push_function
  <1>7. /\ functions' \in Seq([name : STRING, reference : Nat]) /\ Len(functions') = Len(functions) + 1
        /\ DOMAIN functions' = 1..Len(functions) + 1
        /\ \A k \in 1..Len(functions) : functions'[k] = functions[k]
        /\ functions'[Len(functions) + 1].reference = labels
    <2>1. PICK e \in [name : STRING, reference : Nat] : e = [name |-> task.what.name, reference |-> labels]
      BY <1>3, <1>4
    <2>2. functions' = Append(functions, e)
      BY <2>1 DEF push_function
    <2>. QED BY <1>4, <2>1, <2>2, Appended
  <1>8. /\ labels' = labels + 1 /\ owner' \in Seq(Nat) /\ Len(owner') = labels'
        /\ \A l \in 1..labels : owner'[l] = owner[l]
        /\ owner'[labels + 1] = 0
    <2>1. PICK e \in Nat : e = 0
      OBVIOUS
    <2>2. owner' = Append(owner, e)
      BY <2>1 DEF push_function
    <2>. QED BY <1>4, <2>1, <2>2, Appended DEF push_function
  <1>9. HeadsOK'
    <2>1. HeadsOK
      BY DEF CompilationInv
    <2>2. \A l \in 0..labels - 1 : l \in 0..labels' - 1 /\ l + 1 \in 1..labels /\ l # labels
      BY <1>4, <1>8
    <2>3. labels \in 0..labels' - 1
      BY <1>4, <1>8
    <2>4. \A k \in DOMAIN functions' : k \in DOMAIN functions \/ k = Len(functions) + 1
      BY <1>4, <1>7
    <2>5. \A k \in DOMAIN functions :
             /\ functions'[k].reference \in 0..labels - 1
             /\ owner[functions'[k].reference + 1] = 0
      BY <1>4, <1>7, <2>1 DEF HeadsOK
    <2>6. ASSUME NEW k \in DOMAIN functions'
          PROVE  functions'[k].reference \in 0..labels' - 1 /\ owner'[functions'[k].reference + 1] = 0
      BY <1>7, <1>8, <2>2, <2>3, <2>4, <2>5
    <2>7. ASSUME NEW j \in DOMAIN functions', NEW k \in DOMAIN functions',
                 functions'[j].reference = functions'[k].reference
          PROVE  j = k
      <3>1. CASE j \in DOMAIN functions /\ k \in DOMAIN functions
        BY <1>4, <1>7, <2>1, <2>7, <3>1 DEF HeadsOK
      <3>2. CASE j = Len(functions) + 1 /\ k \in DOMAIN functions
        BY <1>7, <2>2, <2>5, <2>7, <3>2
      <3>3. CASE j \in DOMAIN functions /\ k = Len(functions) + 1
        BY <1>7, <2>2, <2>5, <2>7, <3>3
      <3>. QED BY <2>4, <3>1, <3>2, <3>3
    <2>. QED BY <2>6, <2>7 DEF HeadsOK
  <1>0. PICK m \in Nat : m = Len(maps) + 1
    BY <1>4
  <1>10. PICK t, tasks : t = Task("scope", m, 0, task.what.scope) /\ tasks = <<t>>
    OBVIOUS
  <1>11. t \in Tasks /\ t.do # "emit" /\ t.base = 0
    BY <1>3, <1>10, StatementTasks DEF Task
  <1>12. TaskOK(t)'
    <2>1. m \in DOMAIN maps'
      BY <1>0, <1>4, <1>6
    <2>. QED BY <1>3, <1>10, <2>1 DEF TaskOK, Task
  <1>13. /\ tasks \in Seq(Tasks) /\ tasks # <<>> /\ tasks[1].base = 0
         /\ \A k \in 1..Len(tasks) : TaskOK(tasks[k])'
         /\ \A k \in 1..Len(tasks) - 1 : Follows(tasks[k], tasks[k + 1])'
         /\ Hands_over(tasks[Len(tasks)], maps'[task.in].sound)
         /\ NewMarks(tasks) /\ JumpsForth(tasks)
    <2>1. task.do \notin Pushers
      BY <1>1 DEF Pushers
    <2>. QED BY <1>10, <1>11, <1>12, <2>1, OneTask
  <1>14. UNCHANGED <<refs, pool, shell_env, stage, linked, trusted>>
    BY <1>1 DEF push_function, Stepping, session
  <1>15. Then(tasks)
    BY <1>0, <1>10 DEF push_function
  <1>16. /\ \A n \in DOMAIN maps : n \in DOMAIN maps' /\ (maps'[n].sound => maps[n].sound)
         /\ \A n \in DOMAIN maps' : \/ n \in DOMAIN maps /\ SameCode(n)
                                    \/ maps'[n].code = <<>> /\ maps'[n].depth = <<>>
    <2>1. ASSUME NEW n \in DOMAIN maps
          PROVE  n \in DOMAIN maps' /\ maps'[n] = maps[n]
      BY <1>4, <1>6
    <2>2. ASSUME NEW n \in DOMAIN maps'
          PROVE  \/ n \in DOMAIN maps /\ SameCode(n)
                 \/ maps'[n].code = <<>> /\ maps'[n].depth = <<>>
      <3>1. n \in DOMAIN maps \/ n = Len(maps) + 1
        BY <1>4, <1>6
      <3>2. CASE n \in DOMAIN maps
        BY <2>1, <3>2 DEF SameCode
      <3>3. CASE n = Len(maps) + 1
        BY <1>5, <1>6, <3>3
      <3>. QED BY <3>1, <3>2, <3>3
    <2>. QED BY <2>1, <2>2
  <1>17. /\ Len(maps') = Len(functions') + 1
         /\ \A k \in DOMAIN functions : k \in DOMAIN functions' /\ functions'[k] = functions[k]
         /\ labels' \in Nat /\ labels <= labels'
    BY <1>4, <1>6, <1>7, <1>8
  <1>18. Expands(tasks)
    <2>1. stage = "compiling" /\ mode' = "prompt" /\ todo # <<>> /\ task.do # "emit"
      BY <1>1 DEF Stepping
    <2>. QED BY <1>6, <1>7, <1>8, <1>9, <1>13, <1>14, <1>15, <1>16, <1>17, <2>1 DEF Expands
  <1>. QED BY <1>18, ExpandKeeps

\* The condition, negated, the jump over the scope, and the scope.
Tested(this, m, exit_label) ==
    << IF this.condition = <<>> THEN Emission(m, 0, "LOADBOOL", 1) ELSE ValueOf(this.condition, m, 0),
       Emission(m, 1, "NOT", 0),
       Emission(m, 1, "LBLJMPIF", exit_label),
       Task("scope", m, 0, this.scope[1]) >>

IsEmission(t, m, b, op, arg) ==
    /\ t \in Tasks /\ t.do = "emit" /\ t.in = m /\ t.base = b
    /\ t.what.op = op /\ t.what.arg = arg
    /\ TaskOK(t)'
    /\ op \in {"LOADBOOL", "NOT"} => After(t) = b + 1

LEMMA Emissions ==
  ASSUME NEW m \in Nat, m \in DOMAIN maps', NEW b \in Nat, NEW arg \in Int,
         NEW op \in {"LOADBOOL", "NOT", "LBLJMPIF", "LBLJMP", "LBL"},
         op \in {"NOT", "LBLJMPIF"} => b = 1,
         op = "LBL" => b = 0,
         NEW t, t = Emission(m, b, op, arg)
  PROVE  IsEmission(t, m, b, op, arg)
  <1>1. /\ t \in Tasks /\ t.do = "emit" /\ t.in = m /\ t.base = b
        /\ t.what \in Assembled /\ t.what.op = op /\ t.what.arg = arg
    BY DEF Emission, Task, Instruction, Tasks, Kinds, Pieces, Assembled, Opcodes
  <1>2. Operands(t.what) <= b
    BY <1>1 DEF Operands
  <1>3. Written(t.what)'
    BY <1>1 DEF Written, WrittenOps
  <1>4. TaskOK(t)'
    BY <1>1, <1>2, <1>3 DEF TaskOK
  <1>5. op \in {"LOADBOOL", "NOT"} => Growth(t.what) = 1
    BY <1>1 DEF Growth
  <1>6. op \in {"LOADBOOL", "NOT"} => After(t) = b + 1
    BY <1>1, <1>5 DEF After
  <1>. QED BY <1>1, <1>4, <1>6 DEF IsEmission

AreTested(q, m, x) ==
    /\ q \in Seq(Tasks) /\ Len(q) = 4 /\ q[1].base = 0
    /\ \A k \in 1..4 : q[k].in = m /\ TaskOK(q[k])'
    /\ \A k \in 1..3 : Follows(q[k], q[k + 1])'
    /\ \A k \in 1..4, l \in Int : ~Owes(q[k], l)
    /\ \A k \in 1..4 : q[k].do = "emit" /\ IsJump(q[k].what) => q[k].what.arg = x

LEMMA TestedFacts ==
  ASSUME NEW m \in Nat, m \in DOMAIN maps', NEW x \in Nat, NEW this \in Clauses,
         this.scope # <<>>, NEW q, q = Tested(this, m, x)
  PROVE  AreTested(q, m, x)
  <1>1. PICK t1, t2, t3, t4 :
           /\ t1 = IF this.condition = <<>> THEN Emission(m, 0, "LOADBOOL", 1) ELSE ValueOf(this.condition, m, 0)
           /\ t2 = Emission(m, 1, "NOT", 0)
           /\ t3 = Emission(m, 1, "LBLJMPIF", x)
           /\ t4 = Task("scope", m, 0, this.scope[1])
    OBVIOUS
  <1>2. this.condition \in Expressions /\ this.scope[1] \in Scopes
    <2>1. this.condition \in Expressions /\ this.scope \in [1..1 -> Scopes]
      BY DEF Clauses
    <2>. QED BY <2>1
  <1>3. /\ t1 \in Tasks /\ t1.in = m /\ t1.base = 0 /\ TaskOK(t1)' /\ After(t1) = 1 /\ t1.do \in Pushers
        /\ t1.do = "emit" => t1.what.op = "LOADBOOL"
    <2>1. CASE t1 = Emission(m, 0, "LOADBOOL", 1)
      <3>1. PICK b \in Nat, arg \in Int, op \in {"LOADBOOL", "NOT", "LBLJMPIF", "LBLJMP", "LBL"} :
               b = 0 /\ arg = 1 /\ op = "LOADBOOL"
        OBVIOUS
      <3>2. t1 = Emission(m, b, op, arg)
        BY <2>1, <3>1
      <3>3. IsEmission(t1, m, b, op, arg)
        <4>1. op \notin {"NOT", "LBLJMPIF"} /\ op # "LBL"
          BY <3>1
        <4>. QED BY <3>2, <4>1, Emissions
      <3>. QED BY <3>1, <3>3 DEF Pushers, IsEmission
    <2>2. CASE t1 = ValueOf(this.condition, m, 0)
      <3>1. t1 \in Tasks
        BY <1>2, <2>2, StatementTasks
      <3>2. t1.do = "value" /\ t1.in = m /\ t1.base = 0 /\ t1.what \in Expressions
        BY <1>2, <2>2 DEF ValueOf, Task
      <3>3. TaskOK(t1)' /\ After(t1) = 1
        BY <3>2 DEF TaskOK, After
      <3>. QED BY <3>1, <3>2, <3>3 DEF Pushers
    <2>. QED BY <1>1, <2>1, <2>2
  <1>4. /\ t2 \in Tasks /\ t2.in = m /\ t2.base = 1 /\ TaskOK(t2)' /\ After(t2) = 2 /\ t2.do = "emit"
        /\ t2.what.op = "NOT"
    <2>1. PICK b \in Nat, arg \in Int, op \in {"LOADBOOL", "NOT", "LBLJMPIF", "LBLJMP", "LBL"} :
             b = 1 /\ arg = 0 /\ op = "NOT"
      OBVIOUS
    <2>2. t2 = Emission(m, b, op, arg)
      BY <1>1, <2>1
    <2>3. IsEmission(t2, m, b, op, arg)
      <3>1. op # "LBL"
        BY <2>1
      <3>. QED BY <2>1, <2>2, <3>1, Emissions
    <2>. QED BY <2>1, <2>3 DEF IsEmission
  <1>5. /\ t3 \in Tasks /\ t3.in = m /\ t3.base = 1 /\ TaskOK(t3)' /\ t3.do = "emit"
        /\ t3.what.op = "LBLJMPIF" /\ t3.what.arg = x
    <2>1. PICK b \in Nat, arg \in Int, op \in {"LOADBOOL", "NOT", "LBLJMPIF", "LBLJMP", "LBL"} :
             b = 1 /\ arg = x /\ op = "LBLJMPIF"
      OBVIOUS
    <2>2. t3 = Emission(m, b, op, arg)
      BY <1>1, <2>1
    <2>3. IsEmission(t3, m, b, op, arg)
      <3>1. op # "LBL"
        BY <2>1
      <3>. QED BY <2>1, <2>2, <3>1, Emissions
    <2>. QED BY <2>1, <2>3 DEF IsEmission
  <1>6. t4 \in Tasks /\ t4.in = m /\ t4.base = 0 /\ t4.do = "scope" /\ TaskOK(t4)'
    <2>1. t4 \in Tasks
      BY <1>1, <1>2, StatementTasks
    <2>2. t4.in = m /\ t4.base = 0 /\ t4.do = "scope" /\ t4.what \in Scopes
      BY <1>1, <1>2 DEF Task
    <2>3. TaskOK(t4)'
      BY <2>2 DEF TaskOK
    <2>. QED BY <2>1, <2>2, <2>3
  <1>7. q \in Seq(Tasks) /\ Len(q) = 4 /\ q[1] = t1 /\ q[2] = t2 /\ q[3] = t3 /\ q[4] = t4
    <2>1. q = <<t1, t2, t3, t4>>
      BY <1>1 DEF Tested
    <2>. QED BY <1>3, <1>4, <1>5, <1>6, <2>1
  <1>8. ASSUME NEW k \in 1..4
        PROVE  q[k].in = m /\ TaskOK(q[k])'
    <2>1. q[k] = t1 \/ q[k] = t2 \/ q[k] = t3 \/ q[k] = t4
      BY <1>7
    <2>2. q[k].in = m
      BY <1>3, <1>4, <1>5, <1>6, <2>1
    <2>3. TaskOK(q[k])'
      BY <1>3, <1>4, <1>5, <1>6, <2>1 DEF TaskOK
    <2>. QED BY <2>2, <2>3
  <1>9. Follows(t1, t2)' /\ Follows(t2, t3)' /\ Follows(t3, t4)'
    BY <1>3, <1>4, <1>5, <1>6 DEF Follows, Pushers
  <1>10. ASSUME NEW k \in 1..3
         PROVE  Follows(q[k], q[k + 1])'
    <2>1. \/ q[k] = t1 /\ q[k + 1] = t2
          \/ q[k] = t2 /\ q[k + 1] = t3
          \/ q[k] = t3 /\ q[k + 1] = t4
      BY <1>7
    <2>. QED BY <1>9, <2>1 DEF Follows
  <1>11. ASSUME NEW k \in 1..4
         PROVE  /\ \A l \in Int : ~Owes(q[k], l)
                /\ q[k].do = "emit" /\ IsJump(q[k].what) => q[k].what.arg = x
    <2>1. q[k] = t1 \/ q[k] = t2 \/ q[k] = t3 \/ q[k] = t4
      BY <1>7
    <2>. QED BY <1>3, <1>4, <1>5, <1>6, <2>1 DEF Owes, IsLabel, IsJump
  <1>. QED BY <1>3, <1>7, <1>8, <1>10, <1>11 DEF AreTested

\* What comes behind the condition and the scope of a branch: the labels, each
\* used once, one of them by the condition.
EndsBranch(r, m, x) ==
    /\ r \in Seq(Tasks)
    /\ \A i \in DOMAIN r : r[i].in = m /\ r[i].base = 0 /\ TaskOK(r[i])'
    /\ NewMarks(r) /\ JumpsForth(r)
    /\ \E i \in DOMAIN r : Owes(r[i], x)

MoreLabels ==
    /\ labels' \in Nat /\ labels <= labels'
    /\ owner' \in Seq(Nat) /\ Len(owner') = labels'
    /\ \A l \in 1..labels : owner'[l] = owner[l]

LEMMA BranchKeeps ==
  ASSUME CompilationInv, Stepping, mode' = "prompt", UNCHANGED table,
         task.do = "if", NEW m, m = task.in, NEW x \in Nat, NEW this \in Clauses,
         this.scope # <<>>, NEW q, q = Tested(this, m, x), NEW r, Parts(q \o r, TRUE),
         EndsBranch(r, m, x), MoreLabels
  PROVE  CompilationInv'
  <1>0. /\ r \in Seq(Tasks)
        /\ \A i \in DOMAIN r : r[i].in = m /\ r[i].base = 0 /\ TaskOK(r[i])'
        /\ NewMarks(r) /\ JumpsForth(r)
        /\ \E i \in DOMAIN r : Owes(r[i], x)
    BY DEF EndsBranch
  <1>1. PICK well \in BOOLEAN : well = TRUE
    OBVIOUS
  <1>2. PICK tasks : tasks = q \o r
    OBVIOUS
  <1>3. Parts(tasks, well)
    BY <1>1, <1>2, Zenon
  <1>4. m \in Nat /\ m \in DOMAIN maps' /\ TaskOK(task)
    BY <1>3, PartsTask
  <1>5. /\ q \in Seq(Tasks) /\ Len(q) = 4 /\ q[1].base = 0
        /\ \A k \in 1..4 : q[k].in = m /\ TaskOK(q[k])'
        /\ \A k \in 1..3 : Follows(q[k], q[k + 1])'
        /\ \A k \in 1..4, l \in Int : ~Owes(q[k], l)
        /\ \A k \in 1..4 : q[k].do = "emit" /\ IsJump(q[k].what) => q[k].what.arg = x
    <2>1. AreTested(q, m, x)
      BY <1>4, TestedFacts
    <2>. QED BY <2>1 DEF AreTested
  <1>6. /\ tasks \in Seq(Tasks) /\ Len(r) \in Nat /\ Len(tasks) = 4 + Len(r) /\ DOMAIN r = 1..Len(r)
        /\ DOMAIN tasks = 1..4 + Len(r)
        /\ \A i \in 1..4 : tasks[i] = q[i]
        /\ \A i \in 1..Len(r) : tasks[4 + i] = r[i]
    <2>0. q \in Seq(Tasks)
      BY <1>5
    <2>1. /\ tasks \in Seq(Tasks) /\ Len(r) \in Nat /\ Len(tasks) = Len(q) + Len(r) /\ DOMAIN r = 1..Len(r)
          /\ DOMAIN tasks = 1..Len(q) + Len(r)
          /\ \A i \in 1..Len(q) : tasks[i] = q[i]
          /\ \A i \in 1..Len(r) : tasks[Len(q) + i] = r[i]
      BY <1>0, <1>2, <2>0, Joined
    <2>2. Len(q) = 4
      BY <1>5
    <2>. QED BY <2>1, <2>2
  <1>7. \A k \in DOMAIN tasks : \/ k \in 1..4 /\ tasks[k] = q[k]
                                \/ k \notin 1..4 /\ k - 4 \in DOMAIN r /\ tasks[k] = r[k - 4]
    <2>1. ASSUME NEW k \in 1..4 + Len(r), k \notin 1..4
          PROVE  k - 4 \in 1..Len(r) /\ 4 + (k - 4) = k
      BY <1>6, <2>1
    <2>. QED BY <1>6, <2>1
  <1>8. \A i \in DOMAIN r : 4 + i \in DOMAIN tasks /\ 4 + i \notin 1..4 /\ tasks[4 + i] = r[i]
    BY <1>6
  <1>9. ASSUME NEW k \in 1..Len(tasks)
        PROVE  TaskOK(tasks[k])'
    <2>1. PICK t : t = tasks[k]
      OBVIOUS
    <2>2. CASE k \in 1..4 /\ t = q[k]
      <3>1. TaskOK(q[k])'
        BY <1>5, <2>2
      <3>. QED BY <2>1, <2>2, <3>1 DEF TaskOK
    <2>3. CASE k - 4 \in DOMAIN r /\ t = r[k - 4]
      <3>1. PICK i \in DOMAIN r : t = r[i]
        BY <2>3
      <3>2. TaskOK(r[i])'
        BY <1>0
      <3>. QED BY <2>1, <3>1, <3>2 DEF TaskOK
    <2>. QED BY <1>6, <1>7, <2>1, <2>2, <2>3
  <1>10. ASSUME NEW k \in 1..Len(tasks) - 1
         PROVE  Follows(tasks[k], tasks[k + 1])'
    <2>1. k \in DOMAIN tasks /\ k + 1 \in DOMAIN tasks /\ (k + 1 \in 1..4 => k \in 1..3)
      BY <1>6
    <2>2. CASE k + 1 \in 1..4
      <3>1. k \in 1..3 /\ tasks[k] = q[k] /\ tasks[k + 1] = q[k + 1]
        BY <1>6, <2>1, <2>2
      <3>2. Follows(q[k], q[k + 1])'
        BY <1>5, <3>1
      <3>. QED BY <3>1, <3>2 DEF Follows
    <2>3. CASE k + 1 \notin 1..4
      <3>1. tasks[k + 1].base = 0
        BY <1>0, <1>7, <2>1, <2>3
      <3>. QED BY <3>1 DEF Follows
    <2>. QED BY <2>2, <2>3
  <1>11. NewMarks(tasks)
    <2>1. ASSUME NEW k \in DOMAIN tasks, NEW l \in Int, Owes(tasks[k], l)
          PROVE  k \notin 1..4 /\ k - 4 \in DOMAIN r /\ tasks[k] = r[k - 4] /\ Owes(r[k - 4], l)
      BY <1>5, <1>7, <2>1
    <2>2. ASSUME NEW k \in DOMAIN tasks, NEW l \in Int, Owes(tasks[k], l)
          PROVE  /\ l \in labels..labels' - 1
                 /\ owner'[l + 1] = tasks[k].in
                 /\ \A j \in DOMAIN tasks : Owes(tasks[j], l) => j = k
      <3>1. k - 4 \in DOMAIN r /\ tasks[k] = r[k - 4] /\ Owes(r[k - 4], l)
        BY <2>1, <2>2
      <3>2. /\ l \in labels..labels' - 1 /\ owner'[l + 1] = r[k - 4].in
            /\ \A j \in DOMAIN r : Owes(r[j], l) => j = k - 4
        BY <1>0, <3>1 DEF NewMarks
      <3>3. ASSUME NEW j \in DOMAIN tasks, Owes(tasks[j], l)
            PROVE  j = k
        <4>1. j - 4 \in DOMAIN r /\ Owes(r[j - 4], l)
          BY <2>1, <3>3
        <4>2. j - 4 = k - 4
          BY <3>2, <4>1
        <4>3. j \in Int /\ k \in Int
          BY <1>6
        <4>. QED BY <4>2, <4>3
      <3>. QED BY <3>1, <3>2, <3>3
    <2>. QED BY <2>2 DEF NewMarks
  <1>12. JumpsForth(tasks)
    <2>1. ASSUME NEW k \in DOMAIN tasks, tasks[k].do = "emit", IsJump(tasks[k].what)
          PROVE  \E j \in DOMAIN tasks : /\ j > k /\ tasks[j].in = tasks[k].in
                                         /\ Owes(tasks[j], tasks[k].what.arg)
      <3>1. CASE k \in 1..4 /\ tasks[k] = q[k]
        <4>1. PICK i \in DOMAIN r : Owes(r[i], x)
          BY <1>0
        <4>2. 4 + i \in DOMAIN tasks /\ tasks[4 + i] = r[i] /\ 4 + i > k
          BY <1>6, <1>8, <3>1
        <4>3. tasks[k].what.arg = x /\ tasks[k].in = m /\ r[i].in = m
          BY <1>0, <1>5, <2>1, <3>1
        <4>. QED BY <4>1, <4>2, <4>3
      <3>2. CASE k - 4 \in DOMAIN r /\ tasks[k] = r[k - 4]
        <4>1. PICK i \in DOMAIN r : i > k - 4 /\ r[i].in = r[k - 4].in /\ Owes(r[i], r[k - 4].what.arg)
          BY <1>0, <2>1, <3>2 DEF JumpsForth
        <4>2. 4 + i \in DOMAIN tasks /\ tasks[4 + i] = r[i] /\ 4 + i > k
          BY <1>6, <1>8, <4>1
        <4>. QED BY <3>2, <4>1, <4>2
      <3>. QED BY <1>7, <3>1, <3>2
    <2>. QED BY <2>1 DEF JumpsForth
  <1>13. tasks # <<>> /\ tasks[1].in = task.in /\ tasks[1].base <= task.base
    <2>1. tasks[1] = q[1] /\ 1 \in DOMAIN tasks
      BY <1>6
    <2>2. task.base = 0
      BY <1>4 DEF TaskOK
    <2>. QED BY <1>5, <2>1, <2>2
  <1>14. Hands_over(tasks[Len(tasks)], maps'[task.in].sound)
    BY DEF Hands_over, Pushers
  <1>15. mode' = "prompt" /\ stage = "compiling" /\ todo # <<>> /\ task.do # "emit" /\ UNCHANGED <<table, session>>
    BY DEF Stepping
  <1>16. /\ labels' \in Nat /\ labels <= labels'
         /\ owner' \in Seq(Nat) /\ Len(owner') = labels'
         /\ \A l \in 1..labels : owner'[l] = owner[l]
    BY DEF MoreLabels
  <1>. QED BY <1>3, <1>6, <1>9, <1>10, <1>11, <1>12, <1>13, <1>14, <1>15, <1>16, PartsKeep

\* A label, and a jump.
LEMMA Marks ==
  ASSUME NEW m \in Nat, m \in DOMAIN maps', NEW op \in {"LBLJMP", "LBL"}, NEW l \in Int,
         NEW e, e = Emission(m, 0, op, l)
  PROVE  /\ e \in Tasks /\ e.do = "emit" /\ e.in = m /\ e.base = 0 /\ e.what.op = op /\ e.what.arg = l
         /\ TaskOK(e)'
  <1>1. PICK b \in Nat : b = 0
    OBVIOUS
  <1>2. op \in {"LOADBOOL", "NOT", "LBLJMPIF", "LBLJMP", "LBL"} /\ op \notin {"NOT", "LBLJMPIF"}
    OBVIOUS
  <1>3. e = Emission(m, b, op, l)
    BY <1>1
  <1>4. /\ e \in Tasks /\ e.do = "emit" /\ e.in = m /\ e.base = b /\ e.what.op = op /\ e.what.arg = l
        /\ TaskOK(e)'
    <2>1. IsEmission(e, m, b, op, l)
      BY <1>1, <1>2, <1>3, Emissions
    <2>. QED BY <2>1 DEF IsEmission
  <1>. QED BY <1>1, <1>4

LEMMA PushIfStatementKeeps ==
  ASSUME CompilationInv, push_if_statement, UNCHANGED session
  PROVE  CompilationInv'
  <1>1. Stepping /\ task.do = "if" /\ mode' = "prompt" /\ UNCHANGED table
    BY DEF push_if_statement, Doing, Stepping, machineVars
  <1>2. task.what \in Seq(Clauses) /\ task.what # <<>>
    BY <1>1, AtTerm DEF TaskOK
  <1>3. PICK this, m, x : this = Head(task.what) /\ m = task.in /\ x = labels
    OBVIOUS
  <1>4. this \in Clauses /\ Tail(task.what) \in Seq(Clauses)
    BY <1>2, <1>3
  <1>5. labels \in Nat /\ owner \in Seq(Nat) /\ Len(owner) = labels /\ m \in Nat
    <2>1. m \in Nat
      BY <1>1, <1>3, AtTerm
    <2>. QED BY <2>1 DEF CompilationInv, StateOK
  <1>6. PICK q : q = Tested(this, m, x)
    OBVIOUS
  <1>7. CASE Parts(<<>>, TRUE) /\ UNCHANGED counters
    <2>1. PICK well \in BOOLEAN : well = TRUE
      OBVIOUS
    <2>2. Parts(<<>>, well)
      BY <1>7, <2>1, Zenon
    <2>3. Quietly
      BY <1>1, <1>7 DEF Quietly
    <2>4. task.do \notin Pushers
      BY <1>1 DEF Pushers
    <2>. QED BY <2>2, <2>3, <2>4, NoTaskKeeps
  <1>8. CASE /\ this.scope # <<>>
             /\ Parts(q \o <<Emission(m, 0, "LBL", labels)>>, TRUE)
             /\ labels' = labels + 1 /\ owner' = Append(owner, m)
    <2>1. PICK e : e = Emission(m, 0, "LBL", x)
      OBVIOUS
    <2>2. PICK r : r = <<e>>
      OBVIOUS
    <2>3. Parts(q \o r, TRUE)
      BY <1>3, <1>8, <2>1, <2>2, Zenon
    <2>4. PICK well \in BOOLEAN, tasks \in {q \o r} : well = TRUE
      OBVIOUS
    <2>5. m \in DOMAIN maps'
      BY <1>1, <1>3, <2>3, <2>4, PartsTask
    <2>6. /\ e \in Tasks /\ e.do = "emit" /\ e.in = m /\ e.base = 0 /\ e.what.op = "LBL" /\ e.what.arg = x
          /\ TaskOK(e)'
      <3>1. x \in Int
        BY <1>3, <1>5
      <3>. QED BY <1>5, <2>1, <2>5, <3>1, Marks
    <2>7. r \in Seq(Tasks) /\ DOMAIN r = {1} /\ r[1] = e
      BY <2>2, <2>6
    <2>8. \A l : Owes(e, l) <=> l = x
      BY <2>6 DEF Owes, IsLabel
    <2>9. ASSUME NEW i \in DOMAIN r
          PROVE  r[i].in = m /\ r[i].base = 0 /\ TaskOK(r[i])'
      <3>1. r[i] = e
        BY <2>7
      <3>. QED BY <2>6, <3>1 DEF TaskOK
    <2>10. /\ labels' \in Nat /\ labels <= labels' /\ x \in labels..labels' - 1
           /\ owner' \in Seq(Nat) /\ Len(owner') = labels' /\ \A l \in 1..labels : owner'[l] = owner[l]
           /\ owner'[x + 1] = m
      BY <1>3, <1>5, <1>8, Appended
    <2>11. NewMarks(r)
      <3>1. ASSUME NEW k \in DOMAIN r, NEW l \in Int, Owes(r[k], l)
            PROVE  k = 1 /\ l = x
        BY <2>7, <2>8, <3>1
      <3>2. r[1].in = m
        BY <2>6, <2>7
      <3>3. ASSUME NEW k \in DOMAIN r, NEW l \in Int, Owes(r[k], l)
            PROVE  /\ l \in labels..labels' - 1
                   /\ owner'[l + 1] = r[k].in
                   /\ \A j \in DOMAIN r : Owes(r[j], l) => j = k
        <4>1. k = 1 /\ l = x
          BY <3>1, <3>3
        <4>2. \A j \in DOMAIN r : j = 1
          BY <2>7
        <4>. QED BY <2>10, <3>2, <4>1, <4>2
      <3>. QED BY <3>3 DEF NewMarks
    <2>12. JumpsForth(r)
      BY <2>6, <2>7 DEF JumpsForth, IsJump
    <2>13. \E i \in DOMAIN r : Owes(r[i], x)
      BY <2>7, <2>8
    <2>14. EndsBranch(r, m, x)
      BY <2>7, <2>9, <2>11, <2>12, <2>13 DEF EndsBranch
    <2>15. MoreLabels
      BY <2>10 DEF MoreLabels
    <2>16. m = task.in /\ x \in Nat /\ this \in Clauses /\ this.scope # <<>>
      BY <1>3, <1>4, <1>5, <1>8
    <2>. QED BY <1>1, <1>6, <2>3, <2>14, <2>15, <2>16, BranchKeeps
  <1>9. CASE /\ this.scope # <<>> /\ Len(task.what) # 1
             /\ Parts(q \o << Emission(m, 0, "LBLJMP", labels + 1),
                              Emission(m, 0, "LBL", labels),
                              Task("if", m, 0, Tail(task.what)),
                              Emission(m, 0, "LBL", labels + 1) >>, TRUE)
             /\ labels' = labels + 2 /\ owner' = owner \o <<m, m>>
    <2>1. PICK y : y = labels + 1
      OBVIOUS
    <2>2. PICK e1, e2, e3, e4 : /\ e1 = Emission(m, 0, "LBLJMP", y)
                                /\ e2 = Emission(m, 0, "LBL", x)
                                /\ e3 = Task("if", m, 0, Tail(task.what))
                                /\ e4 = Emission(m, 0, "LBL", y)
      OBVIOUS
    <2>3. PICK r : r = <<e1, e2, e3, e4>>
      OBVIOUS
    <2>4. Parts(q \o r, TRUE)
      BY <1>3, <1>9, <2>1, <2>2, <2>3, Zenon
    <2>5. PICK well \in BOOLEAN, tasks \in {q \o r} : well = TRUE
      OBVIOUS
    <2>6. m \in DOMAIN maps'
      BY <1>1, <1>3, <2>4, <2>5, PartsTask
    <2>7. x \in Int /\ y \in Int /\ x # y
      BY <1>3, <1>5, <2>1
    <2>8. /\ e1 \in Tasks /\ e1.do = "emit" /\ e1.in = m /\ e1.base = 0 /\ e1.what.op = "LBLJMP" /\ e1.what.arg = y
          /\ TaskOK(e1)'
      BY <1>5, <2>2, <2>6, <2>7, Marks
    <2>9. /\ e2 \in Tasks /\ e2.do = "emit" /\ e2.in = m /\ e2.base = 0 /\ e2.what.op = "LBL" /\ e2.what.arg = x
           /\ TaskOK(e2)'
      BY <1>5, <2>2, <2>6, <2>7, Marks
    <2>10. /\ e4 \in Tasks /\ e4.do = "emit" /\ e4.in = m /\ e4.base = 0 /\ e4.what.op = "LBL" /\ e4.what.arg = y
           /\ TaskOK(e4)'
      BY <1>5, <2>2, <2>6, <2>7, Marks
    <2>11. e3 \in Tasks /\ e3.do = "if" /\ e3.in = m /\ e3.base = 0 /\ TaskOK(e3)'
      <3>1. Tail(task.what) # <<>>
        <4>1. PICK clauses \in Seq(Clauses) : clauses = task.what
          BY <1>2
        <4>2. Len(clauses) \in Nat /\ Len(clauses) # 0 /\ Len(clauses) # 1
          BY <1>2, <1>9, <4>1
        <4>3. Len(Tail(clauses)) = Len(clauses) - 1
          BY <1>2, <4>1
        <4>4. Len(Tail(clauses)) # 0
          BY <4>2, <4>3
        <4>. QED BY <4>1, <4>4
      <3>2. e3 \in Tasks
        BY <1>4, <1>5, <2>2, StatementTasks
      <3>. QED BY <1>4, <2>2, <2>6, <3>1, <3>2 DEF Task, TaskOK
    <2>12. r \in Seq(Tasks) /\ DOMAIN r = {1, 2, 3, 4} /\ r[1] = e1 /\ r[2] = e2 /\ r[3] = e3 /\ r[4] = e4
      BY <2>3, <2>8, <2>9, <2>10, <2>11
    <2>13. \A l : /\ ~Owes(e1, l) /\ ~Owes(e3, l)
                  /\ Owes(e2, l) <=> l = x
                  /\ Owes(e4, l) <=> l = y
      BY <2>8, <2>9, <2>10, <2>11 DEF Owes, IsLabel
    <2>14. ASSUME NEW i \in DOMAIN r
           PROVE  r[i].in = m /\ r[i].base = 0 /\ TaskOK(r[i])'
      <3>1. r[i] = e1 \/ r[i] = e2 \/ r[i] = e3 \/ r[i] = e4
        BY <2>12
      <3>2. r[i].in = m /\ r[i].base = 0
        BY <2>8, <2>9, <2>10, <2>11, <3>1
      <3>3. TaskOK(r[i])'
        BY <2>8, <2>9, <2>10, <2>11, <3>1 DEF TaskOK
      <3>. QED BY <3>2, <3>3
    <2>15. /\ labels' \in Nat /\ labels <= labels' /\ x \in labels..labels' - 1 /\ y \in labels..labels' - 1
           /\ owner' \in Seq(Nat) /\ Len(owner') = labels' /\ \A l \in 1..labels : owner'[l] = owner[l]
           /\ owner'[x + 1] = m /\ owner'[y + 1] = m
      <3>1. <<m, m>> \in Seq(Nat) /\ Len(<<m, m>>) = 2 /\ <<m, m>>[1] = m /\ <<m, m>>[2] = m
        BY <1>5
      <3>2. PICK two : two = <<m, m>>
        OBVIOUS
      <3>3. owner' = owner \o two /\ two \in Seq(Nat) /\ Len(two) = 2 /\ two[1] = m /\ two[2] = m
        BY <1>9, <3>1, <3>2
      <3>4. /\ owner' \in Seq(Nat) /\ Len(owner') = Len(owner) + Len(two)
            /\ \A l \in 1..Len(owner) : owner'[l] = owner[l]
            /\ \A l \in 1..Len(two) : owner'[Len(owner) + l] = two[l]
        <4>1. owner \in Seq(Nat) /\ two \in Seq(Nat) /\ owner' = owner \o two
          BY <1>5, <3>3
        <4>. QED BY <4>1, Joined
      <3>5. /\ owner' \in Seq(Nat) /\ Len(owner') = Len(owner) + 2
            /\ \A l \in 1..Len(owner) : owner'[l] = owner[l]
            /\ \A l \in 1..2 : owner'[Len(owner) + l] = two[l]
        BY <3>3, <3>4
      <3>6. owner'[labels + 1] = m /\ owner'[labels + 2] = m
        BY <1>5, <3>3, <3>5
      <3>7. labels' = labels + 2
        BY <1>9
      <3>8. /\ labels' \in Nat /\ labels <= labels' /\ x \in labels..labels' - 1 /\ y \in labels..labels' - 1
            /\ Len(owner') = labels' /\ x + 1 = labels + 1 /\ y + 1 = labels + 2
        BY <1>3, <1>5, <2>1, <3>5, <3>7
      <3>. QED BY <1>5, <3>5, <3>6, <3>8
    <2>16. NewMarks(r)
      <3>1. /\ ~Owes(r[1], x) /\ ~Owes(r[3], x) /\ ~Owes(r[4], x)
            /\ ~Owes(r[1], y) /\ ~Owes(r[2], y) /\ ~Owes(r[3], y)
        BY <2>7, <2>12, <2>13
      <3>2. ASSUME NEW k \in DOMAIN r, NEW l \in Int, Owes(r[k], l)
            PROVE  (k = 2 /\ l = x) \/ (k = 4 /\ l = y)
        BY <2>12, <2>13, <3>2
      <3>3. r[2].in = m /\ r[4].in = m
        BY <2>9, <2>10, <2>12
      <3>4. ASSUME NEW k \in DOMAIN r, NEW l \in Int, Owes(r[k], l)
            PROVE  /\ l \in labels..labels' - 1
                   /\ owner'[l + 1] = r[k].in
                   /\ \A j \in DOMAIN r : Owes(r[j], l) => j = k
        BY <2>7, <2>15, <3>2, <3>3, <3>4
      <3>. QED BY <3>4 DEF NewMarks
    <2>17. JumpsForth(r)
      <3>1. Owes(r[4], y) /\ r[4].in = r[1].in /\ 4 \in DOMAIN r /\ 4 > 1
        BY <2>8, <2>10, <2>12, <2>13
      <3>2. \A k \in DOMAIN r : r[k].do = "emit" /\ IsJump(r[k].what) => k = 1
        BY <2>9, <2>10, <2>11, <2>12 DEF IsJump
      <3>3. r[1].what.arg = y
        BY <2>8, <2>12
      <3>. QED BY <3>1, <3>2, <3>3 DEF JumpsForth
    <2>18. \E i \in DOMAIN r : Owes(r[i], x)
      BY <2>12, <2>13
    <2>19. EndsBranch(r, m, x)
      BY <2>12, <2>14, <2>16, <2>17, <2>18 DEF EndsBranch
    <2>20. MoreLabels
      BY <2>15 DEF MoreLabels
    <2>21. m = task.in /\ x \in Nat /\ this \in Clauses /\ this.scope # <<>>
      BY <1>3, <1>4, <1>5, <1>9
    <2>. QED BY <1>1, <1>6, <2>4, <2>19, <2>20, <2>21, BranchKeeps
  <1>. QED BY <1>3, <1>6, <1>7, <1>8, <1>9 DEF push_if_statement, Tested

\* A step of the compiler.
LEMMA CompileStepKeeps ==
  ASSUME CompilationInv, Compile_step
  PROVE  CompilationInv'
  BY EmitKeeps, PushExpressionKeeps, PushNumberKeeps, PushStringKeeps, PushIdentifierKeeps,
     PushNoOperandKeeps, PushFunctionCallKeeps, PushCallKeeps, CompileStatementKeeps,
     CompileObjectsKeeps, PushVariableKeeps, DeclareKeeps, PushReassignmentKeeps,
     CallStatementKeeps, ReturnStatementKeeps, PushFunctionKeeps, IfStatementKeeps,
     PushIfStatementKeeps, Zenon DEF Compile_step
-----------------------------------------------------------------------------
(* Compiling begins and ends.                                                *)

(* A step that has no task to do, and changes the program's map only.        *)
LEMMA ProgramKeeps ==
  ASSUME CompilationInv, NEW new \in MapRecords, maps' = [maps EXCEPT ![1] = new],
         UNCHANGED <<table, counters, shell_env, trusted>>, mode' = "prompt",
         stage' \in {"compiling", "linking"}, linked' \in Nat, stage' = "linking" => linked' <= Len(functions),
         todo = <<>>, todo' \in Seq(Tasks), stage' = "linking" => todo' = <<>>,
         \A k \in DOMAIN todo' : todo'[k].do # "emit",
         TodoOK', Reached',
         Balanced(new),
         \A i \in DOMAIN new.code :
            Written(new.code[i]) \/ (stage' = "linking" /\ new.code[i].op \in {"EXIT", "RET"}),
         \A i \in DOMAIN new.code : new.code[i].op = "LBL" =>
            /\ new.code[i].arg \in 0..labels - 1
            /\ Belongs(1, new.code[i].arg)'
            /\ \A j \in DOMAIN new.code : IsLabel(new.code[j], new.code[i].arg) => j = i,
         \A i \in DOMAIN new.code : IsJump(new.code[i]) => LandsAhead(new.code, i),
         LinkedOK'
  PROVE  CompilationInv'
  <1>1. UNCHANGED <<functions, refs, pool, labels, owner, shell_env, trusted>>
    BY DEF table, counters
  <1>2. /\ maps' \in Seq(MapRecords) /\ DOMAIN maps' = DOMAIN maps /\ Len(maps') = Len(maps)
        /\ maps'[1] = new
        /\ \A m \in DOMAIN maps : m # 1 => maps'[m] = maps[m]
        /\ Len(maps) = Len(functions) + 1
        /\ Live' = DOMAIN maps
        /\ \A m \in DOMAIN maps : m # 1 => m \in Live
    <2>1. maps \in Seq(MapRecords) /\ Len(maps) = Len(functions) + 1 /\ Len(functions) \in Nat
      BY DEF CompilationInv, StateOK
    <2>2. 1 \in DOMAIN maps
      BY <2>1
    <2>. QED BY <2>1, <2>2 DEF Live
  <1>3. StateOK'
    BY <1>1, <1>2 DEF CompilationInv, StateOK
  <1>4. \A instr : Written(instr) => Written(instr)'
    BY <1>1 DEF Written
  <1>5. ASSUME NEW m \in DOMAIN maps
        PROVE  /\ Balanced(maps'[m])
               /\ \A i \in DOMAIN maps'[m].code :
                     \/ Written(maps[m].code[i])'
                     \/ stage' = "linking" /\ m = 1 /\ maps'[m].code[i].op \in {"EXIT", "RET"}
    <2>1. CASE m = 1
      <3>1. ASSUME NEW i \in DOMAIN new.code, Written(new.code[i])
            PROVE  Written(maps[m].code[i])'
        <4>1. Written(new.code[i])'
          BY <1>4, <3>1
        <4>. QED BY <1>2, <2>1, <4>1 DEF Written
      <3>. QED BY <1>2, <2>1, <3>1
    <2>2. CASE m # 1
      <3>1. PICK map : map = maps[m]
        OBVIOUS
      <3>2. Balanced(map) /\ \A i \in DOMAIN map.code : Written(map.code[i])
        BY <1>2, <2>2, <3>1 DEF CompilationInv, MapsOK
      <3>3. maps'[m] = map
        BY <1>2, <2>2, <3>1
      <3>4. ASSUME NEW i \in DOMAIN map.code
            PROVE  Written(maps[m].code[i])'
        <4>1. Written(map.code[i])'
          BY <1>4, <3>2
        <4>. QED BY <3>3, <4>1 DEF Written
      <3>. QED BY <3>2, <3>3, <3>4
    <2>. QED BY <2>1, <2>2
  <1>6. MapsOK'
    BY <1>2, <1>5 DEF MapsOK
  <1>7. \A m, l : m # 1 => (Belongs(m, l) => Belongs(m, l)')
    BY <1>1 DEF Belongs
  <1>8. ASSUME NEW m \in DOMAIN maps, NEW i \in DOMAIN maps'[m].code, maps'[m].code[i].op = "LBL"
        PROVE  /\ maps'[m].code[i].arg \in 0..labels' - 1
               /\ Belongs(m, maps[m].code[i].arg)'
               /\ \A j \in DOMAIN maps'[m].code :
                     IsLabel(maps'[m].code[j], maps'[m].code[i].arg) => j = i
    <2>1. PICK map, l : map = maps'[m] /\ l = map.code[i].arg
      OBVIOUS
    <2>2. CASE m = 1
      <3>1. i \in DOMAIN new.code /\ map = new /\ new.code[i].op = "LBL"
        BY <1>2, <1>8, <2>1, <2>2
      <3>2. Belongs(1, l)'
        BY <2>1, <3>1
      <3>3. Belongs(m, maps[m].code[i].arg)'
        BY <2>1, <2>2, <3>2 DEF Belongs
      <3>. QED BY <1>1, <2>1, <3>1, <3>3
    <2>3. CASE m # 1
      <3>1. map = maps[m] /\ m \in Live
        BY <1>2, <2>1, <2>3
      <3>2. /\ l \in 0..labels - 1 /\ Belongs(m, l)
            /\ \A j \in DOMAIN map.code : IsLabel(map.code[j], l) => j = i
        BY <1>8, <2>1, <3>1 DEF CompilationInv, PlacedOK
      <3>3. Belongs(m, l)'
        BY <1>7, <2>3, <3>2
      <3>4. Belongs(m, maps[m].code[i].arg)'
        BY <2>1, <3>3 DEF Belongs
      <3>. QED BY <1>1, <2>1, <3>2, <3>4
    <2>. QED BY <2>2, <2>3
  <1>9. PlacedOK'
    BY <1>2, <1>8 DEF PlacedOK
  <1>10. HeadsOK'
    BY <1>1 DEF CompilationInv, HeadsOK
  <1>11. OwedOK'
    BY DEF OwedOK, Owes
  <1>12. ASSUME NEW m \in DOMAIN maps, NEW i \in DOMAIN maps'[m].code, IsJump(maps'[m].code[i])
         PROVE  LandsAhead(maps'[m].code, i)
    <2>1. CASE m = 1
      BY <1>2, <1>12, <2>1
    <2>2. CASE m # 1
      <3>1. maps'[m] = maps[m] /\ m \in Live /\ DOMAIN todo = {}
        BY <1>2, <2>2
      <3>. QED BY <1>12, <3>1 DEF CompilationInv, JumpsOK
    <2>. QED BY <2>1, <2>2
  <1>13. JumpsOK'
    BY <1>2, <1>12 DEF JumpsOK
  <1>14. CodeVerifies'
    BY DEF CodeVerifies
  <1>. QED BY <1>3, <1>6, <1>9, <1>10, <1>11, <1>13, <1>14 DEF CompilationInv

LEMMA BeginInputKeeps ==
  ASSUME CompilationInv, NEW n \in Inputs, Begin_input(n)
  PROVE  CompilationInv'
  <1>1. /\ mode' = "prompt" /\ stage = "idle" /\ stage' = "compiling"
        /\ UNCHANGED <<table, counters, shell_env, trusted>> /\ linked' = linked
    BY DEF Begin_input, machineVars
  <1>2. /\ maps \in Seq(MapRecords) /\ 1 \in DOMAIN maps /\ maps[1] \in MapRecords /\ todo = <<>>
        /\ Len(functions) \in Nat
    <2>1. maps \in Seq(MapRecords) /\ Len(maps) = Len(functions) + 1 /\ Len(functions) \in Nat /\ todo = <<>>
      BY <1>1 DEF CompilationInv, StateOK
    <2>2. 1 \in DOMAIN maps
      BY <2>1
    <2>. QED BY <2>1, <2>2
  <1>3. PICK new : new = [Emptied(maps[1]) EXCEPT !.sound = n \notin Refused]
    OBVIOUS
  <1>4. new \in MapRecords /\ new.code = <<>> /\ new.depth = <<>>
    <2>1. PICK sound \in BOOLEAN : sound = (n \notin Refused)
      BY Zenon
    <2>2. new = [Emptied(maps[1]) EXCEPT !.sound = sound]
      BY <1>3, <2>1, Zenon
    <2>3. <<>> \in Seq(Assembled) /\ <<>> \in Seq(Nat)
      OBVIOUS
    <2>4. /\ maps[1] = [code |-> maps[1].code, counter |-> maps[1].counter,
                        depth |-> maps[1].depth, sound |-> maps[1].sound]
          /\ maps[1].counter \in Nat
      BY <1>2 DEF MapRecords
    <2>5. new = [code |-> <<>>, counter |-> maps[1].counter, depth |-> <<>>, sound |-> sound]
      BY <2>2, <2>4 DEF Emptied
    <2>. QED BY <2>1, <2>3, <2>4, <2>5 DEF MapRecords
  <1>5. maps' = [maps EXCEPT ![1] = new]
    BY <1>2, <1>3 DEF Begin_input
  <1>6. PICK t : t = Task("objects", 1, 0, ObjectsOf[n])
    OBVIOUS
  <1>7. t \in Tasks /\ t.do = "objects" /\ t.in = 1 /\ t.base = 0 /\ t.what \in Scopes
    BY <1>6, InputsAssumption, StatementTasks DEF Task
  <1>8. todo' = <<t>>
    BY <1>6 DEF Begin_input
  <1>9. todo' \in Seq(Tasks) /\ DOMAIN todo' = {1} /\ todo'[1] = t /\ Len(todo') = 1 /\ Head(todo') = t
    BY <1>7, <1>8
  <1>10. 1 \in DOMAIN maps' /\ maps'[1] = new
    BY <1>2, <1>5
  <1>11. TaskOK(t)'
    BY <1>7, <1>10 DEF TaskOK
  <1>12. TodoOK'
    <2>1. TaskOK(todo[1])'
      BY <1>9, <1>11 DEF TaskOK
    <2>. QED BY <1>9, <2>1 DEF TodoOK
  <1>13. Reached'
    <2>1. Arrival(new) = 0
      BY <1>4 DEF Arrival
    <2>2. task' = t
      BY <1>9 DEF task
    <2>. QED BY <1>7, <1>10, <2>1, <2>2 DEF Reached
  <1>14. Balanced(new)
    BY <1>4 DEF Balanced
  <1>15. LinkedOK'
    BY <1>1 DEF LinkedOK
  <1>16. DOMAIN new.code = {} /\ \A k \in DOMAIN todo' : todo'[k].do # "emit"
    BY <1>4, <1>7, <1>9
  <1>17. linked' \in Nat
    BY <1>1 DEF CompilationInv, StateOK
  <1>. QED BY <1>1, <1>2, <1>4, <1>5, <1>9, <1>12, <1>13, <1>14, <1>15, <1>16, <1>17, ProgramKeeps

LEMMA NothingToDo == ASSUME todo' = <<>> PROVE TodoOK' /\ Reached'
  <1>1. DOMAIN todo' = {} /\ 1..Len(todo') - 1 = {}
    OBVIOUS
  <1>. QED BY <1>1 DEF TodoOK, Reached

(* What is written jumps in one part of the code, as the program's is until  *)
(* its EXIT.                                                                 *)
LEMMA PushExitKeeps ==
  ASSUME CompilationInv, Push_exit
  PROVE  CompilationInv'
  <1>1. /\ mode' = "prompt" /\ stage = "compiling" /\ stage' = "linking" /\ linked' = 0
        /\ UNCHANGED <<table, counters, shell_env, trusted>> /\ todo = <<>> /\ todo' = <<>>
    BY DEF Push_exit, machineVars
  <1>2. PICK map : map = maps[1]
    OBVIOUS
  <1>3. /\ map \in MapRecords /\ 1 \in Live /\ Balanced(map) /\ Len(functions) \in Nat
        /\ \A i \in DOMAIN map.code : Written(map.code[i])
    <2>1. maps \in Seq(MapRecords) /\ Len(maps) = Len(functions) + 1 /\ Len(functions) \in Nat
      BY DEF CompilationInv, StateOK
    <2>2. 1 \in DOMAIN maps
      BY <2>1
    <2>3. 1 \in Live /\ map \in MapRecords
      BY <1>1, <1>2, <2>1, <2>2 DEF Live
    <2>. QED BY <1>1, <1>2, <2>1, <2>3 DEF CompilationInv, MapsOK
  <1>4. PICK exit \in Assembled : exit = Instruction("EXIT", 0)
    <2>1. Instruction("EXIT", 0) \in Assembled
      BY DEF Assembled, Instruction, Opcodes
    <2>. QED BY <2>1
  <1>5. exit.op = "EXIT" /\ Operands(exit) = 0
    BY <1>4 DEF Instruction, Operands
  <1>0. PICK b \in Nat : b = 0
    OBVIOUS
  <1>6. PICK new : new = Longer(map, exit, b)
    OBVIOUS
  <1>7. /\ new \in MapRecords /\ new.code = Append(map.code, exit)
        /\ new.depth = Append(map.depth, b) /\ new.sound = map.sound
    BY <1>3, <1>6, LongerFacts
  <1>8. maps' = [maps EXCEPT ![1] = new]
    BY <1>0, <1>2, <1>4, <1>6 DEF Push_exit
  <1>9. Balanced(new)
    <2>1. map.sound => b <= Arrival(map) /\ Operands(exit) <= b
      BY <1>0, <1>3, <1>5, ArrivalNat
    <2>2. new.sound => map.sound
      BY <1>7
    <2>3. exit.op = "LBL" => b = 0
      BY <1>0
    <2>. QED BY <1>3, <1>7, <2>1, <2>2, <2>3, AppendBalanced
  <1> DEFINE n == Len(map.code)
  <1>10. /\ n \in Nat /\ map.code \in Seq(Assembled) /\ DOMAIN map.code = 1..n
         /\ new.code \in Seq(Assembled) /\ Len(new.code) = n + 1 /\ DOMAIN new.code = 1..n + 1
         /\ \A i \in 1..n : new.code[i] = map.code[i]
         /\ new.code[n + 1] = exit
    <2>1. map.code \in Seq(Assembled)
      BY <1>3 DEF MapRecords
    <2>. QED BY <1>7, <2>1, Appended
  <1> HIDE DEF n
  <1>11. n + 1 \in 1..n + 1 /\ \A i \in 1..n + 1 : i \in 1..n \/ i = n + 1
    BY <1>10
  <1>12. /\ \A i \in 1..n : map.code[i].op \notin {"EXIT", "RET"}
         /\ \A i \in 1..n + 1 : new.code[i].op = "EXIT" <=> i = n + 1
         /\ \A i \in 1..n + 1 : new.code[i].op # "RET"
    <2>1. \A i \in 1..n : map.code[i].op \in WrittenOps
      BY <1>3, <1>10 DEF Written
    <2>2. \A i \in 1..n : map.code[i].op \notin {"EXIT", "RET"} /\ i # n + 1
      BY <1>10, <2>1 DEF WrittenOps
    <2>. QED BY <1>5, <1>10, <1>11, <2>2
  <1>13. \A i \in 1..n + 1 : Written(new.code[i]) \/ new.code[i].op \in {"EXIT", "RET"}
    BY <1>3, <1>5, <1>10, <1>11
  <1>14. ASSUME NEW i \in 1..n + 1, new.code[i].op = "LBL"
         PROVE  /\ new.code[i].arg \in 0..labels - 1
                /\ Belongs(1, new.code[i].arg)'
                /\ \A j \in 1..n + 1 : IsLabel(new.code[j], new.code[i].arg) => j = i
    <2>1. i \in 1..n /\ new.code[i] = map.code[i]
      BY <1>5, <1>10, <1>11, <1>14
    <2>2. PICK l : l = new.code[i].arg
      OBVIOUS
    <2>3. /\ l \in 0..labels - 1 /\ Belongs(1, l)
          /\ \A j \in 1..n : IsLabel(map.code[j], l) => j = i
      BY <1>2, <1>3, <1>10, <1>14, <2>1, <2>2 DEF CompilationInv, PlacedOK
    <2>4. owner[l + 1] = 1
      BY <1>1, <2>3 DEF Belongs
    <2>5. Belongs(1, new.code[i].arg)'
      BY <1>1, <2>2, <2>4 DEF Belongs, counters
    <2>6. \A j \in 1..n + 1 : IsLabel(new.code[j], l) => j = i
      BY <1>5, <1>10, <1>11, <2>3 DEF IsLabel
    <2>. QED BY <2>2, <2>3, <2>5, <2>6
  <1>15. ASSUME NEW i \in 1..n + 1
         PROVE  InMain(new.code, i)
    <2>1. \A j \in 1..i - 1 : j \in 1..n + 1 /\ j # n + 1
      BY <1>10
    <2>. QED BY <1>12, <2>1 DEF InMain
  <1>16. ASSUME NEW i \in 1..n + 1, IsJump(new.code[i])
         PROVE  LandsAhead(new.code, i)
    <2>1. i \in 1..n /\ new.code[i] = map.code[i]
      BY <1>5, <1>10, <1>11, <1>16 DEF IsJump
    <2>2. LandsAhead(map.code, i)
      <3>1. DOMAIN todo = {}
        BY <1>1
      <3>. QED BY <1>2, <1>3, <1>10, <1>16, <2>1, <3>1 DEF CompilationInv, JumpsOK
    <2>3. PICK j \in 1..n : j > i /\ IsLabel(map.code[j], map.code[i].arg)
      BY <1>10, <2>2 DEF LandsAhead
    <2>4. j \in 1..n + 1 /\ new.code[j] = map.code[j]
      BY <1>10, <2>3
    <2>. QED BY <1>10, <1>15, <2>1, <2>3, <2>4 DEF LandsAhead
  <1>17. LinkedOK'
    <2>1. PICK code, e : code = new.code /\ e = n + 1
      OBVIOUS
    <2>2. e \in DOMAIN code /\ code[e].op = "EXIT"
      BY <1>10, <1>11, <1>12, <2>1
    <2>3. /\ \A i \in DOMAIN code : code[i].op = "EXIT" => i = e
          /\ \A i \in DOMAIN code : code[i].op = "RET" => i > e
      BY <1>10, <1>12, <2>1
    <2>4. 1..linked' = {} /\ code[Len(code)].op \in {"EXIT", "RET"}
      BY <1>1, <1>5, <1>10, <2>1
    <2>5. maps'[1].code = code
      <3>1. maps \in Seq(MapRecords) /\ 1 \in DOMAIN maps
        BY <1>3 DEF CompilationInv, StateOK, Live
      <3>. QED BY <1>8, <2>1, <3>1
    <2>. QED BY <2>2, <2>3, <2>4, <2>5 DEF LinkedOK
  <1>18. DOMAIN todo' = {} /\ todo' \in Seq(Tasks) /\ linked' \in Nat /\ linked' <= Len(functions)
    BY <1>1, <1>3
  <1>. QED BY <1>1, <1>7, <1>8, <1>9, <1>10, <1>13, <1>14, <1>16, <1>17, <1>18, NothingToDo, ProgramKeeps

\* :killenv, and what leaves the compiler alone.
LEMMA KillEnvironmentKeeps ==
  ASSUME CompilationInv, Kill_environment
  PROVE  CompilationInv'
  <1>1. /\ stage = "idle" /\ mode' = "prompt"
        /\ maps' = <<new_map>> /\ functions' = <<>> /\ refs' = <<>> /\ pool' = <<>>
        /\ UNCHANGED <<labels, owner, todo, shell_env, stage, linked, trusted>>
    BY DEF Kill_environment, NewMachine, counters
  <1>2. todo' = <<>> /\ DOMAIN todo' = {}
    BY <1>1 DEF CompilationInv, StateOK
  <1>3. new_map \in MapRecords
    BY DEF new_map, MapRecords
  <1>4. /\ maps' \in Seq(MapRecords) /\ Len(maps') = 1 /\ DOMAIN maps' = {1}
        /\ Len(functions') = 0 /\ DOMAIN functions' = {}
        /\ functions' \in Seq([name : STRING, reference : Nat])
        /\ refs' \in Seq([name : STRING, ref : Nat]) /\ pool' \in Seq(Int \cup Text)
    BY <1>1, <1>3
  <1>5. StateOK'
    BY <1>1, <1>4 DEF CompilationInv, StateOK
  <1>6. Live' = {}
    BY <1>1, <1>4 DEF Live
  <1>7. MapsOK' /\ PlacedOK' /\ HeadsOK' /\ OwedOK' /\ JumpsOK' /\ LinkedOK' /\ CodeVerifies'
    BY <1>1, <1>2, <1>4, <1>6
       DEF MapsOK, PlacedOK, HeadsOK, OwedOK, JumpsOK, LinkedOK, CodeVerifies
  <1>. QED BY <1>2, <1>5, <1>7, NothingToDo DEF CompilationInv
-----------------------------------------------------------------------------
(* The code of a function behind that of the program.                        *)

Frame(s, e, t, f) == s \o <<e>> \o t \o <<f>>

IsFrame(w, S, s, e, t, f) ==
    /\ w \in Seq(S) /\ Len(w) = Len(s) + Len(t) + 2
    /\ \A i \in 1..Len(s) : w[i] = s[i]
    /\ w[Len(s) + 1] = e
    /\ \A i \in 1..Len(t) : w[Len(s) + 1 + i] = t[i]
    /\ w[Len(s) + Len(t) + 2] = f

LEMMA Framed ==
  ASSUME NEW S, NEW s \in Seq(S), NEW e \in S, NEW t \in Seq(S), NEW f \in S
  PROVE  IsFrame(Frame(s, e, t, f), S, s, e, t, f)
  <1>0. PICK w : w = Frame(s, e, t, f)
    OBVIOUS
  <1>1. PICK u : u = s \o <<e>>
    OBVIOUS
  <1>2. PICK v : v = u \o t
    OBVIOUS
  <1>3. Len(s) \in Nat /\ Len(t) \in Nat
    OBVIOUS
  <1>4. /\ u \in Seq(S) /\ Len(u) = Len(s) + 1 /\ u[Len(s) + 1] = e
        /\ \A i \in 1..Len(s) : u[i] = s[i]
    <2>1. u = Append(s, e)
      BY <1>1
    <2>. QED BY <2>1, Appended
  <1>5. /\ v \in Seq(S) /\ Len(v) = Len(u) + Len(t)
        /\ \A i \in 1..Len(u) : v[i] = u[i]
        /\ \A i \in 1..Len(t) : v[Len(u) + i] = t[i]
    <2>1. u \in Seq(S) /\ t \in Seq(S)
      BY <1>4
    <2>. QED BY <1>2, <2>1, Joined
  <1>6. /\ w \in Seq(S) /\ Len(w) = Len(v) + 1 /\ w[Len(v) + 1] = f
        /\ \A i \in 1..Len(v) : w[i] = v[i]
    <2>1. w = Append(v, f)
      BY <1>0, <1>1, <1>2, <1>5 DEF Frame
    <2>2. v \in Seq(S)
      BY <1>5
    <2>3. /\ Append(v, f) \in Seq(S) /\ Len(Append(v, f)) = Len(v) + 1
          /\ Append(v, f)[Len(v) + 1] = f
          /\ \A i \in 1..Len(v) : Append(v, f)[i] = v[i]
      BY <2>2, Appended
    <2>. QED BY <2>1, <2>3
  <1>7. \A i \in 1..Len(u) : i \in 1..Len(v) /\ w[i] = u[i]
    <2>1. \A i \in 1..Len(u) : i \in 1..Len(v)
      BY <1>3, <1>4, <1>5
    <2>. QED BY <1>5, <1>6, <2>1
  <1>8. \A i \in 1..Len(t) : w[Len(s) + 1 + i] = t[i]
    <2>1. \A i \in 1..Len(t) : Len(s) + 1 + i \in 1..Len(v) /\ Len(s) + 1 + i = Len(u) + i
      BY <1>3, <1>4, <1>5
    <2>. QED BY <1>5, <1>6, <2>1
  <1>9. /\ \A i \in 1..Len(s) : i \in 1..Len(u)
        /\ Len(s) + 1 \in 1..Len(u)
        /\ Len(v) + 1 = Len(s) + Len(t) + 2
    BY <1>3, <1>4, <1>5
  <1>. QED BY <1>0, <1>4, <1>6, <1>7, <1>8, <1>9 DEF IsFrame

\* new is map, a label, body and RET; of n and b instructions.
Links(new, map, ref, body, n, b) ==
    /\ new.code \in Seq(Assembled) /\ new.depth \in Seq(Nat)
    /\ Len(new.code) = n + b + 2 /\ Len(new.depth) = n + b + 2
    /\ \A i \in 1..n : new.code[i] = map.code[i] /\ new.depth[i] = map.depth[i]
    /\ new.code[n + 1] = Instruction("LBL", ref) /\ new.depth[n + 1] = 0
    /\ \A i \in 1..b : /\ new.code[n + 1 + i] = body.code[i]
                       /\ new.depth[n + 1 + i] = body.depth[i]
    /\ new.code[n + b + 2] = Instruction("RET", 0) /\ new.depth[n + b + 2] = 0
    /\ new.sound => map.sound /\ body.sound

LEMMA LinksFacts ==
  ASSUME NEW map \in MapRecords, NEW body \in MapRecords, NEW ref \in Int,
         Balanced(map), Balanced(body),
         NEW new, new = With_function(map, ref, body),
         NEW n, n = Len(map.code), NEW b, b = Len(body.code)
  PROVE  new \in MapRecords /\ n \in Nat /\ b \in Nat /\ Links(new, map, ref, body, n, b)
  <1>1. /\ map.code \in Seq(Assembled) /\ map.depth \in Seq(Nat) /\ map.counter \in Nat
        /\ body.code \in Seq(Assembled) /\ body.depth \in Seq(Nat)
        /\ Len(map.depth) = n /\ Len(body.depth) = b /\ n \in Nat /\ b \in Nat
    BY DEF MapRecords, Balanced
  <1>2. PICK label \in Assembled : label = Instruction("LBL", ref)
    <2>1. Instruction("LBL", ref) \in Assembled
      BY DEF Instruction, Assembled, Opcodes
    <2>. QED BY <2>1
  <1>3. PICK ret \in Assembled : ret = Instruction("RET", 0)
    <2>1. Instruction("RET", 0) \in Assembled
      BY DEF Instruction, Assembled, Opcodes
    <2>. QED BY <2>1
  <1>4. PICK z \in Nat : z = 0
    OBVIOUS
  <1>5. PICK c, d : /\ c = Frame(map.code, label, body.code, ret)
                    /\ d = Frame(map.depth, z, body.depth, z)
    OBVIOUS
  <1>6. PICK sound \in BOOLEAN : sound = (map.sound /\ body.sound)
    BY Zenon
  <1>7. new = [map EXCEPT !.code = c, !.depth = d, !.sound = sound]
    BY <1>2, <1>3, <1>4, <1>5, <1>6, Zenon DEF With_function, Frame
  <1>8. /\ c \in Seq(Assembled) /\ Len(c) = n + b + 2
        /\ \A i \in 1..n : c[i] = map.code[i]
        /\ c[n + 1] = label
        /\ \A i \in 1..b : c[n + 1 + i] = body.code[i]
        /\ c[n + b + 2] = ret
    <2>1. map.code \in Seq(Assembled) /\ body.code \in Seq(Assembled)
      BY <1>1
    <2>2. c = Frame(map.code, label, body.code, ret)
      BY <1>5
    <2>3. IsFrame(Frame(map.code, label, body.code, ret), Assembled, map.code, label, body.code, ret)
      BY <2>1, Framed
    <2>. QED BY <2>2, <2>3 DEF IsFrame
  <1>9. /\ d \in Seq(Nat) /\ Len(d) = n + b + 2
        /\ \A i \in 1..n : d[i] = map.depth[i]
        /\ d[n + 1] = z
        /\ \A i \in 1..b : d[n + 1 + i] = body.depth[i]
        /\ d[n + b + 2] = z
    <2>1. map.depth \in Seq(Nat) /\ body.depth \in Seq(Nat)
      BY <1>1
    <2>2. d = Frame(map.depth, z, body.depth, z)
      BY <1>5
    <2>3. /\ d \in Seq(Nat) /\ Len(d) = Len(map.depth) + Len(body.depth) + 2
          /\ \A i \in 1..Len(map.depth) : d[i] = map.depth[i]
          /\ d[Len(map.depth) + 1] = z
          /\ \A i \in 1..Len(body.depth) : d[Len(map.depth) + 1 + i] = body.depth[i]
          /\ d[Len(map.depth) + Len(body.depth) + 2] = z
      <3>1. IsFrame(Frame(map.depth, z, body.depth, z), Nat, map.depth, z, body.depth, z)
        BY <2>1, Framed
      <3>. QED BY <2>2, <3>1 DEF IsFrame
    <2>. QED BY <1>1, <2>3
  <1>10. new = [code |-> c, counter |-> map.counter, depth |-> d, sound |-> sound]
    <2>1. map = [code |-> map.code, counter |-> map.counter, depth |-> map.depth, sound |-> map.sound]
      BY DEF MapRecords
    <2>. QED BY <1>7, <2>1
  <1>11. new \in MapRecords /\ new.code = c /\ new.depth = d /\ new.sound = sound
    BY <1>1, <1>8, <1>9, <1>10 DEF MapRecords
  <1>12. new.sound => map.sound /\ body.sound
    BY <1>6, <1>11, Zenon
  <1>. QED BY <1>1, <1>2, <1>3, <1>4, <1>8, <1>9, <1>11, <1>12 DEF Links

\* Where an instruction of the linked code is from.
LEMMA LinkedFrom ==
  ASSUME NEW n \in Nat, NEW b \in Nat
  PROVE  /\ \A i \in 1..n + b + 2 : \/ i \in 1..n \/ i = n + 1
                                    \/ i - (n + 1) \in 1..b /\ n + 1 + (i - (n + 1)) = i
                                    \/ i = n + b + 2
         /\ \A i \in 1..n : i \in 1..n + b + 2 /\ i < n + 1
         /\ n + 1 \in 1..n + b + 2 /\ n + b + 2 \in 1..n + b + 2
         /\ \A i \in 1..b : n + 1 + i \in 1..n + b + 2 /\ n + 1 + i > n + 1
  <1>1. ASSUME NEW i \in 1..n + b + 2
        PROVE  \/ i \in 1..n \/ i = n + 1
               \/ i - (n + 1) \in 1..b /\ n + 1 + (i - (n + 1)) = i
               \/ i = n + b + 2
    BY <1>1
  <1>. QED BY <1>1

Sized(map, n) == n = Len(map.code)

LEMMA LinkBalances ==
  ASSUME NEW map \in MapRecords, NEW body \in MapRecords, NEW ref \in Int,
         Balanced(map), Balanced(body), NEW new \in MapRecords,
         NEW n \in Nat, Sized(map, n), NEW b \in Nat, Sized(body, b),
         Links(new, map, ref, body, n, b), n # 0, map.code[n].op \in {"EXIT", "RET"}
  PROVE  Balanced(new)
  <1>1. /\ map.code \in Seq(Assembled) /\ map.depth \in Seq(Nat)
        /\ body.code \in Seq(Assembled) /\ body.depth \in Seq(Nat)
        /\ Len(map.code) = n /\ Len(body.code) = b
        /\ Len(map.depth) = n /\ Len(body.depth) = b
        /\ DOMAIN map.code = 1..n /\ DOMAIN body.code = 1..b
    BY DEF MapRecords, Balanced, Sized
  <1>2. /\ Len(new.code) = n + b + 2 /\ Len(new.depth) = n + b + 2
        /\ new.code[n + 1].op = "LBL" /\ new.depth[n + 1] = 0
        /\ new.code[n + b + 2].op = "RET" /\ new.depth[n + b + 2] = 0
        /\ new.sound => map.sound /\ body.sound
    BY DEF Links, Instruction
  <1>3. \A i \in 1..n : new.code[i] = map.code[i] /\ new.depth[i] = map.depth[i]
    BY DEF Links
  <1>4. \A i \in 1..b : new.code[n + 1 + i] = body.code[i] /\ new.depth[n + 1 + i] = body.depth[i]
    BY DEF Links
  <1>5. DOMAIN new.code = 1..n + b + 2
    <2>1. new.code \in Seq(Assembled)
      BY DEF Links
    <2>. QED BY <1>2, <2>1
  <1>6. ASSUME NEW i \in 1..n + b + 2
        PROVE  \/ i \in 1..n /\ new.code[i] = map.code[i] /\ new.depth[i] = map.depth[i]
               \/ i = n + 1
               \/ \E k \in 1..b : new.code[i] = body.code[k] /\ new.depth[i] = body.depth[k]
               \/ i = n + b + 2
    <2>1. \/ i \in 1..n \/ i = n + 1
          \/ i - (n + 1) \in 1..b /\ n + 1 + (i - (n + 1)) = i
          \/ i = n + b + 2
      BY LinkedFrom
    <2>2. CASE i - (n + 1) \in 1..b /\ n + 1 + (i - (n + 1)) = i
      <3>1. PICK k \in 1..b : n + 1 + k = i
        BY <2>2
      <3>. QED BY <1>4, <3>1
    <2>. QED BY <1>3, <2>1, <2>2
  <1>7. /\ Operands(new.code[n + 1]) = 0 /\ Operands(new.code[n + b + 2]) = 0
        /\ Growth(new.code[n + 1]) = 0
    BY <1>2 DEF Operands, Growth
  <1>8. ASSUME NEW i \in 1..n + b + 2, new.code[i].op = "LBL"
        PROVE  new.depth[i] = 0
    <2>1. CASE i \in 1..n /\ new.code[i] = map.code[i] /\ new.depth[i] = map.depth[i]
      BY <1>1, <1>8, <2>1 DEF Balanced
    <2>2. ASSUME NEW k \in 1..b, new.code[i] = body.code[k], new.depth[i] = body.depth[k]
          PROVE  new.depth[i] = 0
      BY <1>1, <1>8, <2>2 DEF Balanced
    <2>. QED BY <1>2, <1>6, <2>1, <2>2
  <1>9. ASSUME map.sound, body.sound
        PROVE  /\ new.depth[1] = 0
               /\ \A i \in 1..n + b + 2 : Operands(new.code[i]) <= new.depth[i]
               /\ \A i \in 1..n + b + 1 : new.depth[i + 1] <= new.depth[i] + Growth(new.code[i])
    <2>2. new.depth[1] = 0
      <3>1. 1 \in 1..n
        OBVIOUS
      <3>2. map.code # <<>>
        BY <1>1
      <3>. QED BY <1>3, <1>9, <3>1, <3>2 DEF Balanced
    <2>3. ASSUME NEW i \in 1..n + b + 2
          PROVE  Operands(new.code[i]) <= new.depth[i]
      <3>1. /\ \A k \in 1..n : Operands(map.code[k]) <= map.depth[k]
            /\ \A k \in 1..b : Operands(body.code[k]) <= body.depth[k]
        BY <1>1, <1>9 DEF Balanced
      <3>2. CASE i = n + 1 \/ i = n + b + 2
        BY <1>2, <1>7, <3>2
      <3>. QED BY <1>6, <3>1, <3>2
    <2>4. ASSUME NEW i \in 1..n + b + 1
          PROVE  new.depth[i + 1] <= new.depth[i] + Growth(new.code[i])
      <3>1. CASE i < n
        <4>1. i \in 1..n - 1 /\ i \in 1..n /\ i + 1 \in 1..n
          BY <3>1
        <4>2. map.depth[i + 1] <= map.depth[i] + Growth(map.code[i])
          BY <1>1, <1>9, <4>1 DEF Balanced
        <4>. QED BY <1>3, <4>1, <4>2
      <3>2. CASE i = n
        <4>1. n \in 1..n
          OBVIOUS
        <4>2. map.depth[n] \in Nat
          BY <1>1, <4>1
        <4>3. Growth(map.code[n]) = 0
          BY DEF Growth
        <4>4. new.depth[n] \in Nat /\ Growth(new.code[n]) = 0
          BY <1>3, <4>1, <4>2, <4>3
        <4>. QED BY <1>2, <3>2, <4>4
      <3>3. CASE i = n + 1
        <4>1. new.depth[n + 2] = 0
          <5>1. CASE b = 0
            BY <1>2, <5>1
          <5>2. CASE b # 0
            <6>1. 1 \in 1..b /\ n + 1 + 1 = n + 2
              BY <5>2
            <6>2. body.code # <<>>
              BY <1>1, <5>2
            <6>3. body.depth[1] = 0
              BY <1>9, <6>2 DEF Balanced
            <6>. QED BY <1>4, <6>1, <6>3
          <5>. QED BY <5>1, <5>2
        <4>2. i + 1 = n + 2
          BY <3>3
        <4>. QED BY <1>2, <1>7, <3>3, <4>1, <4>2
      <3>4. CASE i > n + 1 /\ i < n + b + 1
        <4>1. PICK k \in 1..b - 1 : i = n + 1 + k
          <5>1. i - (n + 1) \in 1..b - 1 /\ i = n + 1 + (i - (n + 1))
            BY <3>4
          <5>. QED BY <5>1
        <4>2. k \in 1..b /\ k + 1 \in 1..b /\ i + 1 = n + 1 + (k + 1)
          BY <4>1
        <4>3. body.depth[k + 1] <= body.depth[k] + Growth(body.code[k])
          BY <1>1, <1>9 DEF Balanced
        <4>4. new.depth[i] = body.depth[k] /\ new.code[i] = body.code[k]
          BY <1>4, <4>1, <4>2
        <4>5. new.depth[i + 1] = body.depth[k + 1]
          BY <1>4, <4>2
        <4>. QED BY <4>3, <4>4, <4>5
      <3>5. CASE i > n + 1 /\ i = n + b + 1
        <4>1. b \in 1..b /\ i = n + 1 + b /\ i + 1 = n + b + 2
          BY <3>5
        <4>2. body.code # <<>>
          BY <1>1, <4>1
        <4>3. Arrival(body) \in Nat
          BY <1>9, ArrivalNat
        <4>4. body.depth[b] + Growth(body.code[b]) \in Nat
          BY <1>1, <4>2, <4>3 DEF Arrival
        <4>5. new.depth[i] = body.depth[b] /\ new.code[i] = body.code[b] /\ new.depth[i + 1] = 0
          BY <1>2, <1>4, <4>1
        <4>. QED BY <4>4, <4>5
      <3>6. \/ i < n \/ i = n \/ i = n + 1 \/ (i > n + 1 /\ i < n + b + 1) \/ (i > n + 1 /\ i = n + b + 1)
        OBVIOUS
      <3>. QED BY <3>1, <3>2, <3>3, <3>4, <3>5, <3>6
    <2>. QED BY <2>2, <2>3, <2>4
  <1>10. \A i \in 1..Len(new.code) - 1 : i \in 1..n + b + 1
    <2>1. n + b + 2 - 1 = n + b + 1
      OBVIOUS
    <2>. QED BY <1>2, <2>1
  <1>11. new.sound => map.sound /\ body.sound
    BY <1>2, Zenon
  <1>. QED BY <1>2, <1>5, <1>8, <1>9, <1>10, <1>11 DEF Balanced

(* The function's labels are its own, and it jumps within itself; no EXIT is *)
(* before its code, and all of it is behind the program's.                   *)
LEMMA LinkFunctionKeeps ==
  ASSUME CompilationInv, Link_function
  PROVE  CompilationInv'
  <1>1. /\ mode' = "prompt" /\ stage = "linking" /\ stage' = "linking"
        /\ linked < Len(functions) /\ linked' = linked + 1
        /\ UNCHANGED <<table, counters, shell_env, trusted>> /\ todo' = todo
        /\ UNCHANGED <<functions, labels, owner>>
    BY DEF Link_function, machineVars, table, counters
  <1>2. PICK f : f = linked + 1
    OBVIOUS
  <1>3. /\ linked \in Nat /\ Len(functions) \in Nat /\ f \in DOMAIN functions /\ todo = <<>>
        /\ maps \in Seq(MapRecords) /\ 1 \in Live /\ f + 1 \in Live /\ f + 1 # 1
        /\ 1 \in DOMAIN maps /\ maps[1] \in MapRecords /\ maps[f + 1] \in MapRecords
        /\ linked + 2 = f + 1 /\ labels \in Nat
    <2>1. /\ linked \in Nat /\ Len(functions) \in Nat /\ todo = <<>> /\ labels \in Nat
          /\ maps \in Seq(MapRecords) /\ Len(maps) = Len(functions) + 1
          /\ DOMAIN functions = 1..Len(functions)
      BY <1>1 DEF CompilationInv, StateOK
    <2>2. f \in 1..Len(functions) /\ f + 1 # 1 /\ linked + 2 = f + 1
          /\ f + 1 \in 1..Len(functions) + 1 /\ 1 \in 1..Len(functions) + 1
      BY <1>1, <1>2, <2>1
    <2>3. 1 \in DOMAIN maps /\ f + 1 \in DOMAIN maps
      BY <2>1, <2>2
    <2>. QED BY <1>1, <2>1, <2>2, <2>3 DEF Live
  <1>4. PICK map, body, ref : map = maps[1] /\ body = maps[f + 1] /\ ref = functions[f].reference
    OBVIOUS
  <1>5. /\ Balanced(map) /\ Balanced(body)
        /\ \A i \in DOMAIN map.code : Written(map.code[i]) \/ map.code[i].op \in {"EXIT", "RET"}
        /\ \A i \in DOMAIN body.code : Written(body.code[i])
    BY <1>3, <1>4 DEF CompilationInv, MapsOK
  <1>6. ref \in 0..labels - 1 /\ owner[ref + 1] = 0 /\ ref \in Int
    <2>1. ref \in 0..labels - 1 /\ owner[ref + 1] = 0
      BY <1>3, <1>4 DEF CompilationInv, HeadsOK
    <2>. QED BY <1>3, <2>1
  <1>7. PICK new, n, b : new = With_function(map, ref, body) /\ n = Len(map.code) /\ b = Len(body.code)
    OBVIOUS
  <1>8. new \in MapRecords /\ n \in Nat /\ b \in Nat /\ Links(new, map, ref, body, n, b)
    BY <1>3, <1>4, <1>5, <1>6, <1>7, LinksFacts
  <1>9. maps' = [maps EXCEPT ![1] = new]
    BY <1>2, <1>3, <1>4, <1>7 DEF Link_function
  <1>10. PICK e \in DOMAIN map.code :
            /\ map.code[e].op = "EXIT"
            /\ \A i \in DOMAIN map.code : map.code[i].op = "EXIT" => i = e
            /\ \A i \in DOMAIN map.code : map.code[i].op = "RET" => i > e
            /\ \A k \in 1..linked : \E j \in DOMAIN map.code : j > e /\ IsLabel(map.code[j], functions[k].reference)
            /\ map.code[Len(map.code)].op \in {"EXIT", "RET"}
    BY <1>1, <1>4 DEF CompilationInv, LinkedOK
  <1>11. /\ map.code \in Seq(Assembled) /\ body.code \in Seq(Assembled)
         /\ DOMAIN map.code = 1..n /\ DOMAIN body.code = 1..b /\ n # 0
         /\ map.code[n].op \in {"EXIT", "RET"} /\ e \in 1..n /\ e \in Nat
    <2>1. map.code \in Seq(Assembled) /\ body.code \in Seq(Assembled)
      BY <1>3, <1>4 DEF MapRecords
    <2>2. DOMAIN map.code = 1..n /\ DOMAIN body.code = 1..b
      BY <1>7, <2>1
    <2>3. e \in 1..n
      BY <2>2
    <2>. QED BY <1>7, <1>8, <1>10, <2>1, <2>2, <2>3
  <1>12. Balanced(new)
    BY <1>3, <1>4, <1>5, <1>6, <1>7, <1>8, <1>11, LinkBalances DEF Sized
  <1>13. /\ DOMAIN new.code = 1..n + b + 2 /\ Len(new.code) = n + b + 2
         /\ \A i \in 1..n : new.code[i] = map.code[i]
         /\ new.code[n + 1].op = "LBL" /\ new.code[n + 1].arg = ref
         /\ \A i \in 1..b : new.code[n + 1 + i] = body.code[i]
         /\ new.code[n + b + 2].op = "RET"
    BY <1>8 DEF Links, Instruction
  <1>14. \A i \in 1..n + b + 2 : \/ i \in 1..n \/ i = n + 1
                                 \/ i - (n + 1) \in 1..b /\ n + 1 + (i - (n + 1)) = i
                                 \/ i = n + b + 2
    BY <1>8, LinkedFrom
  <1>15. \A i \in 1..b : body.code[i].op \notin {"EXIT", "RET"}
    <2>1. \A i \in 1..b : body.code[i].op \in WrittenOps
      BY <1>5, <1>11 DEF Written
    <2>. QED BY <2>1 DEF WrittenOps
  <1>16. \A i \in 1..n + b + 2 : Written(new.code[i]) \/ new.code[i].op \in {"EXIT", "RET"}
    <2>1. Written(new.code[n + 1])
      BY <1>13 DEF Written, WrittenOps
    <2>2. ASSUME NEW i \in 1..n + b + 2
          PROVE  Written(new.code[i]) \/ new.code[i].op \in {"EXIT", "RET"}
      <3>1. CASE i \in 1..n
        BY <1>5, <1>11, <1>13, <3>1
      <3>2. CASE i - (n + 1) \in 1..b /\ n + 1 + (i - (n + 1)) = i
        <4>1. PICK k \in 1..b : n + 1 + k = i
          BY <3>2
        <4>. QED BY <1>5, <1>11, <1>13, <4>1
      <3>. QED BY <1>13, <1>14, <2>1, <3>1, <3>2
    <2>. QED BY <2>2
  <1>17. ASSUME NEW i \in 1..n, map.code[i].op = "LBL"
         PROVE  /\ map.code[i].arg \in 0..labels - 1
                /\ \/ owner[map.code[i].arg + 1] \in 1..f
                   \/ \E k \in 1..linked : functions[k].reference = map.code[i].arg
                /\ \A j \in 1..n : IsLabel(map.code[j], map.code[i].arg) => j = i
    <2>1. PICK l : l = map.code[i].arg
      OBVIOUS
    <2>2. /\ l \in 0..labels - 1 /\ Belongs(1, l)
          /\ \A j \in 1..n : IsLabel(map.code[j], l) => j = i
      BY <1>3, <1>4, <1>11, <1>17, <2>1 DEF CompilationInv, PlacedOK
    <2>3. \/ owner[l + 1] = 1 \/ owner[l + 1] \in 2..linked + 1
          \/ \E k \in 1..linked : functions[k].reference = l
      BY <2>2 DEF Belongs
    <2>4. 1 \in 1..f /\ \A x \in 2..linked + 1 : x \in 1..f
      BY <1>2, <1>3
    <2>. QED BY <2>1, <2>2, <2>3, <2>4
  <1>18. ASSUME NEW i \in 1..b, body.code[i].op = "LBL"
         PROVE  /\ body.code[i].arg \in 0..labels - 1
                /\ owner[body.code[i].arg + 1] = f + 1
                /\ \A j \in 1..b : IsLabel(body.code[j], body.code[i].arg) => j = i
    <2>1. PICK l : l = body.code[i].arg
      OBVIOUS
    <2>2. /\ l \in 0..labels - 1 /\ Belongs(f + 1, l)
          /\ \A j \in 1..b : IsLabel(body.code[j], l) => j = i
      BY <1>3, <1>4, <1>11, <1>18, <2>1 DEF CompilationInv, PlacedOK
    <2>3. owner[l + 1] = f + 1
      BY <1>3, <2>2 DEF Belongs
    <2>. QED BY <2>1, <2>2, <2>3
  <1>19. \A k \in 1..linked : k \in DOMAIN functions /\ owner[functions[k].reference + 1] = 0
                              /\ functions[k].reference # ref
    <2>1. ASSUME NEW k \in 1..linked
          PROVE  k \in DOMAIN functions /\ k # f
      BY <1>1, <1>2, <1>3, <2>1 DEF CompilationInv, StateOK
    <2>. QED BY <1>3, <1>4, <2>1 DEF CompilationInv, HeadsOK
  <1>20. /\ \A x \in 1..f : x # 0 /\ x # f + 1
         /\ f + 1 # 0
    BY <1>2, <1>3
  \* A label of one part is in no other one.
  <1>21. ASSUME NEW i \in 1..n, NEW k \in 1..b, map.code[i].op = "LBL", body.code[k].op = "LBL"
         PROVE  map.code[i].arg # body.code[k].arg
    BY <1>17, <1>18, <1>19, <1>20, <1>21
  <1>22. ASSUME NEW i \in 1..n, map.code[i].op = "LBL" PROVE map.code[i].arg # ref
    BY <1>6, <1>17, <1>19, <1>20, <1>22
  <1>23. ASSUME NEW i \in 1..b, body.code[i].op = "LBL" PROVE body.code[i].arg # ref
    BY <1>6, <1>18, <1>20, <1>23
  <1>24. ASSUME NEW i \in 1..n + b + 2, new.code[i].op = "LBL"
         PROVE  /\ new.code[i].arg \in 0..labels - 1
                /\ Belongs(1, new.code[i].arg)'
                /\ \A j \in 1..n + b + 2 : IsLabel(new.code[j], new.code[i].arg) => j = i
    <2>1. PICK l : l = new.code[i].arg
      OBVIOUS
    <2>2. CASE i \in 1..n
      <3>1. new.code[i] = map.code[i] /\ map.code[i].op = "LBL" /\ map.code[i].arg = l
        BY <1>13, <1>24, <2>1, <2>2
      <3>2. /\ l \in 0..labels - 1
            /\ owner[l + 1] \in 1..f \/ \E k \in 1..linked : functions[k].reference = l
            /\ \A j \in 1..n : IsLabel(map.code[j], l) => j = i
        BY <1>17, <2>2, <3>1
      <3>3. Belongs(1, l)'
        <4>1. /\ \A x \in 1..f : x = 1 \/ x \in 2..linked' + 1
              /\ \A k \in 1..linked : k \in 1..linked'
          BY <1>1, <1>2, <1>3
        <4>. QED BY <1>1, <3>2, <4>1 DEF Belongs
      <3>4. ASSUME NEW j \in 1..n + b + 2, IsLabel(new.code[j], l)
            PROVE  j = i
        <4>1. CASE j \in 1..n
          BY <1>13, <3>2, <3>4, <4>1
        <4>2. CASE j = n + 1
          BY <1>13, <1>22, <2>2, <3>1, <3>4, <4>2 DEF IsLabel
        <4>3. CASE j - (n + 1) \in 1..b /\ n + 1 + (j - (n + 1)) = j
          <5>1. new.code[j] = body.code[j - (n + 1)]
            BY <1>13, <4>3
          <5>. QED BY <1>21, <2>2, <3>1, <3>4, <4>3, <5>1 DEF IsLabel
        <4>4. CASE j = n + b + 2
          BY <1>13, <3>4, <4>4 DEF IsLabel
        <4>. QED BY <1>14, <4>1, <4>2, <4>3, <4>4
      <3>5. Belongs(1, new.code[i].arg)'
        BY <2>1, <3>3 DEF Belongs
      <3>. QED BY <2>1, <3>2, <3>4, <3>5
    <2>3. CASE i = n + 1
      <3>1. l = ref
        BY <1>13, <2>1, <2>3
      <3>2. Belongs(1, l)'
        <4>1. f \in 1..linked' /\ functions'[f].reference = l
          BY <1>1, <1>2, <1>3, <1>4, <3>1
        <4>. QED BY <1>1, <4>1 DEF Belongs
      <3>3. ASSUME NEW j \in 1..n + b + 2, IsLabel(new.code[j], l)
            PROVE  j = i
        <4>1. CASE j \in 1..n
          BY <1>13, <1>22, <3>1, <3>3, <4>1 DEF IsLabel
        <4>2. CASE j - (n + 1) \in 1..b /\ n + 1 + (j - (n + 1)) = j
          <5>1. new.code[j] = body.code[j - (n + 1)]
            BY <1>13, <4>2
          <5>. QED BY <1>23, <3>1, <3>3, <4>2, <5>1 DEF IsLabel
        <4>3. CASE j = n + b + 2
          BY <1>13, <3>3, <4>3 DEF IsLabel
        <4>. QED BY <1>14, <2>3, <4>1, <4>2, <4>3
      <3>4. Belongs(1, new.code[i].arg)'
        BY <2>1, <3>2 DEF Belongs
      <3>. QED BY <1>6, <2>1, <3>1, <3>3, <3>4
    <2>4. CASE i - (n + 1) \in 1..b /\ n + 1 + (i - (n + 1)) = i
      <3>0. PICK h \in 1..b : i = n + 1 + h
        BY <2>4
      <3>1. new.code[i] = body.code[h] /\ body.code[h].op = "LBL" /\ body.code[h].arg = l
        BY <1>13, <1>24, <2>1, <3>0
      <3>2. /\ l \in 0..labels - 1 /\ owner[l + 1] = f + 1
            /\ \A j \in 1..b : IsLabel(body.code[j], l) => j = h
        BY <1>18, <3>1
      <3>3. Belongs(1, l)'
        <4>1. f + 1 \in 2..linked' + 1
          BY <1>1, <1>2, <1>3
        <4>. QED BY <1>1, <3>2, <4>1 DEF Belongs
      <3>4. ASSUME NEW j \in 1..n + b + 2, IsLabel(new.code[j], l)
            PROVE  j = i
        <4>1. CASE j \in 1..n
          BY <1>13, <1>21, <3>1, <3>4, <4>1 DEF IsLabel
        <4>2. CASE j = n + 1
          BY <1>13, <1>23, <3>1, <3>4, <4>2 DEF IsLabel
        <4>3. CASE j - (n + 1) \in 1..b /\ n + 1 + (j - (n + 1)) = j
          <5>1. new.code[j] = body.code[j - (n + 1)]
            BY <1>13, <4>3
          <5>2. j - (n + 1) = h
            BY <3>2, <3>4, <4>3, <5>1
          <5>. QED BY <3>0, <4>3, <5>2
        <4>4. CASE j = n + b + 2
          BY <1>13, <3>4, <4>4 DEF IsLabel
        <4>. QED BY <1>14, <4>1, <4>2, <4>3, <4>4
      <3>5. Belongs(1, new.code[i].arg)'
        BY <2>1, <3>3 DEF Belongs
      <3>. QED BY <2>1, <3>2, <3>4, <3>5
    <2>5. CASE i = n + b + 2
      BY <1>13, <1>24, <2>5
    <2>. QED BY <1>14, <2>2, <2>3, <2>4, <2>5
  <1>25. ASSUME NEW i \in 1..n
         PROVE  InMain(new.code, i) <=> InMain(map.code, i)
    <2>1. \A j \in 1..i - 1 : j \in 1..n
      BY <1>8
    <2>. QED BY <1>13, <2>1 DEF InMain
  <1>26. ASSUME NEW i \in 1..b
         PROVE  ~InMain(new.code, n + 1 + i)
    <2>1. e \in 1..(n + 1 + i) - 1
      BY <1>8, <1>11
    <2>2. new.code[e].op = "EXIT"
      BY <1>10, <1>11, <1>13
    <2>. QED BY <2>1, <2>2 DEF InMain
  <1>27. ASSUME NEW i \in 1..n + b + 2, IsJump(new.code[i])
         PROVE  LandsAhead(new.code, i)
    <2>0. DOMAIN todo = {}
      BY <1>3
    <2>1. CASE i \in 1..n
      <3>1. new.code[i] = map.code[i] /\ IsJump(map.code[i])
        BY <1>13, <1>27, <2>1
      <3>2. LandsAhead(map.code, i)
        BY <1>3, <1>4, <1>11, <2>0, <2>1, <3>1 DEF CompilationInv, JumpsOK
      <3>3. PICK j \in 1..n : /\ j > i /\ IsLabel(map.code[j], map.code[i].arg)
                              /\ InMain(map.code, i) <=> InMain(map.code, j)
        BY <1>11, <3>2 DEF LandsAhead
      <3>4. j \in 1..n + b + 2 /\ new.code[j] = map.code[j]
        BY <1>8, <1>13
      <3>. QED BY <1>13, <1>25, <2>1, <3>1, <3>3, <3>4 DEF LandsAhead
    <2>2. CASE i = n + 1 \/ i = n + b + 2
      BY <1>13, <1>27, <2>2 DEF IsJump
    <2>3. CASE i - (n + 1) \in 1..b /\ n + 1 + (i - (n + 1)) = i
      <3>0. PICK h \in 1..b : i = n + 1 + h
        BY <2>3
      <3>1. new.code[i] = body.code[h] /\ IsJump(body.code[h])
        BY <1>13, <1>27, <3>0
      <3>2. LandsAhead(body.code, h)
        BY <1>3, <1>4, <1>11, <2>0, <3>1 DEF CompilationInv, JumpsOK
      <3>3. PICK j \in 1..b : j > h /\ IsLabel(body.code[j], body.code[h].arg)
        BY <1>11, <3>2 DEF LandsAhead
      <3>4. n + 1 + j \in 1..n + b + 2 /\ n + 1 + j > i /\ new.code[n + 1 + j] = body.code[j]
        BY <1>8, <1>13, <3>0, <3>3
      <3>5. InMain(new.code, i) <=> InMain(new.code, n + 1 + j)
        BY <1>26, <3>0
      <3>. QED BY <1>13, <3>1, <3>3, <3>4, <3>5 DEF LandsAhead
    <2>. QED BY <1>14, <2>1, <2>2, <2>3
  <1>28. LinkedOK'
    <2>1. PICK code : code = new.code
      OBVIOUS
    <2>2. e \in DOMAIN code /\ code[e].op = "EXIT"
      BY <1>8, <1>10, <1>11, <1>13, <2>1
    <2>3. ASSUME NEW i \in DOMAIN code
          PROVE  (code[i].op = "EXIT" => i = e) /\ (code[i].op = "RET" => i > e)
      <3>1. CASE i \in 1..n
        BY <1>10, <1>11, <1>13, <2>1, <3>1
      <3>2. CASE i \notin 1..n
        <4>1. i > e /\ i \in 1..n + b + 2
          <5>1. i \in 1..n + b + 2
            BY <1>13, <2>1
          <5>. QED BY <1>8, <1>11, <3>2, <5>1
        <4>2. code[i].op # "EXIT"
          BY <1>13, <1>14, <1>15, <2>1, <3>2, <4>1
        <4>. QED BY <4>1, <4>2
      <3>. QED BY <3>1, <3>2
    <2>4. ASSUME NEW k \in 1..linked'
          PROVE  \E j \in DOMAIN code : j > e /\ IsLabel(code[j], functions'[k].reference)
      <3>1. CASE k = f
        <4>1. n + 1 \in DOMAIN code /\ n + 1 > e
          BY <1>8, <1>11, <1>13, <2>1
        <4>2. IsLabel(code[n + 1], functions'[k].reference)
          BY <1>1, <1>4, <1>13, <2>1, <3>1 DEF IsLabel
        <4>. QED BY <4>1, <4>2
      <3>2. CASE k # f
        <4>1. k \in 1..linked
          BY <1>1, <1>2, <1>3, <3>2
        <4>2. PICK j \in 1..n : j > e /\ IsLabel(map.code[j], functions[k].reference)
          BY <1>10, <1>11, <4>1
        <4>3. j \in DOMAIN code /\ code[j] = map.code[j]
          BY <1>8, <1>13, <2>1
        <4>. QED BY <1>1, <4>2, <4>3
      <3>. QED BY <3>1, <3>2
    <2>5. code[Len(code)].op \in {"EXIT", "RET"}
      BY <1>13, <2>1
    <2>6. maps'[1].code = code
      BY <1>3, <1>9, <2>1
    <2>. QED BY <2>2, <2>3, <2>4, <2>5, <2>6 DEF LinkedOK
  <1>29. /\ DOMAIN todo' = {} /\ todo' = <<>> /\ todo' \in Seq(Tasks)
         /\ linked' \in Nat /\ linked' <= Len(functions)
    BY <1>1, <1>3
  <1>. QED BY <1>1, <1>3, <1>8, <1>9, <1>12, <1>13, <1>16, <1>24, <1>27, <1>28, <1>29, NothingToDo, ProgramKeeps
-----------------------------------------------------------------------------
(* The code handed over.                                                     *)

LEMMA TheLabel ==
  ASSUME NEW code \in Seq(Assembled), NEW j \in DOMAIN code, NEW l, IsLabel(code[j], l),
         \A i \in DOMAIN code : IsLabel(code[i], l) => i = j
  PROVE  get_label_address(code, l) = j - 1
  <1>1. ASSUME NEW i \in DOMAIN code
        PROVE  code[i] = [op |-> "LBL", arg |-> l] <=> IsLabel(code[i], l)
    <2>1. code[i] \in Assembled
      OBVIOUS
    <2>2. code[i] = [op |-> code[i].op, arg |-> code[i].arg]
      BY <2>1 DEF Assembled
    <2>. QED BY <2>2 DEF IsLabel
  <1>2. Labelled(code, l) = {j}
    BY <1>1 DEF Labelled
  <1>3. j \in Int /\ j <= j
    OBVIOUS
  <1>4. (CHOOSE i \in {j} : \A k \in {j} : i <= k) = j
    BY <1>3
  <1>. QED BY <1>2, <1>4 DEF get_label_address

\* A label that is there is found where it is, and nothing is counted on there.
LEMMA LabelFound ==
  ASSUME CompilationInv, stage = "linking", NEW j \in DOMAIN maps[1].code, NEW l,
         IsLabel(maps[1].code[j], l)
  PROVE  /\ get_label_address(maps[1].code, l) = j - 1
         /\ j \in DOMAIN maps[1].depth /\ maps[1].depth[j] = 0
  <1>1. /\ 1 \in Live /\ maps[1].code \in Seq(Assembled) /\ maps[1].depth \in Seq(Nat)
    <2>1. maps \in Seq(MapRecords) /\ Len(maps) = Len(functions) + 1 /\ Len(functions) \in Nat
      BY DEF CompilationInv, StateOK
    <2>2. 1 \in DOMAIN maps
      BY <2>1
    <2>3. maps[1] \in MapRecords
      BY <2>1, <2>2
    <2>. QED BY <2>2, <2>3 DEF Live, MapRecords
  <1>2. \A i \in DOMAIN maps[1].code : IsLabel(maps[1].code[i], l) => i = j
    BY <1>1 DEF CompilationInv, PlacedOK, IsLabel
  <1>3. Balanced(maps[1])
    BY <1>1 DEF CompilationInv, MapsOK
  <1>4. j \in DOMAIN maps[1].depth /\ maps[1].depth[j] = 0
    BY <1>1, <1>3 DEF Balanced, IsLabel
  <1>. QED BY <1>1, <1>2, <1>4, TheLabel

\* What translate_labels makes of an instruction.
IsTranslated(i, instr, new) ==
    /\ instr \in Assembled
    /\ Written(instr) \/ instr.op \in {"EXIT", "RET"}
    /\ IsJump(instr) =>
          /\ new.op = (IF instr.op = "LBLJMP" THEN "JUMP" ELSE "JUMPIF")
          /\ \E j \in DOMAIN maps[1].code :
                /\ j > i /\ new.arg = j - 1
                /\ InMain(maps[1].code, i) <=> InMain(maps[1].code, j)
                /\ j \in DOMAIN maps[1].depth /\ maps[1].depth[j] = 0
    /\ instr.op = "LBLCALL" =>
          /\ new.op = "CALL"
          /\ \E j \in DOMAIN maps[1].code :
                /\ new.arg = j - 1 /\ ~InMain(maps[1].code, j)
                /\ j \in DOMAIN maps[1].depth /\ maps[1].depth[j] = 0
    /\ instr.op = "LBL" => new.op = "NOP" /\ new.arg = instr.arg
    /\ ~IsJump(instr) /\ instr.op \notin {"LBLCALL", "LBL"} => new = instr

LEMMA Translated ==
  ASSUME CompilationInv, stage = "linking", linked = Len(functions), NEW i \in DOMAIN maps[1].code,
         NEW instr, instr = maps[1].code[i], NEW new, new = translate_labels(maps[1].code)[i]
  PROVE  IsTranslated(i, instr, new)
  <1>1. /\ 1 \in Live /\ maps[1].code \in Seq(Assembled) /\ 1 \in DOMAIN maps
        /\ todo = <<>>
    <2>1. maps \in Seq(MapRecords) /\ Len(maps) = Len(functions) + 1 /\ Len(functions) \in Nat
      BY DEF CompilationInv, StateOK
    <2>2. 1 \in DOMAIN maps
      BY <2>1
    <2>3. todo = <<>>
      BY DEF CompilationInv, StateOK
    <2>4. maps[1] \in MapRecords
      BY <2>1, <2>2
    <2>. QED BY <2>2, <2>3, <2>4 DEF Live, MapRecords
  <1>2. /\ instr \in Assembled
        /\ Written(instr) \/ instr.op \in {"EXIT", "RET"}
    BY <1>1 DEF CompilationInv, MapsOK
  <1>3. PICK code : code = maps[1].code
    OBVIOUS
  <1>4. new = CASE instr.op \in {"LBLJMP", "LBLJMPIF", "LBLCALL"} ->
                      [op |-> Plain(instr.op), arg |-> get_label_address(code, instr.arg)]
                [] instr.op = "LBL" -> [instr EXCEPT !.op = "NOP"]
                [] OTHER -> instr
    BY <1>3 DEF translate_labels
  <1>5. ASSUME IsJump(instr)
        PROVE  /\ new.op = (IF instr.op = "LBLJMP" THEN "JUMP" ELSE "JUMPIF")
               /\ \E j \in DOMAIN code :
                     /\ j > i /\ new.arg = j - 1
                     /\ InMain(code, i) <=> InMain(code, j)
                     /\ j \in DOMAIN maps[1].depth /\ maps[1].depth[j] = 0
    <2>1. LandsAhead(code, i)
      <3>1. DOMAIN todo = {}
        BY <1>1
      <3>. QED BY <1>1, <1>3, <1>5, <3>1 DEF CompilationInv, JumpsOK
    <2>2. PICK j \in DOMAIN code : /\ j > i /\ IsLabel(code[j], instr.arg)
                                   /\ InMain(code, i) <=> InMain(code, j)
      BY <1>3, <2>1 DEF LandsAhead
    <2>3. /\ get_label_address(code, instr.arg) = j - 1
          /\ j \in DOMAIN maps[1].depth /\ maps[1].depth[j] = 0
      BY <1>3, <2>2, LabelFound
    <2>4. /\ new.op = (IF instr.op = "LBLJMP" THEN "JUMP" ELSE "JUMPIF")
          /\ new.arg = get_label_address(code, instr.arg)
      BY <1>4, <1>5 DEF IsJump, Plain
    <2>. QED BY <2>2, <2>3, <2>4
  <1>6. ASSUME instr.op = "LBLCALL"
        PROVE  /\ new.op = "CALL"
               /\ \E j \in DOMAIN code :
                     /\ new.arg = j - 1 /\ ~InMain(code, j)
                     /\ j \in DOMAIN maps[1].depth /\ maps[1].depth[j] = 0
    <2>1. PICK k \in DOMAIN functions : functions[k].reference = instr.arg
      BY <1>2, <1>6 DEF Written
    <2>2. k \in 1..linked
      BY DEF CompilationInv, StateOK
    <2>3. PICK e \in DOMAIN code :
             /\ code[e].op = "EXIT"
             /\ \A q \in 1..linked : \E j \in DOMAIN code : j > e /\ IsLabel(code[j], functions[q].reference)
      BY <1>3 DEF CompilationInv, LinkedOK
    <2>4. PICK j \in DOMAIN code : j > e /\ IsLabel(code[j], instr.arg)
      BY <2>1, <2>2, <2>3
    <2>5. ~InMain(code, j)
      <3>1. e \in 1..j - 1
        BY <1>1, <1>3, <2>4
      <3>. QED BY <2>3, <3>1 DEF InMain
    <2>6. /\ get_label_address(code, instr.arg) = j - 1
          /\ j \in DOMAIN maps[1].depth /\ maps[1].depth[j] = 0
      BY <1>3, <2>4, LabelFound
    <2>7. new.op = "CALL" /\ new.arg = get_label_address(code, instr.arg)
      BY <1>4, <1>6 DEF Plain
    <2>. QED BY <2>4, <2>5, <2>6, <2>7
  <1>7. instr.op = "LBL" => new.op = "NOP" /\ new.arg = instr.arg
    <2>1. instr = [op |-> instr.op, arg |-> instr.arg]
      BY <1>2 DEF Assembled
    <2>. QED BY <1>4, <2>1
  <1>8. ~IsJump(instr) /\ instr.op \notin {"LBLCALL", "LBL"} => new = instr
    BY <1>4 DEF IsJump
  <1>. QED BY <1>2, <1>3, <1>5, <1>6, <1>7, <1>8 DEF IsTranslated

(* Sound code for which there are cells enough is code to be trusted.        *)
LEMMA Verifies ==
  ASSUME CompilationInv, stage = "linking", linked = Len(functions),
         NEW t, t = translate_labels(maps[1].code), NEW image, image = [code |-> t, pool |-> pool]
  PROVE  /\ t \in Seq(Assembled)
         /\ maps[1].sound /\ CellsSuffice => Verified(image, maps[1].depth) /\ JumpsForward(t)
  <1>1. /\ 1 \in Live /\ 1 \in DOMAIN maps /\ maps[1] \in MapRecords
    <2>1. maps \in Seq(MapRecords) /\ Len(maps) = Len(functions) + 1 /\ Len(functions) \in Nat
      BY DEF CompilationInv, StateOK
    <2>2. 1 \in DOMAIN maps
      BY <2>1
    <2>. QED BY <2>1, <2>2 DEF Live
  <1>2. PICK code, depth : code = maps[1].code /\ depth = maps[1].depth
    OBVIOUS
  <1>3. PICK n : n = Len(code)
    OBVIOUS
  <1>4. /\ code \in Seq(Assembled) /\ depth \in Seq(Nat) /\ Balanced(maps[1])
        /\ DOMAIN code = 1..n /\ DOMAIN depth = 1..n /\ n \in Nat
    <2>1. code \in Seq(Assembled) /\ depth \in Seq(Nat) /\ Balanced(maps[1])
      BY <1>1, <1>2 DEF CompilationInv, MapsOK, MapRecords
    <2>. QED BY <1>2, <1>3, <2>1 DEF Balanced
  <1>5. DOMAIN t = 1..n /\ t \in [1..n -> {t[i] : i \in 1..n}]
    BY <1>2, <1>4 DEF translate_labels
  <1>6. ASSUME NEW i \in 1..n
        PROVE  /\ code[i] \in Assembled
               /\ Written(code[i]) \/ code[i].op \in {"EXIT", "RET"}
               /\ IsJump(code[i]) =>
                     /\ t[i].op = (IF code[i].op = "LBLJMP" THEN "JUMP" ELSE "JUMPIF")
                     /\ \E j \in 1..n : /\ j > i /\ t[i].arg = j - 1
                                        /\ InMain(code, i) <=> InMain(code, j)
                                        /\ depth[j] = 0
               /\ code[i].op = "LBLCALL" =>
                     /\ t[i].op = "CALL"
                     /\ \E j \in 1..n : t[i].arg = j - 1 /\ ~InMain(code, j) /\ depth[j] = 0
               /\ code[i].op = "LBL" => t[i].op = "NOP" /\ t[i].arg = code[i].arg
               /\ ~IsJump(code[i]) /\ code[i].op \notin {"LBLCALL", "LBL"} => t[i] = code[i]
    <2>1. IsTranslated(i, code[i], t[i])
      BY <1>2, <1>4, Translated
    <2>. QED BY <1>2, <1>4, <2>1 DEF IsTranslated
  <1>7. ASSUME NEW i \in 1..n
        PROVE  t[i] \in Assembled
    <2>1. t[i] = CASE code[i].op \in {"LBLJMP", "LBLJMPIF", "LBLCALL"} ->
                         [op |-> Plain(code[i].op), arg |-> get_label_address(code, code[i].arg)]
                   [] code[i].op = "LBL" -> [code[i] EXCEPT !.op = "NOP"]
                   [] OTHER -> code[i]
      BY <1>2, <1>4 DEF translate_labels
    <2>2. CASE code[i].op \in {"LBLJMP", "LBLJMPIF", "LBLCALL"}
      <3>1. t[i] = [op |-> Plain(code[i].op), arg |-> t[i].arg]
        BY <2>1, <2>2
      <3>2. Plain(code[i].op) \in Opcodes
        BY <2>2 DEF Plain, Opcodes
      <3>3. t[i].arg \in Int
        BY <1>6, <2>2 DEF IsJump
      <3>. QED BY <3>1, <3>2, <3>3 DEF Assembled
    <2>3. CASE code[i].op = "LBL"
      <3>1. code[i] = [op |-> code[i].op, arg |-> code[i].arg] /\ code[i].arg \in Int
        BY <1>6 DEF Assembled
      <3>2. t[i] = [op |-> "NOP", arg |-> code[i].arg]
        BY <2>1, <2>3, <3>1
      <3>. QED BY <3>1, <3>2 DEF Assembled, Opcodes
    <2>4. CASE code[i].op \notin {"LBLJMP", "LBLJMPIF", "LBLCALL", "LBL"}
      BY <1>6, <2>4 DEF IsJump
    <2>. QED BY <2>2, <2>3, <2>4
  <1>8. t \in Seq(Assembled)
    <2>1. t \in [1..n -> Assembled]
      BY <1>5, <1>7
    <2>. QED BY <1>4, <2>1
  <1>9. ASSUME NEW i \in 1..n
        PROVE  /\ t[i].op = "EXIT" <=> code[i].op = "EXIT"
               /\ Operands(t[i]) = Operands(code[i]) /\ Growth(t[i]) = Growth(code[i])
    <2>1. CASE IsJump(code[i])
      BY <1>6, <2>1 DEF IsJump, Operands, Growth
    <2>2. CASE code[i].op = "LBLCALL"
      BY <1>6, <2>2 DEF Operands, Growth
    <2>3. CASE code[i].op = "LBL"
      BY <1>6, <2>3 DEF Operands, Growth
    <2>4. CASE ~IsJump(code[i]) /\ code[i].op \notin {"LBLCALL", "LBL"}
      BY <1>6, <2>4
    <2>. QED BY <2>1, <2>2, <2>3, <2>4
  <1>10. ASSUME NEW i \in 1..n
         PROVE  InMain(t, i) <=> InMain(code, i)
    <2>1. \A j \in 1..i - 1 : j \in 1..n
      BY <1>4
    <2>. QED BY <1>9, <2>1 DEF InMain
  <1>11. PICK e \in 1..n :
            /\ code[e].op = "EXIT"
            /\ \A i \in 1..n : code[i].op = "EXIT" => i = e
            /\ \A i \in 1..n : code[i].op = "RET" => i > e
            /\ code[n].op \in {"EXIT", "RET"}
    BY <1>2, <1>3, <1>4 DEF CompilationInv, LinkedOK
  <1>. SUFFICES ASSUME maps[1].sound, CellsSuffice
                PROVE  Verified(image, depth) /\ JumpsForward(t)
    BY <1>2, <1>8
  <1>12. /\ depth[1] = 0
         /\ \A i \in 1..n : Operands(code[i]) <= depth[i]
         /\ \A i \in 1..n - 1 : depth[i + 1] <= depth[i] + Growth(code[i])
    <2>1. code # <<>>
      BY <1>4, <1>11
    <2>. QED BY <1>2, <1>3, <1>4, <2>1 DEF Balanced
  <1>13. ASSUME NEW i \in 1..n
         PROVE  ArgumentOK(image, depth, i)
    <2>1. image.code = t /\ image.pool = pool /\ DOMAIN image.code = 1..n
      BY <1>5
    <2>2. CASE IsJump(code[i])
      BY <1>6, <2>1, <2>2 DEF ArgumentOK, CompiledOps, Opcodes
    <2>3. CASE code[i].op = "LBLCALL"
      <3>1. PICK j \in 1..n : t[i].arg = j - 1 /\ ~InMain(code, j) /\ depth[j] = 0
        BY <1>6, <2>3
      <3>2. t[i].arg + 1 = j /\ ~InMain(t, j) /\ t[i].op = "CALL"
        BY <1>6, <1>10, <2>3, <3>1
      <3>. QED BY <2>1, <3>1, <3>2 DEF ArgumentOK
    <2>4. CASE code[i].op = "LBL"
      BY <1>6, <2>1, <2>4 DEF ArgumentOK, CompiledOps, Opcodes
    <2>5. CASE code[i].op = "EXIT"
      <3>1. InMain(code, i)
        <4>1. \A j \in 1..i - 1 : j \in 1..n /\ j # i
          BY <1>4
        <4>. QED BY <1>11, <2>5, <4>1 DEF InMain
      <3>2. t[i].op = "EXIT" /\ InMain(t, i)
        BY <1>9, <1>10, <2>5, <3>1
      <3>. QED BY <2>1, <3>2 DEF ArgumentOK
    <2>6. CASE code[i].op = "RET"
      <3>1. ~InMain(code, i)
        <4>1. e \in 1..i - 1
          BY <1>4, <1>11, <2>6
        <4>. QED BY <1>11, <4>1 DEF InMain
      <3>2. t[i].op = "RET" /\ ~InMain(t, i)
        BY <1>6, <1>10, <2>6, <3>1 DEF IsJump
      <3>. QED BY <2>1, <3>2 DEF ArgumentOK
    <2>7. CASE code[i].op \in {"STORE", "LOAD"}
      <3>1. t[i] = code[i] /\ Written(code[i])
        BY <1>6, <2>7 DEF IsJump
      <3>2. PICK k \in DOMAIN refs : refs[k].ref = code[i].arg
        BY <2>7, <3>1 DEF Written
      <3>3. refs[k].ref \in Nat /\ refs[k].ref < CellLimit
        <4>1. refs \in Seq([name : STRING, ref : Nat])
          BY DEF CompilationInv, StateOK
        <4>2. refs[k] \in [name : STRING, ref : Nat]
          BY <3>2, <4>1, Entry
        <4>. QED BY <4>2 DEF CellsSuffice
      <3>4. t[i].arg \in 0..CellLimit - 1
        BY <3>1, <3>2, <3>3, CellLimitAssumption
      <3>. QED BY <2>1, <2>7, <3>1, <3>4 DEF ArgumentOK
    <2>8. CASE code[i].op \in {"LOADPOOL", "CALLC"}
      <3>1. t[i] = code[i] /\ Written(code[i])
        BY <1>6, <2>8 DEF IsJump
      <3>. QED BY <2>1, <2>8, <3>1 DEF ArgumentOK, Written
    <2>9. CASE code[i].op \in {"LOADBOOL", "LOADC", "EQ", "LT", "GT", "NOT", "ADD", "SUB", "MUL", "DIV"}
      <3>1. t[i] = code[i]
        BY <1>6, <2>9 DEF IsJump
      <3>. QED BY <2>1, <2>9, <3>1 DEF ArgumentOK, CompiledOps, Opcodes
    <2>10. code[i].op \in WrittenOps \cup {"EXIT", "RET"}
      BY <1>6 DEF Written
    <2>. QED BY <2>2, <2>3, <2>4, <2>5, <2>6, <2>7, <2>8, <2>9, <2>10 DEF WrittenOps, IsJump
  <1>14. ASSUME NEW i \in 1..n, code[i].op \notin {"EXIT", "RET"}
         PROVE  /\ i + 1 \in 1..n
                /\ InMain(t, i + 1) <=> InMain(t, i)
                /\ depth[i + 1] <= depth[i] + Growth(t[i])
    <2>1. i \in 1..n - 1 /\ i + 1 \in 1..n
      BY <1>4, <1>11, <1>14
    <2>2. InMain(code, i + 1) <=> InMain(code, i)
      <3>1. \A j \in 1..(i + 1) - 1 : j \in 1..i - 1 \/ j = i
        OBVIOUS
      <3>2. \A j \in 1..i - 1 : j \in 1..(i + 1) - 1
        OBVIOUS
      <3>. QED BY <1>14, <3>1, <3>2 DEF InMain
    <2>. QED BY <1>9, <1>10, <1>12, <2>1, <2>2
  <1>15. ASSUME NEW i \in 1..n, NEW j \in Successors(t, i)
         PROVE  /\ j \in 1..n
                /\ InMain(t, j) <=> InMain(t, i)
                /\ depth[j] <= depth[i] + Growth(t[i])
    <2>1. CASE IsJump(code[i])
      <3>1. PICK k \in 1..n : /\ k > i /\ t[i].arg = k - 1
                              /\ InMain(code, i) <=> InMain(code, k)
                              /\ depth[k] = 0
        BY <1>6, <2>1
      <3>2. t[i].op \in {"JUMP", "JUMPIF"} /\ Growth(t[i]) = 0 /\ t[i].arg + 1 = k /\ depth[i] \in Nat
        <4>1. t[i].op \in {"JUMP", "JUMPIF"}
          BY <1>6, <2>1
        <4>2. Growth(t[i]) = 0
          BY <4>1 DEF Growth
        <4>3. t[i].arg + 1 = k /\ depth[i] \in Nat
          BY <1>4, <3>1
        <4>. QED BY <4>1, <4>2, <4>3
      <3>3. j = k \/ j = i + 1
        BY <1>15, <3>2 DEF Successors
      <3>4. CASE j = k
        BY <1>10, <3>1, <3>2, <3>4
      <3>5. CASE j = i + 1
        BY <1>14, <2>1, <3>5 DEF IsJump
      <3>. QED BY <3>3, <3>4, <3>5
    <2>2. CASE ~IsJump(code[i])
      <3>1. t[i].op \notin {"JUMP", "JUMPIF"}
        <4>1. Written(code[i]) \/ code[i].op \in {"EXIT", "RET"}
          BY <1>6
        <4>2. code[i].op \notin {"JUMP", "JUMPIF"}
          BY <4>1 DEF Written, WrittenOps
        <4>. QED BY <1>6, <2>2, <4>2
      <3>2. j = i + 1 /\ t[i].op \notin {"EXIT", "RET"}
        BY <1>15, <3>1 DEF Successors
      <3>3. code[i].op \notin {"EXIT", "RET"}
        BY <1>6, <2>2, <3>2
      <3>. QED BY <1>14, <3>2, <3>3
    <2>. QED BY <2>1, <2>2
  <1>16. Verified(image, depth)
    <2>1. image.code = t /\ DOMAIN t = 1..n /\ t # <<>>
      <3>1. DOMAIN t # DOMAIN <<>>
        BY <1>5, <1>11
      <3>. QED BY <1>5, <3>1
    <2>2. depth \in [1..n -> Nat]
      BY <1>4
    <2>3. \A i \in 1..n : Operands(t[i]) <= depth[i]
      BY <1>9, <1>12
    <2>4. \A i \in 1..n : ArgumentOK(image, depth, i)
      BY <1>13
    <2>5. \A i \in 1..n : \A j \in Successors(t, i) :
             j \in 1..n /\ (InMain(t, j) <=> InMain(t, i)) /\ depth[j] <= depth[i] + Growth(t[i])
      BY <1>15
    <2>6. depth[1] = 0
      BY <1>12
    <2>. QED BY <2>1, <2>2, <2>3, <2>4, <2>5, <2>6 DEF Verified
  <1>17. JumpsForward(t)
    <2>1. ASSUME NEW i \in 1..n, t[i].op \in {"JUMP", "JUMPIF"}
          PROVE  t[i].arg + 1 > i
      <3>1. IsJump(code[i])
        <4>1. Written(code[i]) \/ code[i].op \in {"EXIT", "RET"}
          BY <1>6
        <4>2. code[i].op \notin {"JUMP", "JUMPIF"}
          BY <4>1 DEF Written, WrittenOps
        <4>. QED BY <1>6, <2>1, <4>2
      <3>2. PICK j \in 1..n : j > i /\ t[i].arg = j - 1
        BY <1>6, <3>1
      <3>. QED BY <3>2
    <2>. QED BY <1>5, <2>1 DEF JumpsForward
  <1>. QED BY <1>16, <1>17

LEMMA FinishCompileKeeps ==
  ASSUME CompilationInv, Finish_compile
  PROVE  CompilationInv'
  <1>1. /\ mode = "prompt" /\ stage = "linking" /\ stage' = "idle" /\ linked = Len(functions)
        /\ UNCHANGED <<functions, refs, pool, labels, owner, todo, shell_env, linked>>
        /\ mode' \in {"prompt", "executing"}
    BY DEF Finish_compile, BeginInput, table, counters, machineVars
  <1>2. /\ maps \in Seq(MapRecords) /\ 1 \in DOMAIN maps /\ maps[1] \in MapRecords /\ todo = <<>>
        /\ DOMAIN todo = {}
    <2>1. maps \in Seq(MapRecords) /\ Len(maps) = Len(functions) + 1 /\ Len(functions) \in Nat /\ todo = <<>>
      BY <1>1 DEF CompilationInv, StateOK
    <2>2. 1 \in DOMAIN maps
      BY <2>1
    <2>. QED BY <2>1, <2>2
  <1>3. PICK t : t = translate_labels(maps[1].code)
    OBVIOUS
  <1>4. PICK image : image = [code |-> t, pool |-> pool]
    OBVIOUS
  <1>5. /\ t \in Seq(Assembled)
        /\ maps[1].sound /\ CellsSuffice => Verified(image, maps[1].depth) /\ JumpsForward(t)
    BY <1>1, <1>3, <1>4, Verifies
  <1>6. PICK new : new = [maps[1] EXCEPT !.code = t]
    OBVIOUS
  <1>7. /\ new \in MapRecords /\ new.code = t
        /\ new.depth = maps[1].depth /\ new.sound = maps[1].sound
    BY <1>2, <1>5, <1>6 DEF MapRecords
  <1>8. maps' = [maps EXCEPT ![1] = new]
    BY <1>2, <1>3, <1>6 DEF Finish_compile
  <1>9. /\ maps' \in Seq(MapRecords) /\ DOMAIN maps' = DOMAIN maps /\ Len(maps') = Len(maps)
        /\ maps'[1] = new /\ \A m \in DOMAIN maps : m # 1 => maps'[m] = maps[m]
    BY <1>2, <1>7, <1>8
  <1>10. StateOK'
    <2>1. trusted' \in BOOLEAN
      <3>1. trusted \in BOOLEAN
        BY DEF CompilationInv, StateOK
      <3>2. CASE trusted' = trusted
        BY <3>1, <3>2, Zenon
      <3>3. CASE trusted' = (trusted /\ maps[1].sound /\ CellsSuffice)
        BY <3>3, Zenon
      <3>. QED BY <3>2, <3>3, Zenon DEF Finish_compile
    <2>. QED BY <1>1, <1>9, <2>1 DEF CompilationInv, StateOK
  <1>11. Live' = {m \in DOMAIN maps : m # 1} /\ \A m \in Live' : m \in Live /\ maps'[m] = maps[m]
    BY <1>1, <1>9 DEF Live
  <1>12. \A instr : Written(instr) => Written(instr)'
    BY <1>1 DEF Written
  <1>13. MapsOK'
    <2>1. ASSUME NEW m \in Live'
          PROVE  /\ Balanced(maps'[m])
                 /\ \A i \in DOMAIN maps'[m].code : Written(maps[m].code[i])'
      <3>1. PICK map : map = maps[m]
        OBVIOUS
      <3>2. Balanced(map) /\ \A i \in DOMAIN map.code : Written(map.code[i])
        BY <1>11, <2>1, <3>1 DEF CompilationInv, MapsOK
      <3>3. maps'[m] = map
        BY <1>11, <2>1, <3>1
      <3>4. ASSUME NEW i \in DOMAIN map.code
            PROVE  Written(maps[m].code[i])'
        <4>1. Written(map.code[i])'
          BY <1>12, <3>2
        <4>. QED BY <3>3, <4>1 DEF Written
      <3>. QED BY <3>2, <3>3, <3>4
    <2>. QED BY <2>1 DEF MapsOK
  <1>14. PlacedOK'
    <2>1. ASSUME NEW m \in Live', NEW i \in DOMAIN maps'[m].code, maps'[m].code[i].op = "LBL"
          PROVE  /\ maps'[m].code[i].arg \in 0..labels' - 1
                 /\ Belongs(m, maps[m].code[i].arg)'
                 /\ \A j \in DOMAIN maps'[m].code :
                       IsLabel(maps'[m].code[j], maps'[m].code[i].arg) => j = i
      <3>1. m \in Live /\ m # 1 /\ maps'[m] = maps[m]
        BY <1>11, <2>1
      <3>2. PICK map, l : map = maps[m] /\ l = map.code[i].arg
        OBVIOUS
      <3>3. /\ l \in 0..labels - 1 /\ Belongs(m, l)
            /\ \A j \in DOMAIN map.code : IsLabel(map.code[j], l) => j = i
        BY <2>1, <3>1, <3>2 DEF CompilationInv, PlacedOK
      <3>4. Belongs(m, maps[m].code[i].arg)'
        BY <1>1, <3>1, <3>2, <3>3 DEF Belongs
      <3>. QED BY <1>1, <3>1, <3>2, <3>3, <3>4
    <2>. QED BY <2>1 DEF PlacedOK
  <1>15. HeadsOK' /\ OwedOK'
    BY <1>1, <1>2 DEF CompilationInv, HeadsOK, OwedOK
  <1>16. JumpsOK'
    <2>1. \A m \in Live' : \A i \in DOMAIN maps'[m].code :
             IsJump(maps'[m].code[i]) => LandsAhead(maps'[m].code, i)
      BY <1>2, <1>11 DEF CompilationInv, JumpsOK
    <2>. QED BY <1>1, <1>2, <2>1 DEF JumpsOK
  <1>17. LinkedOK'
    BY <1>1 DEF LinkedOK
  <1>18. CodeVerifies'
    <2>. SUFFICES ASSUME mode' = "executing", maps'[1].sound, CellsSuffice'
                  PROVE  Verified(prog', maps'[1].depth) /\ JumpsForward(prog'.code)
      BY DEF CodeVerifies
    <2>1. prog' = image
      BY <1>1, <1>3, <1>4 DEF Finish_compile, BeginInput, machineVars
    <2>2. maps[1].sound /\ CellsSuffice
      BY <1>1, <1>7, <1>9 DEF CellsSuffice
    <2>3. image.code = t
      BY <1>4
    <2>. QED BY <1>5, <1>7, <1>9, <2>1, <2>2, <2>3
  <1>. QED BY <1>1, <1>2, <1>10, <1>13, <1>14, <1>15, <1>16, <1>17, <1>18, NothingToDo DEF CompilationInv
-----------------------------------------------------------------------------
(* All steps.                                                                *)

LEMMA NextKeepsCode == Next => prog' = prog
  BY DEF Next, Nop, LoadConstant, Pop, Increment, Compare, Arithmetic, Jump, JumpIf, JumpTo, Call,
         Enter, Return, Store, Load, StoreLocal, LoadLocal, CallPrint, CallInput, CallConversion,
         CallTime, ExitInstruction, CallExit, PrintUnknownType, EndOfCode,
         InvalidInstruction, WildJump, Underflow, FrameOverflow, FrameUnderflow,
         BadAddress, BadPointer, Continue, End, Fault

LEMMA RestKeeps ==
  ASSUME CompilationInv, Refuse_file \/ Execute \/ Quit \/ UNCHANGED compilationVars
  PROVE  CompilationInv'
  <1>1. UNCHANGED <<maps, table, counters, todo, shell_env, stage, linked, trusted>>
    BY DEF Refuse_file, Execute, Quit, compilationVars, session
  <1>2. mode' = "executing" => mode = "executing" /\ prog' = prog
    <2>1. CASE Refuse_file
      BY <2>1 DEF Refuse_file
    <2>2. CASE Execute
      BY <2>2, NextKeepsCode DEF Execute, RunInput
    <2>3. CASE Quit
      BY <2>3 DEF Quit, Close
    <2>4. CASE UNCHANGED compilationVars
      BY <2>4 DEF compilationVars, machineVars, vars
    <2>. QED BY <2>1, <2>2, <2>3, <2>4
  <1>. QED BY <1>1, <1>2, StandingStill

LEMMA CompilationStarts == Init_Compilation => CompilationInv
  <1>. SUFFICES ASSUME Init_Compilation PROVE CompilationInv
    OBVIOUS
  <1>1. /\ shell_env \in BOOLEAN /\ maps = <<new_map>> /\ functions = <<>> /\ refs = <<>> /\ pool = <<>>
        /\ labels = 0 /\ owner = <<>> /\ todo = <<>> /\ stage = "idle" /\ linked = 0 /\ trusted = TRUE
        /\ mode = "prompt"
    BY DEF Init_Compilation, Init_Machine
  <1>2. new_map \in MapRecords
    BY DEF new_map, MapRecords
  <1>3. StateOK
    BY <1>1, <1>2 DEF StateOK
  <1>4. DOMAIN todo = {} /\ 1..Len(todo) - 1 = {} /\ Live = {} /\ DOMAIN functions = {}
    BY <1>1 DEF Live
  <1>. QED BY <1>1, <1>3, <1>4 DEF CompilationInv, TodoOK, Reached, MapsOK, PlacedOK, HeadsOK, OwedOK,
           JumpsOK, LinkedOK, CodeVerifies

LEMMA CompilationKept == CompilationInv /\ [Next_Compilation]_compilationVars => CompilationInv'
  BY CompileStepKeeps, BeginInputKeeps, PushExitKeeps, LinkFunctionKeeps, FinishCompileKeeps,
     KillEnvironmentKeeps, RestKeeps, Zenon DEF Next_Compilation, Going_on

(* The code of a source in which every expression has a value verifies, and  *)
(* jumps forward only, for every source, and however many inputs the shell   *)
(* compiled before it (compile).                                             *)
THEOREM CompiledCodeIsVerified == CompilationSpec => []CodeVerifies
  <1>1. CompilationInv => CodeVerifies
    BY DEF CompilationInv
  <1>. QED BY <1>1, CompilationStarts, CompilationKept, PTL DEF CompilationSpec
-----------------------------------------------------------------------------
(* The machine that executes the code.                                       *)

\* Images that a verifier accepts: it finds their depths.
CompiledImages == {image \in [code : Seq(Assembled), pool : Seq(Int \cup Text)] :
                      \E depth \in Seq(Nat) : Verified(image, depth)}

LEMMA EndsSafe ==
  ASSUME SessionInv, mode' = "closed", status' = "exit", exit_code' = 1,
         UNCHANGED <<prog, ip, stack, callframes, memory, out>>
  PROVE  SessionInv'
  <1>1. StateTypes'
    BY DEF SessionInv, StateTypes, MemoryOK, OutcomeOK, CellsOK, callframes, memory, Statuses, Data
  <1>2. StorageInv' /\ AboveEmpty' /\ NoFault'
    BY DEF SessionInv, StorageInv, AboveEmpty, NoFault, callframes, memory
  <1>. QED BY <1>1, <1>2 DEF SessionInv

\* A throw outside of the shell, and what does not concern the machine.
Undisturbed == \/ UNCHANGED machineVars
               \/ /\ mode' = "closed" /\ status' = "exit" /\ exit_code' = 1
                  /\ UNCHANGED <<prog, ip, stack, callframes, memory, out>>

LEMMA CompilerLeavesMachine == ASSUME Compile_step PROVE Undisturbed /\ trusted' = trusted
  <1>1. ASSUME NoNames PROVE Undisturbed
    BY <1>1 DEF NoNames, Undisturbed
  <1>2. ASSUME ss_throw PROVE Undisturbed
    BY <1>2 DEF ss_throw, Undisturbed
  <1>3. /\ Emit => NoNames
        /\ push_expression => NoNames
        /\ push_number => NoNames
        /\ push_function_call => NoNames
    BY DEF Emit, push_expression, push_number, push_function_call
  <1>4. /\ push_identifier => NoNames \/ ss_throw
        /\ push_no_operand => ss_throw
        /\ push_call => NoNames \/ ss_throw
        /\ push_reassignment => NoNames \/ ss_throw
    <2>1. push_identifier => NoNames \/ ss_throw
      BY Zenon DEF push_identifier
    <2>2. push_no_operand => ss_throw
      BY DEF push_no_operand
    <2>3. push_call => NoNames \/ ss_throw
      BY Zenon DEF push_call
    <2>4. push_reassignment => NoNames \/ ss_throw
      BY Zenon DEF push_reassignment
    <2>. QED BY <2>1, <2>2, <2>3, <2>4
  <1>5. /\ compile_statement => NoNames
        /\ compile_objects => NoNames
        /\ push_variable => NoNames
        /\ call_statement => NoNames
        /\ return_statement => NoNames
        /\ if_statement => NoNames
    BY DEF compile_statement, compile_objects, push_variable, call_statement, return_statement,
       if_statement
  <1>6. /\ push_string => Undisturbed
        /\ declare => Undisturbed
        /\ push_function => Undisturbed
        /\ push_if_statement => Undisturbed
    BY DEF push_string, declare, push_function, push_if_statement, Undisturbed
  <1>7. trusted' = trusted
    BY DEF Compile_step, session
  <1>. QED BY <1>1, <1>2, <1>3, <1>4, <1>5, <1>6, <1>7, Zenon DEF Compile_step

TrustedInv == CompilationInv /\ (trusted => SessionInv)

LEMMA TrustedKept ==
  ASSUME CompiledImages \subseteq Images, TrustedInv, [Next_Compilation]_compilationVars
  PROVE  TrustedInv'
  <1>1. CompilationInv /\ CompilationInv'
    BY CompilationKept DEF TrustedInv
  <1>2. ASSUME SessionInv, UNCHANGED machineVars PROVE SessionInv'
    BY <1>2, SessionStays DEF machineVars
  <1>3. ASSUME SessionInv, Undisturbed PROVE SessionInv'
    BY <1>2, <1>3, EndsSafe DEF Undisturbed
  <1>. SUFFICES ASSUME trusted' PROVE SessionInv'
    BY <1>1 DEF TrustedInv
  <1>4. CASE Compile_step
    BY <1>3, <1>4, CompilerLeavesMachine DEF TrustedInv
  <1>5. CASE (\E n \in Inputs : Begin_input(n)) \/ Push_exit \/ Link_function \/ UNCHANGED compilationVars
    <2>1. UNCHANGED machineVars /\ trusted' = trusted
      BY <1>5 DEF Begin_input, Push_exit, Link_function, compilationVars, session
    <2>. QED BY <1>2, <2>1 DEF TrustedInv
  <1>6. CASE Finish_compile
    <2>1. CASE UNCHANGED <<trusted, machineVars>>
      BY <1>2, <2>1 DEF TrustedInv
    <2>2. CASE /\ BeginInput([code |-> translate_labels(maps[1].code), pool |-> pool])
               /\ trusted' = (trusted /\ maps[1].sound /\ CellsSuffice)
      <3>1. trusted /\ maps[1].sound /\ CellsSuffice
        BY <2>2, Zenon
      <3>2. stage = "linking" /\ linked = Len(functions)
        BY <1>6 DEF Finish_compile
      <3>3. PICK t : t = translate_labels(maps[1].code)
        OBVIOUS
      <3>4. PICK image : image = [code |-> t, pool |-> pool]
        OBVIOUS
      <3>5. t \in Seq(Assembled) /\ Verified(image, maps[1].depth)
        BY <1>1, <3>1, <3>2, <3>3, <3>4, Verifies
      <3>6. maps[1].depth \in Seq(Nat) /\ pool \in Seq(Int \cup Text)
        <4>1. maps \in Seq(MapRecords) /\ Len(maps) = Len(functions) + 1 /\ Len(functions) \in Nat
          BY <1>1 DEF CompilationInv, StateOK
        <4>2. 1 \in DOMAIN maps
          BY <4>1
        <4>3. maps[1] \in MapRecords
          BY <4>1, <4>2, Entry
        <4>. QED BY <1>1, <4>3 DEF MapRecords, CompilationInv, StateOK
      <3>7. image \in Images
        BY <3>4, <3>5, <3>6 DEF CompiledImages
      <3>8. BeginInput(image) /\ SessionInv
        BY <2>2, <3>1, <3>3, <3>4 DEF TrustedInv
      <3>. QED BY <3>7, <3>8, BeginsSafe
    <2>. QED BY <1>6, <2>1, <2>2 DEF Finish_compile
  <1>7. CASE Refuse_file
    BY <1>3, <1>7 DEF Refuse_file, Undisturbed, TrustedInv
  <1>8. CASE Execute
    BY <1>8, RunsSafe DEF Execute, TrustedInv, session
  <1>9. CASE Kill_environment
    BY <1>9, NewMachineSafe DEF Kill_environment, TrustedInv
  <1>10. CASE Quit
    BY <1>10, SessionStays DEF Quit, Close, TrustedInv, session
  <1>. QED BY <1>4, <1>5, <1>6, <1>7, <1>8, <1>9, <1>10 DEF Next_Compilation, Going_on

(* Who executes only what the compiler makes of sound sources runs no risk:  *)
(* no operand, address or cell is missing, in a file or in a whole session   *)
(* on one machine.  Images are to contain all code with depths that verify.  *)
THEOREM CompiledCodeIsSafe ==
  ASSUME CompiledImages \subseteq Images
  PROVE  CompilationSpec => []CompiledIsSafe
  <1>1. Init_Compilation => TrustedInv
    BY CompilationStarts, SessionStarts DEF TrustedInv, Init_Compilation
  <1>2. TrustedInv /\ [Next_Compilation]_compilationVars => TrustedInv'
    BY TrustedKept
  <1>3. TrustedInv => CompiledIsSafe
    BY DEF TrustedInv, SessionInv, NoFault, CompiledIsSafe
  <1>. QED BY <1>1, <1>2, <1>3, PTL DEF CompilationSpec
-----------------------------------------------------------------------------
(* Inputs get on.                                                            *)

\* Only the machine makes a step while it executes.
LEMMA CompilingAtPrompt ==
  /\ Compile_step => mode = "prompt"
  /\ Push_exit \/ Link_function \/ Finish_compile \/ Refuse_file => mode = "prompt"
  /\ Kill_environment \/ Quit => mode = "prompt"
  /\ \A n \in Inputs : Begin_input(n) => mode = "prompt"
  <1>1. Emit \/ push_expression \/ push_number \/ push_string \/ push_identifier \/ push_no_operand
        => mode = "prompt"
    BY DEF Emit, push_expression, push_number, push_string, push_identifier, push_no_operand,
           Pushing, Doing
  <1>2. push_function_call \/ push_call \/ compile_statement \/ compile_objects \/ push_variable
        => mode = "prompt"
    BY DEF push_function_call, push_call, compile_statement, compile_objects, push_variable,
           Pushing, Stating, Doing
  <1>3. declare \/ push_reassignment \/ call_statement \/ return_statement \/ push_function
        => mode = "prompt"
    BY DEF declare, push_reassignment, call_statement, return_statement, push_function, Stating, Doing
  <1>4. if_statement \/ push_if_statement => mode = "prompt"
    BY DEF if_statement, push_if_statement, Stating, Doing
  <1>5. Push_exit \/ Link_function \/ Finish_compile \/ Refuse_file => mode = "prompt"
    BY DEF Push_exit, Link_function, Finish_compile, Refuse_file
  <1>6. Kill_environment \/ Quit => mode = "prompt"
    BY DEF Kill_environment, Quit, NewMachine, Close
  <1>7. \A n \in Inputs : Begin_input(n) => mode = "prompt"
    BY DEF Begin_input
  <1>. QED BY <1>1, <1>2, <1>3, <1>4, <1>5, <1>6, <1>7, Zenon DEF Compile_step

LEMMA ExecutingOnly ==
  ASSUME Next_Compilation, mode = "executing"
  PROVE  Execute
  BY CompilingAtPrompt DEF Next_Compilation, Going_on

\* It begins when a source is compiled.
LEMMA BeginsWhenCompiled ==
  ASSUME TrustedInv, Next_Compilation, mode # "executing", mode' = "executing"
  PROVE  Finish_compile /\ ~err
  <1>1. ASSUME Compile_step PROVE FALSE
    <2>1. Undisturbed
      BY <1>1, CompilerLeavesMachine
    <2>. QED BY <2>1 DEF Undisturbed, machineVars
  <1>2. ~(Push_exit \/ Link_function \/ Refuse_file)
    BY DEF Push_exit, Link_function, Refuse_file, machineVars
  <1>3. ~(Execute \/ Kill_environment \/ Quit)
    BY DEF Execute, RunInput, Kill_environment, NewMachine, Quit, Close
  <1>4. \A n \in Inputs : ~Begin_input(n)
    BY DEF Begin_input, machineVars
  <1>5. Finish_compile
    BY <1>1, <1>2, <1>3, <1>4 DEF Next_Compilation, Going_on
  <1>6. err => mode' = mode
    BY <1>5 DEF Finish_compile, machineVars
  <1>. QED BY <1>5, <1>6

AheadInv == trusted /\ mode = "executing" => JumpsForward(prog.code)

LEMMA AheadKept ==
  ASSUME TrustedInv, TrustedInv', AheadInv, [Next_Compilation]_compilationVars
  PROVE  AheadInv'
  <1>. SUFFICES ASSUME trusted', mode' = "executing" PROVE JumpsForward(prog'.code)
    BY DEF AheadInv
  <1>1. CASE UNCHANGED compilationVars
    <2>1. trusted' = trusted /\ mode' = mode /\ prog' = prog
      BY <1>1 DEF compilationVars, session, machineVars, vars
    <2>. QED BY <2>1 DEF AheadInv
  <1>2. CASE Next_Compilation /\ mode = "executing"
    <2>1. Execute
      BY <1>2, ExecutingOnly
    <2>2. trusted /\ Next
      BY <2>1 DEF Execute, RunInput, session
    <2>3. TypeOK
      BY <1>2, <2>2, StateTypesMean DEF TrustedInv, SessionInv
    <2>4. prog' = prog
      BY <2>2, <2>3, OpenCalls
    <2>. QED BY <1>2, <2>2, <2>4 DEF AheadInv
  <1>3. CASE Next_Compilation /\ mode # "executing"
    <2>1. Finish_compile /\ ~err
      BY <1>3, BeginsWhenCompiled
    <2>2. maps[1].sound /\ CellsSuffice
      BY <2>1 DEF Finish_compile
    <2>3. maps' = [maps EXCEPT ![1].code = translate_labels(@)] /\ refs' = refs
      BY <2>1 DEF Finish_compile, table
    <2>4. maps'[1].sound
      <3>1. maps \in Seq(MapRecords) /\ Len(maps) = Len(functions) + 1 /\ Len(functions) \in Nat
        BY DEF TrustedInv, CompilationInv, StateOK
      <3>2. 1 \in DOMAIN maps
        BY <3>1
      <3>3. maps[1] \in MapRecords
        BY <3>1, <3>2, Entry
      <3>4. maps'[1] = [maps[1] EXCEPT !.code = translate_labels(@)]
        BY <2>3, <3>1, <3>2
      <3>5. maps'[1].sound = maps[1].sound
        BY <3>3, <3>4 DEF MapRecords
      <3>. QED BY <2>2, <3>5
    <2>5. CellsSuffice'
      BY <2>2, <2>3 DEF CellsSuffice
    <2>. QED BY <2>4, <2>5 DEF TrustedInv, CompilationInv, CodeVerifies
  <1>. QED BY <1>1, <1>2, <1>3

LEMMA InputStep ==
  ASSUME TrustedInv, AheadInv, Next_Compilation, trusted, mode = "executing", status' = "running"
  PROVE  \E k \in 0..sp : AdvanceAt(k)
  <1>1. Next
    BY ExecutingOnly DEF Execute, RunInput
  <1>2. SafeInv
    BY StateTypesMean DEF TrustedInv, SessionInv, SafeInv
  <1>. QED BY <1>1, <1>2, StepAdvances DEF AheadInv

(* No input of sound sources is ever twice at one place of an activation, in *)
(* a file or in a session: why each ends, whatever the inputs before.        *)
THEOREM CompiledCodeMovesOn ==
  ASSUME CompiledImages \subseteq Images
  PROVE  CompilationSpec => InputsAdvance
  <1>1. Init_Compilation => TrustedInv /\ AheadInv
    BY CompilationStarts, SessionStarts DEF TrustedInv, AheadInv, Init_Compilation, Init_Machine
  <1>2. TrustedInv /\ AheadInv /\ [Next_Compilation]_compilationVars => TrustedInv' /\ AheadInv'
    BY TrustedKept, AheadKept
  <1>3. TrustedInv /\ AheadInv /\ [Next_Compilation]_compilationVars
          => [trusted /\ mode = "executing" /\ status' = "running" =>
                 \E k \in 0..sp : AdvanceAt(k)]_compilationVars
    BY InputStep
  <1>. QED BY <1>1, <1>2, <1>3, PTL DEF CompilationSpec, InputsAdvance
=============================================================================
