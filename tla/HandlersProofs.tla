--------------------------- MODULE HandlersProofs ---------------------------
(***************************************************************************)
(* Theorems about Handlers: the interrupt stubs, for any contents of the   *)
(* registers, any stack and any place on it where the interrupt comes, and *)
(* what is logged, by a handler or anyone else.                            *)
(***************************************************************************)
EXTENDS Handlers, LoggerProofs, TLAPS

-----------------------------------------------------------------------------
(***************************************************************************)
(* The inductive invariant: what each instruction of a stub finds on the   *)
(* stack and in the registers.                                             *)
(***************************************************************************)

\* The words between the interrupted code's stack and the handler's argument, from
\* the processor's frame down.
Words == <<"eflags", "cs", "eip", "err_code", "int_no",
           "eax", "ecx", "edx", "ebx", "ebp", "esi", "edi",
           "ds", "es", "fs", "gs", "cr2">>

Word(w) ==
  CASE w = 4 -> IF vector \in CpuPushesErrCode THEN ErrCode ELSE 0
    [] w = 5 -> Number(vector)
    [] OTHER -> before[Words[w]]

\* How many of them are on the stack before the instruction at p.
Depth(p) ==
  CASE p = 0 -> 0
    [] p \in 1 .. 8 -> p + 4
    [] p \in 9 .. 16 -> 12 + ((p - 8) \div 2)
    [] p \in 17 .. 22 -> 16
    [] p \in 23 .. 26 -> 17
    [] p \in 27 .. 36 -> 16 - ((p - 27) \div 2)
    [] p \in 37 .. 43 -> 48 - p
    [] p = 44 -> 3
    [] OTHER -> 0

\* Where a register does not hold its interrupted value.
Away(r) ==
  CASE r = "eax" -> 25 .. 42
    [] r = "ecx" -> 25 .. 41
    [] r = "edx" -> 25 .. 40
    [] r = "ebx" -> 24 .. 39
    [] r = "ebp" -> 9 .. 38
    [] r = "ds" -> 18 .. 35
    [] r = "es" -> 19 .. 33
    [] r = "fs" -> 20 .. 31
    [] r = "gs" -> 21 .. 29
    [] r \in {"eflags", "cs", "eip"} -> 1 .. 44
    [] OTHER -> {}

\* Whose value ebp carries to or from the stack.
Carried(p) ==
  CASE p \in {9, 35} -> "ds"
    [] p \in {11, 33} -> "es"
    [] p \in {13, 31} -> "fs"
    [] p \in {15, 29} -> "gs"
    [] p \in {22, 27} -> "cr2"
    [] OTHER -> "none"

\* Whose interrupted value register r holds before the instruction at p.
Holds(p, r) ==
  IF p \notin Away(r) THEN r ELSE IF r = "ebp" THEN Carried(p) ELSE "none"

TypeOK ==
  /\ vector \in 0 .. 47
  /\ before \in Contexts
  /\ top \in Tops
  /\ at \in 0 .. 45
  /\ regs \in [Registers -> Nat]
  /\ esp \in 0 .. StackSize
  /\ stack \in [0 .. (StackSize - 1) -> Nat]

\* The slot of the argument, below the words.
Slot == ((top - 18) \div 4) * 4

StackHolds == \A w \in 1 .. Depth(at) : stack[top - w] = Word(w)

RegistersHold ==
  \A r \in Registers : Holds(at, r) # "none" => regs[r] = before[Holds(at, r)]

StubInv ==
  /\ TypeOK
  /\ esp = IF at \in {24, 25} THEN Slot ELSE top - Depth(at)
  /\ at \in {24, 25} => regs["ebx"] = top - 17
  /\ at = 24 => stack[Slot] = top - 17
  /\ StackHolds
  /\ RegistersHold

-----------------------------------------------------------------------------
(***************************************************************************)
(* Tables.                                                                 *)
(***************************************************************************)
LEMMA RegisterNames ==
  /\ Registers = {"eax", "ecx", "edx", "ebx", "ebp", "esi", "edi", "ds", "es", "fs", "gs",
                  "eflags", "cs", "eip", "cr2"}
  /\ ToSet(CpuFrame) = {"eflags", "cs", "eip"}
  /\ ToSet(General) = {"eax", "ecx", "edx", "ebx", "ebp", "esi", "edi"}
<1>1. ToSet(CpuFrame) = {"eflags", "cs", "eip"}
  BY DEF ToSet, CpuFrame
<1>2. ToSet(General) = {"eax", "ecx", "edx", "ebx", "ebp", "esi", "edi"}
  BY DEF ToSet, General
<1>3. ToSet(Segments) = {"ds", "es", "fs", "gs"}
  BY DEF ToSet, Segments
<1> QED BY <1>1, <1>2, <1>3 DEF Registers

\* The two macros agree with the processor on who pushes an error code.
LEMMA ErrCodes == ErrCodeStubs = CpuPushesErrCode
  BY DEF ErrCodeStubs, CpuPushesErrCode

\* The instructions by number.
LEMMA Operations ==
  /\ Len(CommonStub) = 44
  /\ CommonStub[1].op = "push" /\ CommonStub[2].op = "push" /\ CommonStub[3].op = "push"
  /\ CommonStub[4].op = "push" /\ CommonStub[5].op = "push" /\ CommonStub[6].op = "push"
  /\ CommonStub[7].op = "push" /\ CommonStub[8].op = "mov" /\ CommonStub[9].op = "push"
  /\ CommonStub[10].op = "mov" /\ CommonStub[11].op = "push" /\ CommonStub[12].op = "mov"
  /\ CommonStub[13].op = "push" /\ CommonStub[14].op = "mov" /\ CommonStub[15].op = "push"
  /\ CommonStub[16].op = "load" /\ CommonStub[17].op = "mov" /\ CommonStub[18].op = "mov"
  /\ CommonStub[19].op = "mov" /\ CommonStub[20].op = "mov" /\ CommonStub[21].op = "mov"
  /\ CommonStub[22].op = "push" /\ CommonStub[23].op = "pass" /\ CommonStub[24].op = "call"
  /\ CommonStub[25].op = "unwind" /\ CommonStub[26].op = "pop" /\ CommonStub[27].op = "mov"
  /\ CommonStub[28].op = "pop" /\ CommonStub[29].op = "mov" /\ CommonStub[30].op = "pop"
  /\ CommonStub[31].op = "mov" /\ CommonStub[32].op = "pop" /\ CommonStub[33].op = "mov"
  /\ CommonStub[34].op = "pop" /\ CommonStub[35].op = "mov" /\ CommonStub[36].op = "pop"
  /\ CommonStub[37].op = "pop" /\ CommonStub[38].op = "pop" /\ CommonStub[39].op = "pop"
  /\ CommonStub[40].op = "pop" /\ CommonStub[41].op = "pop" /\ CommonStub[42].op = "pop"
  /\ CommonStub[43].op = "discard" /\ CommonStub[44].op = "iret"
  BY DEF CommonStub, Ins, Push, Pop, Mov

LEMMA Operands ==
  /\ CommonStub[1].r = "eax" /\ CommonStub[2].r = "ecx" /\ CommonStub[3].r = "edx"
  /\ CommonStub[4].r = "ebx" /\ CommonStub[5].r = "ebp" /\ CommonStub[6].r = "esi"
  /\ CommonStub[7].r = "edi" /\ CommonStub[8].r = "ebp" /\ CommonStub[9].r = "ebp"
  /\ CommonStub[10].r = "ebp" /\ CommonStub[11].r = "ebp" /\ CommonStub[12].r = "ebp"
  /\ CommonStub[13].r = "ebp" /\ CommonStub[14].r = "ebp" /\ CommonStub[15].r = "ebp"
  /\ CommonStub[16].r = "ebp" /\ CommonStub[17].r = "ds" /\ CommonStub[18].r = "es"
  /\ CommonStub[19].r = "fs" /\ CommonStub[20].r = "gs" /\ CommonStub[21].r = "ebp"
  /\ CommonStub[22].r = "ebp" /\ CommonStub[26].r = "ebp" /\ CommonStub[27].r = "cr2"
  /\ CommonStub[28].r = "ebp" /\ CommonStub[29].r = "gs" /\ CommonStub[30].r = "ebp"
  /\ CommonStub[31].r = "fs" /\ CommonStub[32].r = "ebp" /\ CommonStub[33].r = "es"
  /\ CommonStub[34].r = "ebp" /\ CommonStub[35].r = "ds" /\ CommonStub[36].r = "edi"
  /\ CommonStub[37].r = "esi" /\ CommonStub[38].r = "ebp" /\ CommonStub[39].r = "ebx"
  /\ CommonStub[40].r = "edx" /\ CommonStub[41].r = "ecx" /\ CommonStub[42].r = "eax"
  BY DEF CommonStub, Ins, Push, Pop, Mov

LEMMA Sources ==
  /\ CommonStub[8].s = "ds" /\ CommonStub[10].s = "es" /\ CommonStub[12].s = "fs"
  /\ CommonStub[14].s = "gs" /\ CommonStub[17].s = "ebp" /\ CommonStub[18].s = "ebp"
  /\ CommonStub[19].s = "ebp" /\ CommonStub[20].s = "ebp" /\ CommonStub[21].s = "cr2"
  /\ CommonStub[27].s = "ebp" /\ CommonStub[29].s = "ebp" /\ CommonStub[31].s = "ebp"
  /\ CommonStub[33].s = "ebp" /\ CommonStub[35].s = "ebp"
  BY DEF CommonStub, Ins, Push, Pop, Mov

\* The words on the stack before each.
LEMMA DepthOf ==
  /\ Depth(0) = 0 /\ Depth(1) = 5 /\ Depth(2) = 6 /\ Depth(3) = 7 /\ Depth(4) = 8
  /\ Depth(5) = 9 /\ Depth(6) = 10 /\ Depth(7) = 11 /\ Depth(8) = 12 /\ Depth(9) = 12
  /\ Depth(10) = 13 /\ Depth(11) = 13 /\ Depth(12) = 14 /\ Depth(13) = 14 /\ Depth(14) = 15
  /\ Depth(15) = 15 /\ Depth(16) = 16 /\ Depth(17) = 16 /\ Depth(18) = 16 /\ Depth(19) = 16
  /\ Depth(20) = 16 /\ Depth(21) = 16 /\ Depth(22) = 16 /\ Depth(23) = 17 /\ Depth(24) = 17
  /\ Depth(25) = 17 /\ Depth(26) = 17 /\ Depth(27) = 16 /\ Depth(28) = 16 /\ Depth(29) = 15
  /\ Depth(30) = 15 /\ Depth(31) = 14 /\ Depth(32) = 14 /\ Depth(33) = 13 /\ Depth(34) = 13
  /\ Depth(35) = 12 /\ Depth(36) = 12 /\ Depth(37) = 11 /\ Depth(38) = 10 /\ Depth(39) = 9
  /\ Depth(40) = 8 /\ Depth(41) = 7 /\ Depth(42) = 6 /\ Depth(43) = 5 /\ Depth(44) = 3
  /\ Depth(45) = 0
  BY DEF Depth

LEMMA WordsOf ==
  /\ Words[1] = "eflags" /\ Words[2] = "cs" /\ Words[3] = "eip" /\ Words[4] = "err_code"
  /\ Words[5] = "int_no" /\ Words[6] = "eax" /\ Words[7] = "ecx" /\ Words[8] = "edx"
  /\ Words[9] = "ebx" /\ Words[10] = "ebp" /\ Words[11] = "esi" /\ Words[12] = "edi"
  /\ Words[13] = "ds" /\ Words[14] = "es" /\ Words[15] = "fs" /\ Words[16] = "gs"
  /\ Words[17] = "cr2"
  BY DEF Words

\* Which they are, by operation.
LEMMA Instructions ==
  ASSUME NEW p \in 1 .. 44
  PROVE  /\ CommonStub[p].op = "push" => p \in 1 .. 7 \cup {9, 11, 13, 15, 22}
         /\ CommonStub[p].op = "pop" => p \in {26, 28, 30, 32, 34} \cup 36 .. 42
         /\ CommonStub[p].op = "mov" =>
              p \in {8, 10, 12, 14} \cup 17 .. 21 \cup {27, 29, 31, 33, 35}
         /\ CommonStub[p].op = "load" <=> p = 16
         /\ CommonStub[p].op = "pass" <=> p = 23
         /\ CommonStub[p].op = "call" <=> p = 24
         /\ CommonStub[p].op = "unwind" <=> p = 25
         /\ CommonStub[p].op = "discard" <=> p = 43
         /\ CommonStub[p].op = "iret" <=> p = 44
<1>1. p \in 1 .. 7 \cup {9, 11, 13, 15, 22} => CommonStub[p].op = "push"
  BY Operations
<1>2. p \in {26, 28, 30, 32, 34} \cup 36 .. 42 => CommonStub[p].op = "pop"
  BY Operations
<1>3. p \in {8, 10, 12, 14} \cup 17 .. 21 \cup {27, 29, 31, 33, 35} => CommonStub[p].op = "mov"
  BY Operations
<1>4. /\ p = 16 => CommonStub[p].op = "load"
      /\ p = 23 => CommonStub[p].op = "pass"
      /\ p = 24 => CommonStub[p].op = "call"
      /\ p = 25 => CommonStub[p].op = "unwind"
      /\ p = 43 => CommonStub[p].op = "discard"
      /\ p = 44 => CommonStub[p].op = "iret"
  BY Operations
<1> QED BY <1>1, <1>2, <1>3, <1>4

LEMMA HoldsOf ==
  ASSUME NEW p \in 0 .. 45
  PROVE  /\ Holds(p, "eax") = IF p \in 25 .. 42 THEN "none" ELSE "eax"
         /\ Holds(p, "ecx") = IF p \in 25 .. 41 THEN "none" ELSE "ecx"
         /\ Holds(p, "edx") = IF p \in 25 .. 40 THEN "none" ELSE "edx"
         /\ Holds(p, "ebx") = IF p \in 24 .. 39 THEN "none" ELSE "ebx"
         /\ Holds(p, "ebp") = IF p \in 9 .. 38 THEN Carried(p) ELSE "ebp"
         /\ Holds(p, "esi") = "esi"
         /\ Holds(p, "edi") = "edi"
         /\ Holds(p, "ds") = IF p \in 18 .. 35 THEN "none" ELSE "ds"
         /\ Holds(p, "es") = IF p \in 19 .. 33 THEN "none" ELSE "es"
         /\ Holds(p, "fs") = IF p \in 20 .. 31 THEN "none" ELSE "fs"
         /\ Holds(p, "gs") = IF p \in 21 .. 29 THEN "none" ELSE "gs"
         /\ Holds(p, "eflags") = IF p \in 1 .. 44 THEN "none" ELSE "eflags"
         /\ Holds(p, "cs") = IF p \in 1 .. 44 THEN "none" ELSE "cs"
         /\ Holds(p, "eip") = IF p \in 1 .. 44 THEN "none" ELSE "eip"
         /\ Holds(p, "cr2") = "cr2"
  BY DEF Holds, Away

LEMMA CarriedOf ==
  /\ Carried(9) = "ds" /\ Carried(11) = "es" /\ Carried(13) = "fs"
  /\ Carried(15) = "gs" /\ Carried(22) = "cr2" /\ Carried(27) = "cr2"
  /\ Carried(29) = "gs" /\ Carried(31) = "fs" /\ Carried(33) = "es"
  /\ Carried(35) = "ds"
  /\ \A p \in 0 .. 45 : p \notin {9, 11, 13, 15, 22, 27, 29, 31, 33, 35} => Carried(p) = "none"
  BY DEF Carried

\* What a step keeps: a register that is to hold a value after it holds it before.
Keeps(p, r) == Holds(p + 1, r) \in {"none", Holds(p, r)}

\* Every step keeps every register, except the one it loads.
LEMMA KeepsOf ==
  ASSUME NEW p \in 1 .. 44, NEW r \in Registers, ~Keeps(p, r)
  PROVE  \/ r = "eax" /\ p = 42
         \/ r = "ecx" /\ p = 41
         \/ r = "edx" /\ p = 40
         \/ r = "ebx" /\ p = 39
         \/ r = "ebp" /\ p \in {8, 10, 12, 14, 21, 26, 28, 30, 32, 34, 38}
         \/ r = "ds" /\ p = 35
         \/ r = "es" /\ p = 33
         \/ r = "fs" /\ p = 31
         \/ r = "gs" /\ p = 29
         \/ r \in {"eflags", "cs", "eip"} /\ p = 44
<1>1. p \in 0 .. 45 /\ p + 1 \in 0 .. 45
  OBVIOUS
<1>2. CASE r \in {"eax", "ecx", "edx", "ebx", "esi", "edi", "cr2"}
  BY <1>1, <1>2, HoldsOf DEF Keeps
<1>3. CASE r \in {"ds", "es", "fs", "gs", "eflags", "cs", "eip"}
  BY <1>1, <1>3, HoldsOf DEF Keeps
<1>4. CASE r = "ebp"
  <2>1. Holds(p + 1, "ebp") # "none"
    BY <1>4 DEF Keeps
  <2>2. CASE p + 1 \in 9 .. 38
    <3>1. Carried(p + 1) # "none"
      BY <1>1, <2>1, <2>2, HoldsOf
    <3>2. p + 1 \in {9, 11, 13, 15, 22, 27, 29, 31, 33, 35}
      BY <1>1, <3>1, CarriedOf
    <3> QED BY <1>4, <3>2
  <2>3. CASE p + 1 \notin 9 .. 38
    <3>1. Holds(p + 1, "ebp") = "ebp" /\ Holds(p, "ebp") # "ebp"
      BY <1>1, <1>4, <2>3, HoldsOf DEF Keeps
    <3>2. p \in 9 .. 38
      BY <1>1, <3>1, HoldsOf
    <3> QED BY <1>4, <2>3, <3>2
  <2> QED BY <2>2, <2>3
<1> QED BY <1>2, <1>3, <1>4, RegisterNames

\* A push puts the next word on the stack.
PushFits(p) ==
  /\ Depth(p) \in 5 .. 16 /\ Depth(p + 1) = Depth(p) + 1
  /\ CommonStub[p].r \in Registers
  /\ Words[Depth(p) + 1] \in Registers
  /\ Holds(p, CommonStub[p].r) = Words[Depth(p) + 1]
  /\ \A r \in Registers : Keeps(p, r)

LEMMA PushTable ==
  ASSUME NEW p \in 1 .. 44, CommonStub[p].op = "push"
  PROVE  PushFits(p)
<1>1. p \in 1 .. 7 \cup {9, 11, 13, 15, 22}
  BY Instructions
<1>2. \A r \in Registers : Keeps(p, r)
  BY <1>1, KeepsOf
<1>3. CASE p = 1
  BY <1>2, <1>3, HoldsOf, CarriedOf, Operands, DepthOf, WordsOf, RegisterNames DEF PushFits
<1>4. CASE p = 2
  BY <1>2, <1>4, HoldsOf, CarriedOf, Operands, DepthOf, WordsOf, RegisterNames DEF PushFits
<1>5. CASE p = 3
  BY <1>2, <1>5, HoldsOf, CarriedOf, Operands, DepthOf, WordsOf, RegisterNames DEF PushFits
<1>6. CASE p = 4
  BY <1>2, <1>6, HoldsOf, CarriedOf, Operands, DepthOf, WordsOf, RegisterNames DEF PushFits
<1>7. CASE p = 5
  BY <1>2, <1>7, HoldsOf, CarriedOf, Operands, DepthOf, WordsOf, RegisterNames DEF PushFits
<1>8. CASE p = 6
  BY <1>2, <1>8, HoldsOf, CarriedOf, Operands, DepthOf, WordsOf, RegisterNames DEF PushFits
<1>9. CASE p = 7
  BY <1>2, <1>9, HoldsOf, CarriedOf, Operands, DepthOf, WordsOf, RegisterNames DEF PushFits
<1>10. CASE p = 9
  BY <1>2, <1>10, HoldsOf, CarriedOf, Operands, DepthOf, WordsOf, RegisterNames DEF PushFits
<1>11. CASE p = 11
  BY <1>2, <1>11, HoldsOf, CarriedOf, Operands, DepthOf, WordsOf, RegisterNames DEF PushFits
<1>12. CASE p = 13
  BY <1>2, <1>12, HoldsOf, CarriedOf, Operands, DepthOf, WordsOf, RegisterNames DEF PushFits
<1>13. CASE p = 15
  BY <1>2, <1>13, HoldsOf, CarriedOf, Operands, DepthOf, WordsOf, RegisterNames DEF PushFits
<1>14. CASE p = 22
  BY <1>2, <1>14, HoldsOf, CarriedOf, Operands, DepthOf, WordsOf, RegisterNames DEF PushFits
<1> QED BY <1>1, <1>3, <1>4, <1>5, <1>6, <1>7, <1>8, <1>9, <1>10, <1>11, <1>12, <1>13, <1>14

\* A pop takes the last word off it, into the register it came from, or into ebp.
PopFits(p) ==
  /\ Depth(p) \in 6 .. 17 /\ Depth(p + 1) = Depth(p) - 1
  /\ CommonStub[p].r \in Registers
  /\ Words[Depth(p)] \in Registers
  /\ Holds(p + 1, CommonStub[p].r) = Words[Depth(p)]
  /\ \A r \in Registers \ {CommonStub[p].r} : Keeps(p, r)

LEMMA PopTable ==
  ASSUME NEW p \in 1 .. 44, CommonStub[p].op = "pop"
  PROVE  PopFits(p)
<1>1. p \in {26, 28, 30, 32, 34} \cup 36 .. 42
  BY Instructions
<1>2. CASE p = 26
  BY <1>2, KeepsOf, HoldsOf, CarriedOf, Operands, DepthOf, WordsOf, RegisterNames DEF PopFits
<1>3. CASE p = 28
  BY <1>3, KeepsOf, HoldsOf, CarriedOf, Operands, DepthOf, WordsOf, RegisterNames DEF PopFits
<1>4. CASE p = 30
  BY <1>4, KeepsOf, HoldsOf, CarriedOf, Operands, DepthOf, WordsOf, RegisterNames DEF PopFits
<1>5. CASE p = 32
  BY <1>5, KeepsOf, HoldsOf, CarriedOf, Operands, DepthOf, WordsOf, RegisterNames DEF PopFits
<1>6. CASE p = 34
  BY <1>6, KeepsOf, HoldsOf, CarriedOf, Operands, DepthOf, WordsOf, RegisterNames DEF PopFits
<1>7. CASE p = 36
  BY <1>7, KeepsOf, HoldsOf, CarriedOf, Operands, DepthOf, WordsOf, RegisterNames DEF PopFits
<1>8. CASE p = 37
  BY <1>8, KeepsOf, HoldsOf, CarriedOf, Operands, DepthOf, WordsOf, RegisterNames DEF PopFits
<1>9. CASE p = 38
  BY <1>9, KeepsOf, HoldsOf, CarriedOf, Operands, DepthOf, WordsOf, RegisterNames DEF PopFits
<1>10. CASE p = 39
  BY <1>10, KeepsOf, HoldsOf, CarriedOf, Operands, DepthOf, WordsOf, RegisterNames DEF PopFits
<1>11. CASE p = 40
  BY <1>11, KeepsOf, HoldsOf, CarriedOf, Operands, DepthOf, WordsOf, RegisterNames DEF PopFits
<1>12. CASE p = 41
  BY <1>12, KeepsOf, HoldsOf, CarriedOf, Operands, DepthOf, WordsOf, RegisterNames DEF PopFits
<1>13. CASE p = 42
  BY <1>13, KeepsOf, HoldsOf, CarriedOf, Operands, DepthOf, WordsOf, RegisterNames DEF PopFits
<1> QED BY <1>1, <1>2, <1>3, <1>4, <1>5, <1>6, <1>7, <1>8, <1>9, <1>10, <1>11, <1>12, <1>13

\* A move takes a register's value to ebp or from it.
MoveFits(p) ==
  /\ Depth(p + 1) = Depth(p)
  /\ CommonStub[p].r \in Registers
  /\ CommonStub[p].s \in Registers
  /\ Holds(p + 1, CommonStub[p].r) \in {"none", Holds(p, CommonStub[p].s)}
  /\ \A r \in Registers \ {CommonStub[p].r} : Keeps(p, r)

LEMMA MoveTable ==
  ASSUME NEW p \in 1 .. 44, CommonStub[p].op = "mov"
  PROVE  MoveFits(p)
<1>1. p \in {8, 10, 12, 14} \cup 17 .. 21 \cup {27, 29, 31, 33, 35}
  BY Instructions
<1>2. CASE p = 8
  BY <1>2, KeepsOf, HoldsOf, CarriedOf, Operands, Sources, DepthOf, RegisterNames DEF MoveFits
<1>3. CASE p = 10
  BY <1>3, KeepsOf, HoldsOf, CarriedOf, Operands, Sources, DepthOf, RegisterNames DEF MoveFits
<1>4. CASE p = 12
  BY <1>4, KeepsOf, HoldsOf, CarriedOf, Operands, Sources, DepthOf, RegisterNames DEF MoveFits
<1>5. CASE p = 14
  BY <1>5, KeepsOf, HoldsOf, CarriedOf, Operands, Sources, DepthOf, RegisterNames DEF MoveFits
<1>6. CASE p = 17
  BY <1>6, KeepsOf, HoldsOf, CarriedOf, Operands, Sources, DepthOf, RegisterNames DEF MoveFits
<1>7. CASE p = 18
  BY <1>7, KeepsOf, HoldsOf, CarriedOf, Operands, Sources, DepthOf, RegisterNames DEF MoveFits
<1>8. CASE p = 19
  BY <1>8, KeepsOf, HoldsOf, CarriedOf, Operands, Sources, DepthOf, RegisterNames DEF MoveFits
<1>9. CASE p = 20
  BY <1>9, KeepsOf, HoldsOf, CarriedOf, Operands, Sources, DepthOf, RegisterNames DEF MoveFits
<1>10. CASE p = 21
  BY <1>10, KeepsOf, HoldsOf, CarriedOf, Operands, Sources, DepthOf, RegisterNames DEF MoveFits
<1>11. CASE p = 27
  BY <1>11, KeepsOf, HoldsOf, CarriedOf, Operands, Sources, DepthOf, RegisterNames DEF MoveFits
<1>12. CASE p = 29
  BY <1>12, KeepsOf, HoldsOf, CarriedOf, Operands, Sources, DepthOf, RegisterNames DEF MoveFits
<1>13. CASE p = 31
  BY <1>13, KeepsOf, HoldsOf, CarriedOf, Operands, Sources, DepthOf, RegisterNames DEF MoveFits
<1>14. CASE p = 33
  BY <1>14, KeepsOf, HoldsOf, CarriedOf, Operands, Sources, DepthOf, RegisterNames DEF MoveFits
<1>15. CASE p = 35
  BY <1>15, KeepsOf, HoldsOf, CarriedOf, Operands, Sources, DepthOf, RegisterNames DEF MoveFits
<1> QED BY <1>1, <1>2, <1>3, <1>4, <1>5, <1>6, <1>7, <1>8, <1>9, <1>10, <1>11, <1>12, <1>13, <1>14, <1>15

-----------------------------------------------------------------------------
(***************************************************************************)
(* StubInit and the steps.                                                 *)
(***************************************************************************)

\* What the assumptions give: where the words lie, and what is in the registers.
LEMMA Room ==
  ASSUME TypeOK
  PROVE  /\ StackSize \in Nat /\ top \in Nat /\ top - 24 \in Nat /\ StackSize - top \in Nat
         /\ before \in [Registers -> Nat]
         /\ at \in Nat /\ Number(vector) \in Nat
BY StubAssumption DEF TypeOK, Number, Irqs

LEMMA AtInstruction ==
  ASSUME NEW op, Current(op), TypeOK
  PROVE  at \in 1 .. 44 /\ CommonStub[at].op = op
BY Operations DEF Current, TypeOK

\* The words from the sixth on are registers.
LEMMA SavedWord ==
  ASSUME NEW w \in 6 .. 17
  PROVE  Word(w) = before[Words[w]]
BY DEF Word

\* A push of one word.
LEMMA PushOne ==
  ASSUME TypeOK, NEW v \in Nat, esp - 1 \in Nat, PushAll(<<v>>)
  PROVE  /\ esp' = esp - 1
         /\ stack' \in [0 .. (StackSize - 1) -> Nat]
         /\ stack'[esp - 1] = v
         /\ \A a \in 0 .. (StackSize - 1) : a # esp - 1 => stack'[a] = stack[a]
<1>1. Len(<<v>>) = 1 /\ <<v>>[1] = v
  OBVIOUS
<1>2. esp' = esp - 1
  BY <1>1 DEF PushAll
<1>3. stack' = [a \in 0 .. (StackSize - 1) |->
                  IF a \in (esp - 1) .. (esp - 1) THEN <<v>>[esp - a] ELSE stack[a]]
  BY <1>1 DEF PushAll, TypeOK
<1>4. esp \in 0 .. StackSize /\ StackSize \in Nat /\ stack \in [0 .. (StackSize - 1) -> Nat]
  BY Room DEF TypeOK
<1>5. stack'[esp - 1] = v
  BY <1>1, <1>3, <1>4
<1>6. \A a \in 0 .. (StackSize - 1) : a # esp - 1 => stack'[a] = stack[a]
  BY <1>3, <1>4
<1>7. stack' \in [0 .. (StackSize - 1) -> Nat]
  BY <1>3, <1>4, <1>5, <1>6
<1> QED BY <1>2, <1>5, <1>6, <1>7

\* A register is loaded, the others are kept.
LEMMA Loaded ==
  ASSUME RegistersHold, at \in 1 .. 44, at' = at + 1, before' = before,
         regs \in [Registers -> Nat], NEW r \in Registers, NEW v,
         regs' = [regs EXCEPT ![r] = v],
         \A q \in Registers \ {r} : Keeps(at, q),
         Holds(at + 1, r) # "none" => v = before[Holds(at + 1, r)]
  PROVE  RegistersHold'
<1> SUFFICES ASSUME NEW q \in Registers, Holds(at + 1, q) # "none"
             PROVE  regs'[q] = before[Holds(at + 1, q)]
  BY DEF RegistersHold
<1>1. CASE q = r
  BY <1>1
<1>2. CASE q # r
  <2>1. Holds(at + 1, q) = Holds(at, q)
    BY <1>2 DEF Keeps
  <2>2. regs'[q] = regs[q]
    BY <1>2
  <2> QED BY <2>1, <2>2 DEF RegistersHold
<1> QED BY <1>1, <1>2

\* A step that leaves the registers alone.
LEMMA Kept ==
  ASSUME RegistersHold, at \in 1 .. 44, at' = at + 1, before' = before, regs' = regs,
         \A q \in Registers : Keeps(at, q)
  PROVE  RegistersHold'
<1> SUFFICES ASSUME NEW q \in Registers, Holds(at + 1, q) # "none"
             PROVE  regs[q] = before[Holds(at + 1, q)]
  BY DEF RegistersHold
<1>1. Holds(at + 1, q) = Holds(at, q)
  BY DEF Keeps
<1> QED BY <1>1 DEF RegistersHold

\* A step that leaves the words in place.
LEMMA WordsKept ==
  ASSUME StackHolds, UNCHANGED <<vector, before, top>>,
         NEW d \in Nat, Depth(at') = d, Depth(at) \in Nat, d <= Depth(at),
         \A w \in 1 .. d : stack'[top - w] = stack[top - w]
  PROVE  StackHolds'
<1>1. \A w \in 1 .. d : w \in 1 .. Depth(at)
  OBVIOUS
<1>2. \A w \in 1 .. d : stack'[top - w] = Word(w)
  BY <1>1 DEF StackHolds
<1>3. \A w : Word(w)' = Word(w)
  BY DEF Word, Number
<1>4. ASSUME NEW w \in 1 .. Depth(at')
      PROVE  stack'[top' - w] = Word(w)'
  <2>1. w \in 1 .. d /\ top' = top
    OBVIOUS
  <2> QED BY <1>2, <1>3, <2>1
<1> QED BY <1>4 DEF StackHolds

\* Before the interrupt and after it, every register holds its own value.
LEMMA AtTheEnds ==
  \A r \in Registers : r # "none" /\ Holds(0, r) = r /\ Holds(45, r) = r
<1>1. "none" \notin Registers
  BY RegisterNames
<1>2. \A r \in Registers : 0 \notin Away(r)
  BY RegisterNames DEF Away
<1>3. \A r \in Registers : 45 \notin Away(r)
  BY RegisterNames DEF Away
<1> QED BY <1>1, <1>2, <1>3, Zenon DEF Holds

LEMMA StubInit_Inv == StubInit => StubInv
<1> SUFFICES ASSUME StubInit PROVE StubInv
  OBVIOUS
<1>1. top \in 24 .. StackSize /\ StackSize \in Nat /\ before \in [Registers -> Nat] /\ at = 0
  BY StubAssumption DEF StubInit
<1>2. TypeOK
  BY <1>1 DEF StubInit, TypeOK
<1>3. StackHolds /\ esp = top - Depth(at)
  <2>1. Depth(at) = 0
    BY <1>1, DepthOf
  <2>2. top - 0 = top /\ esp = top
    BY <1>1 DEF StubInit
  <2> QED BY <2>1, <2>2 DEF StackHolds
<1>4. \A r \in Registers : Holds(0, r) = r
  BY AtTheEnds, Zenon
<1>5. RegistersHold
  BY <1>1, <1>4 DEF StubInit, RegistersHold
<1> QED BY <1>1, <1>2, <1>3, <1>5 DEF StubInv

LEMMA Deliver_Inv ==
  ASSUME StubInv, Deliver
  PROVE  StubInv'
<1>1. /\ TypeOK /\ at = 0 /\ at' = 1 /\ esp = top
      /\ UNCHANGED <<vector, before, top>>
  <2>1. TypeOK /\ at = 0 /\ at' = 1 /\ UNCHANGED <<vector, before, top>>
    BY DEF StubInv, Deliver
  <2>2. Depth(at) = 0 /\ top \in Nat
    BY <2>1, DepthOf, Room
  <2>3. esp = top - Depth(at)
    BY <2>1 DEF StubInv
  <2> QED BY <2>1, <2>2, <2>3
<1>2. /\ regs["eflags"] = Word(1) /\ regs["cs"] = Word(2) /\ regs["eip"] = Word(3)
  <2>1. /\ Word(1) = before["eflags"] /\ Word(2) = before["cs"] /\ Word(3) = before["eip"]
    BY WordsOf DEF Word
  <2>2. /\ regs["eflags"] = before["eflags"] /\ regs["cs"] = before["cs"]
        /\ regs["eip"] = before["eip"]
    BY <1>1, HoldsOf, RegisterNames DEF StubInv, RegistersHold
  <2> QED BY <2>1, <2>2
<1>3. PICK words : PushAll(words) /\ Len(words) = 5 /\ \A w \in 1 .. 5 : words[w] = Word(w)
  <2> DEFINE frame == <<regs["eflags"], regs["cs"], regs["eip"]>>
             with == frame \o <<ErrCode>> \o <<>> \o <<Number(vector)>>
             without == frame \o <<>> \o <<0>> \o <<Number(vector)>>
  <2>1. CASE vector \in CpuPushesErrCode
    <3>1. PushAll(with)
      BY <2>1, ErrCodes DEF Deliver
    <3>2. /\ Len(with) = 5 /\ with[1] = Word(1) /\ with[2] = Word(2) /\ with[3] = Word(3)
          /\ with[4] = ErrCode /\ with[5] = Number(vector)
      BY <1>2
    <3>3. Word(4) = ErrCode /\ Word(5) = Number(vector)
      BY <2>1 DEF Word
    <3> HIDE DEF with
    <3>4. \A w \in 1 .. 5 : with[w] = Word(w)
      BY <3>2, <3>3
    <3> QED BY <3>1, <3>2, <3>4
  <2>2. CASE vector \notin CpuPushesErrCode
    <3>1. PushAll(without)
      BY <2>2, ErrCodes DEF Deliver
    <3>2. /\ Len(without) = 5 /\ without[1] = Word(1) /\ without[2] = Word(2)
          /\ without[3] = Word(3) /\ without[4] = 0 /\ without[5] = Number(vector)
      BY <1>2
    <3>3. Word(4) = 0 /\ Word(5) = Number(vector)
      BY <2>2 DEF Word
    <3> HIDE DEF without
    <3>4. \A w \in 1 .. 5 : without[w] = Word(w)
      BY <3>2, <3>3
    <3> QED BY <3>1, <3>2, <3>4
  <2> QED BY <2>1, <2>2
<1>4. \A w \in 1 .. 5 : Word(w) \in Nat
  <2>1. Word(1) \in Nat /\ Word(2) \in Nat /\ Word(3) \in Nat
    BY <1>1, <1>2, RegisterNames DEF TypeOK
  <2>2. Word(4) \in Nat /\ Word(5) \in Nat
    BY <1>1, Room, StubAssumption DEF Word
  <2> QED BY <2>1, <2>2
<1>5. esp' = top - 5
  BY <1>1, <1>3 DEF PushAll
<1>6. stack' = [a \in 0 .. (StackSize - 1) |->
                  IF a \in (top - 5) .. (top - 1) THEN words[top - a] ELSE stack[a]]
  BY <1>1, <1>3 DEF PushAll, TypeOK
<1>7. \A w \in 1 .. 5 : stack'[top - w] = Word(w)
  <2> SUFFICES ASSUME NEW w \in 1 .. 5 PROVE stack'[top - w] = Word(w)
    OBVIOUS
  <2>1. /\ top - w \in 0 .. (StackSize - 1) /\ top - w \in (top - 5) .. (top - 1)
        /\ top - (top - w) = w
    BY <1>1, Room
  <2>2. stack'[top - w] = words[top - (top - w)]
    BY <1>6, <2>1
  <2> QED BY <1>3, <2>1, <2>2
<1>8. TypeOK'
  <2>1. stack' \in [0 .. (StackSize - 1) -> Nat]
    <3> SUFFICES ASSUME NEW a \in 0 .. (StackSize - 1) PROVE stack'[a] \in Nat
      BY <1>6
    <3>1. CASE a \in (top - 5) .. (top - 1)
      <4>1. top - a \in 1 .. 5 /\ top - (top - a) = a
        BY <1>1, <3>1, Room
      <4>2. stack'[top - (top - a)] = Word(top - a)
        BY <1>7, <4>1
      <4> QED BY <1>4, <4>1, <4>2
    <3>2. CASE a \notin (top - 5) .. (top - 1)
      BY <1>1, <1>6, <3>2 DEF TypeOK
    <3> QED BY <3>1, <3>2
  <2>2. regs' \in [Registers -> Nat]
    BY <1>1 DEF Deliver, TypeOK
  <2>3. esp' \in 0 .. StackSize
    BY <1>1, <1>5, Room
  <2> QED BY <1>1, <2>1, <2>2, <2>3 DEF TypeOK
<1>9. StackHolds'
  <2>1. \A w : Word(w)' = Word(w)
    BY <1>1 DEF Word, Number
  <2>2. top' = top /\ Depth(at') = 5
    BY <1>1, DepthOf
  <2> QED BY <1>7, <2>1, <2>2 DEF StackHolds
<1>10. RegistersHold'
  <2> SUFFICES ASSUME NEW r \in Registers, Holds(1, r) # "none"
               PROVE  regs'[r] = before[Holds(1, r)]
    BY <1>1 DEF RegistersHold
  <2>1. r \notin {"eflags", "cs", "eip"} /\ Holds(1, r) = r /\ Holds(0, r) = r
    BY HoldsOf, RegisterNames
  <2>2. regs'[r] = regs[r]
    BY <2>1, RegisterNames DEF Deliver
  <2>3. r # "none"
    BY RegisterNames
  <2> QED BY <1>1, <2>1, <2>2, <2>3 DEF StubInv, RegistersHold
<1>11. esp' = top' - Depth(at')
  BY <1>1, <1>5, DepthOf
<1> QED BY <1>1, <1>8, <1>9, <1>10, <1>11 DEF StubInv

LEMMA PushRegister_Inv ==
  ASSUME StubInv, PushRegister
  PROVE  StubInv'
<1> DEFINE d == Depth(at)
           r == CommonStub[at].r
<1>1. TypeOK /\ at \in 1 .. 44 /\ CommonStub[at].op = "push"
  BY AtInstruction DEF StubInv, PushRegister
<1>2. at \notin {24, 25} /\ at + 1 \notin {24, 25}
  BY <1>1, Instructions
<1>3. /\ d \in 5 .. 16 /\ Depth(at + 1) = d + 1
      /\ r \in Registers /\ Words[d + 1] \in Registers
      /\ Holds(at, r) = Words[d + 1]
      /\ \A q \in Registers : Keeps(at, q)
  BY <1>1, PushTable DEF PushFits
<1>4. /\ at' = at + 1 /\ regs' = regs /\ UNCHANGED <<vector, before, top>>
      /\ PushAll(<<regs[r]>>)
  BY DEF PushRegister, Advance, Operand
<1> HIDE DEF d, r
<1>5. regs[r] = Word(d + 1) /\ regs[r] \in Nat
  <2>1. Words[d + 1] # "none"
    BY <1>3, RegisterNames
  <2>2. regs[r] = before[Words[d + 1]]
    BY <1>3, <2>1 DEF StubInv, RegistersHold
  <2>3. d + 1 \in 6 .. 17
    BY <1>3
  <2> QED BY <1>1, <1>3, <2>2, <2>3, SavedWord DEF TypeOK
<1>6. esp = top - d /\ esp - 1 \in Nat
  BY <1>1, <1>2, <1>3, Room DEF StubInv, d
<1>7. /\ esp' = top - (d + 1)
      /\ stack' \in [0 .. (StackSize - 1) -> Nat]
      /\ stack'[top - (d + 1)] = regs[r]
      /\ \A a \in 0 .. (StackSize - 1) : a # top - (d + 1) => stack'[a] = stack[a]
  <2>1. esp - 1 = top - (d + 1)
    BY <1>1, <1>3, <1>6, Room
  <2> QED BY <1>1, <1>4, <1>5, <1>6, <2>1, PushOne
<1>8. TypeOK'
  <2>1. at' \in 0 .. 45 /\ esp' \in 0 .. StackSize
    <3>1. at' = at + 1 /\ at \in 1 .. 44
      BY <1>1, <1>4
    <3>2. esp' = top - (d + 1) /\ d \in 5 .. 16
      BY <1>3, <1>7
    <3> QED BY <1>1, <3>1, <3>2, Room
  <2> QED BY <1>1, <1>4, <1>7, <2>1 DEF TypeOK
<1>9. StackHolds'
  <2>1. \A w : Word(w)' = Word(w)
    BY <1>4 DEF Word, Number
  <2>2. ASSUME NEW w \in 1 .. (d + 1)
        PROVE  stack'[top - w] = Word(w)
    <3>1. CASE w = d + 1
      BY <1>5, <1>7, <3>1
    <3>2. CASE w # d + 1
      <4>1. w \in 1 .. d /\ top - w \in 0 .. (StackSize - 1) /\ top - w # top - (d + 1)
        BY <1>1, <1>3, <3>2, Room
      <4> QED BY <1>7, <4>1 DEF StubInv, StackHolds, d
    <3> QED BY <3>1, <3>2
  <2>3. top' = top /\ Depth(at') = d + 1
    BY <1>3, <1>4
  <2> QED BY <2>1, <2>2, <2>3 DEF StackHolds
<1>10. RegistersHold'
  BY <1>1, <1>3, <1>4, Kept DEF StubInv
<1>11. at' \notin {24, 25} /\ esp' = top' - Depth(at')
  BY <1>2, <1>3, <1>4, <1>7
<1> QED BY <1>8, <1>9, <1>10, <1>11 DEF StubInv

LEMMA PopRegister_Inv ==
  ASSUME StubInv, PopRegister
  PROVE  StubInv'
<1> DEFINE d == Depth(at)
           r == CommonStub[at].r
<1>1. TypeOK /\ at \in 1 .. 44 /\ CommonStub[at].op = "pop"
  BY AtInstruction DEF StubInv, PopRegister
<1>2. at \notin {24, 25} /\ at + 1 \notin {24, 25}
  BY <1>1, Instructions
<1>3. /\ d \in 6 .. 17 /\ Depth(at + 1) = d - 1
      /\ r \in Registers /\ Words[d] \in Registers
      /\ Holds(at + 1, r) = Words[d]
      /\ \A q \in Registers \ {r} : Keeps(at, q)
  BY <1>1, PopTable DEF PopFits
<1>4. /\ at' = at + 1 /\ regs' = [regs EXCEPT ![r] = stack[esp]]
      /\ esp' = esp + 1 /\ stack' = stack /\ UNCHANGED <<vector, before, top>>
  BY DEF PopRegister, Advance, Operand
<1> HIDE DEF d, r
<1>5. esp = top - d /\ esp \in 0 .. (StackSize - 1)
  BY <1>1, <1>2, <1>3, Room DEF StubInv, d
<1>6. stack[esp] = before[Words[d]] /\ stack[esp] \in Nat
  <2>1. d \in 1 .. d /\ d \in 6 .. 17
    BY <1>3
  <2>2. stack[top - d] = Word(d)
    BY <2>1 DEF StubInv, StackHolds, d
  <2> QED BY <1>1, <1>5, <2>1, <2>2, SavedWord DEF TypeOK
<1>7. TypeOK'
  <2>1. at' \in 0 .. 45 /\ esp' \in 0 .. StackSize
    BY <1>1, <1>4, <1>5, Room
  <2>2. regs' \in [Registers -> Nat]
    BY <1>1, <1>3, <1>4, <1>6 DEF TypeOK
  <2> QED BY <1>1, <1>4, <2>1, <2>2 DEF TypeOK
<1>8. StackHolds'
  <2>1. StackHolds /\ d - 1 \in Nat /\ Depth(at') = d - 1 /\ Depth(at) \in Nat /\ d - 1 <= Depth(at)
    BY <1>3, <1>4 DEF StubInv, d
  <2>2. \A w \in 1 .. (d - 1) : stack'[top - w] = stack[top - w]
    BY <1>4
  <2> QED BY <1>4, <2>1, <2>2, WordsKept
<1>9. RegistersHold'
  <2>1. Holds(at + 1, r) # "none" => stack[esp] = before[Holds(at + 1, r)]
    BY <1>3, <1>6
  <2>2. RegistersHold /\ regs \in [Registers -> Nat]
    BY <1>1 DEF StubInv, TypeOK
  <2> QED BY <1>1, <1>3, <1>4, <2>1, <2>2, Loaded
<1>10. at' \notin {24, 25} /\ esp' = top' - Depth(at')
  BY <1>1, <1>2, <1>3, <1>4, <1>5, Room
<1> QED BY <1>7, <1>8, <1>9, <1>10 DEF StubInv

LEMMA Move_Inv ==
  ASSUME StubInv, Move
  PROVE  StubInv'
<1> DEFINE r == CommonStub[at].r
           v == IF Current("load") THEN 16 ELSE regs[Source]
<1>1. TypeOK /\ at \in 1 .. 44
  BY AtInstruction DEF StubInv, Move
<1>2. /\ at' = at + 1 /\ regs' = [regs EXCEPT ![r] = v]
      /\ esp' = esp /\ stack' = stack /\ UNCHANGED <<vector, before, top>>
  BY DEF Move, Advance, Operand
<1>3. /\ at \notin {24, 25} /\ at + 1 \notin {24, 25}
      /\ Depth(at) \in Nat /\ Depth(at + 1) = Depth(at)
      /\ r \in Registers /\ v \in Nat
      /\ Holds(at + 1, r) # "none" => v = before[Holds(at + 1, r)]
      /\ \A q \in Registers \ {r} : Keeps(at, q)
  <2>1. CASE Current("mov")
    <3>1. CommonStub[at].op = "mov"
      BY <1>1, <2>1, AtInstruction
    <3>2. /\ at \in {8, 10, 12, 14} \cup 17 .. 21 \cup {27, 29, 31, 33, 35}
          /\ MoveFits(at)
      BY <1>1, <3>1, Instructions, MoveTable
    <3>3. at \notin {24, 25} /\ at + 1 \notin {24, 25} /\ Depth(at) \in Nat
      BY <3>2, DepthOf
    <3>4. v = regs[CommonStub[at].s] /\ CommonStub[at].s \in Registers
      BY <3>1, <3>2 DEF Current, Source, MoveFits
    <3>5. Holds(at + 1, r) # "none" => v = before[Holds(at + 1, r)]
      BY <3>2, <3>4 DEF StubInv, RegistersHold, MoveFits
    <3>6. v \in Nat
      BY <1>1, <3>4 DEF TypeOK
    <3> QED BY <3>2, <3>3, <3>5, <3>6 DEF MoveFits
  <2>2. CASE Current("load")
    <3>1. at = 16
      BY <1>1, <2>2, AtInstruction, Instructions
    <3>2. r = "ebp" /\ r \in Registers /\ Depth(at) = 16 /\ Depth(at + 1) = 16
      BY <3>1, Operands, DepthOf, RegisterNames
    <3>3. Holds(at + 1, r) = "none"
      BY <3>1, <3>2, HoldsOf, CarriedOf
    <3>4. \A q \in Registers \ {r} : Keeps(at, q)
      BY <3>1, <3>2, KeepsOf
    <3>5. v \in Nat
      BY <2>2
    <3> QED BY <3>1, <3>2, <3>3, <3>4, <3>5
  <2> QED BY <2>1, <2>2 DEF Move
<1> HIDE DEF r, v
<1>4. TypeOK'
  <2>1. regs' \in [Registers -> Nat]
    BY <1>1, <1>2, <1>3 DEF TypeOK
  <2>2. at' \in 0 .. 45
    BY <1>1, <1>2
  <2> QED BY <1>1, <1>2, <2>1, <2>2 DEF TypeOK
<1>5. StackHolds'
  <2>1. StackHolds /\ Depth(at') = Depth(at)
    BY <1>2, <1>3 DEF StubInv
  <2>2. \A w \in 1 .. Depth(at) : stack'[top - w] = stack[top - w]
    BY <1>2
  <2> QED BY <1>2, <1>3, <2>1, <2>2, WordsKept
<1>6. RegistersHold'
  <2>1. RegistersHold /\ regs \in [Registers -> Nat]
    BY <1>1 DEF StubInv, TypeOK
  <2> QED BY <1>1, <1>2, <1>3, <2>1, Loaded
<1>7. at' \notin {24, 25} /\ esp' = top' - Depth(at')
  BY <1>2, <1>3 DEF StubInv
<1> QED BY <1>4, <1>5, <1>6, <1>7 DEF StubInv

\* The argument lies below the words, aligned.
LEMMA SlotBelow ==
  ASSUME TypeOK
  PROVE  Slot \in 0 .. (top - 18) /\ Slot % 4 = 0
<1>1. top \in Nat /\ top - 18 \in Nat
  BY Room
<1>2. \A n \in Nat : (n \div 4) * 4 \in 0 .. n /\ ((n \div 4) * 4) % 4 = 0
  OBVIOUS
<1> QED BY <1>1, <1>2 DEF Slot

LEMMA PassContext_Inv ==
  ASSUME StubInv, PassContext
  PROVE  StubInv'
<1>1. TypeOK /\ at = 23
  BY AtInstruction, Instructions DEF StubInv, PassContext
<1>2. Depth(at) = 17 /\ Depth(at + 1) = 17
  BY <1>1, DepthOf
<1>3. esp = top - 17
  BY <1>1, <1>2 DEF StubInv
<1>4. ArgumentSlot = Slot
  <2>1. esp - 1 = top - 18
    BY <1>1, <1>3, Room
  <2> QED BY <2>1, Zenon DEF ArgumentSlot, Slot
<1>5. /\ at' = at + 1 /\ regs' = [regs EXCEPT !["ebx"] = top - 17]
      /\ esp' = Slot /\ stack' = [stack EXCEPT ![Slot] = top - 17]
      /\ UNCHANGED <<vector, before, top>>
  BY <1>3, <1>4 DEF PassContext, Advance
<1>6. /\ Slot \in 0 .. (top - 18) /\ Slot \in 0 .. (StackSize - 1) /\ Slot \in 0 .. StackSize
      /\ top - 17 \in Nat
  BY <1>1, SlotBelow, Room
<1>7. TypeOK'
  <2>1. regs' \in [Registers -> Nat]
    BY <1>1, <1>5, <1>6 DEF TypeOK
  <2>2. stack' \in [0 .. (StackSize - 1) -> Nat]
    BY <1>1, <1>5, <1>6 DEF TypeOK
  <2>3. at' \in 0 .. 45
    BY <1>1, <1>5
  <2> QED BY <1>1, <1>5, <1>6, <2>1, <2>2, <2>3 DEF TypeOK
<1>8. StackHolds'
  <2>1. ASSUME NEW w \in 1 .. 17
        PROVE  stack'[top - w] = stack[top - w]
    <3>1. top - w \in 0 .. (StackSize - 1) /\ top - w # Slot
      BY <1>1, <1>6, Room
    <3> QED BY <1>1, <1>5, <3>1 DEF TypeOK
  <2>2. StackHolds /\ 17 \in Nat /\ Depth(at') = 17 /\ Depth(at) \in Nat /\ 17 <= Depth(at)
    BY <1>2, <1>5 DEF StubInv
  <2> QED BY <1>5, <2>1, <2>2, WordsKept
<1>9. RegistersHold'
  <2>1. Holds(at + 1, "ebx") = "none" /\ "ebx" \in Registers
    BY <1>1, HoldsOf, RegisterNames
  <2>2. \A q \in Registers \ {"ebx"} : Keeps(at, q)
    BY <1>1, KeepsOf
  <2>3. RegistersHold /\ regs \in [Registers -> Nat] /\ at \in 1 .. 44
    BY <1>1 DEF StubInv, TypeOK
  <2> QED BY <1>5, <2>1, <2>2, <2>3, Loaded
<1>10. at' = 24 /\ esp' = Slot' /\ regs'["ebx"] = top' - 17 /\ stack'[Slot'] = top' - 17
  <2>1. at' = 24 /\ Slot' = Slot
    BY <1>1, <1>5 DEF Slot
  <2>2. regs'["ebx"] = top - 17
    BY <1>1, <1>5, RegisterNames DEF TypeOK
  <2>3. stack'[Slot] = top - 17
    BY <1>1, <1>5, <1>6 DEF TypeOK
  <2> QED BY <1>5, <2>1, <2>2, <2>3
<1> QED BY <1>7, <1>8, <1>9, <1>10 DEF StubInv

LEMMA CallHandler_Inv ==
  ASSUME StubInv, CallHandler
  PROVE  StubInv'
<1>1. TypeOK /\ at = 24
  BY AtInstruction, Instructions DEF StubInv, CallHandler
<1>2. Depth(at) = 17 /\ Depth(at + 1) = 17
  BY <1>1, DepthOf
<1>3. esp = Slot /\ regs["ebx"] = top - 17 /\ Slot \in 0 .. (top - 18)
  BY <1>1, SlotBelow DEF StubInv
<1>4. /\ at' = at + 1 /\ esp' = esp /\ UNCHANGED <<vector, before, top>>
      /\ regs' = [r \in Registers |-> IF r \in {"eax", "ecx", "edx"} THEN 0 ELSE regs[r]]
      /\ stack' = [a \in 0 .. (StackSize - 1) |-> IF a <= Slot THEN 0 ELSE stack[a]]
  BY <1>1, <1>3 DEF CallHandler, Advance, TypeOK
<1>5. TypeOK'
  <2>1. regs' \in [Registers -> Nat]
    BY <1>1, <1>4 DEF TypeOK
  <2>2. stack' \in [0 .. (StackSize - 1) -> Nat]
    BY <1>1, <1>4 DEF TypeOK
  <2>3. at' \in 0 .. 45
    BY <1>1, <1>4
  <2> QED BY <1>1, <1>4, <2>1, <2>2, <2>3 DEF TypeOK
<1>6. StackHolds'
  <2>1. ASSUME NEW w \in 1 .. 17
        PROVE  stack'[top - w] = stack[top - w]
    <3>1. top - w \in 0 .. (StackSize - 1) /\ ~(top - w <= Slot)
      BY <1>1, <1>3, Room
    <3> QED BY <1>4, <3>1
  <2>2. StackHolds /\ 17 \in Nat /\ Depth(at') = 17 /\ Depth(at) \in Nat /\ 17 <= Depth(at)
    BY <1>2, <1>4 DEF StubInv
  <2> QED BY <1>4, <2>1, <2>2, WordsKept
<1>7. RegistersHold'
  <2> SUFFICES ASSUME NEW r \in Registers, Holds(25, r) # "none"
               PROVE  regs'[r] = before[Holds(25, r)]
    BY <1>1, <1>4 DEF RegistersHold
  <2>1. r \notin {"eax", "ecx", "edx"}
    BY HoldsOf
  <2>2. Holds(25, r) = Holds(24, r)
    BY KeepsOf DEF Keeps
  <2>3. regs'[r] = regs[r]
    BY <1>4, <2>1
  <2> QED BY <1>1, <2>2, <2>3 DEF StubInv, RegistersHold
<1>8. at' = 25 /\ esp' = Slot' /\ regs'["ebx"] = top' - 17
  <2>1. at' = 25 /\ Slot' = Slot
    BY <1>1, <1>4 DEF Slot
  <2>2. regs'["ebx"] = regs["ebx"]
    BY <1>4, RegisterNames
  <2> QED BY <1>3, <1>4, <2>1, <2>2
<1> QED BY <1>5, <1>6, <1>7, <1>8 DEF StubInv

LEMMA Unwind_Inv ==
  ASSUME StubInv, Unwind
  PROVE  StubInv'
<1>1. TypeOK /\ at = 25
  BY AtInstruction, Instructions DEF StubInv, Unwind
<1>2. Depth(at) = 17 /\ Depth(at + 1) = 17
  BY <1>1, DepthOf
<1>3. /\ at' = at + 1 /\ esp' = top - 17 /\ regs' = regs /\ stack' = stack
      /\ UNCHANGED <<vector, before, top>>
  BY <1>1 DEF StubInv, Unwind, Advance
<1>4. TypeOK'
  <2>1. at' \in 0 .. 45 /\ esp' \in 0 .. StackSize
    BY <1>1, <1>3, Room
  <2> QED BY <1>1, <1>3, <2>1 DEF TypeOK
<1>5. StackHolds'
  <2>1. StackHolds /\ 17 \in Nat /\ Depth(at') = 17 /\ Depth(at) \in Nat /\ 17 <= Depth(at)
    BY <1>2, <1>3 DEF StubInv
  <2>2. \A w \in 1 .. 17 : stack'[top - w] = stack[top - w]
    BY <1>3
  <2> QED BY <1>3, <2>1, <2>2, WordsKept
<1>6. RegistersHold'
  <2>1. RegistersHold /\ at \in 1 .. 44 /\ \A q \in Registers : Keeps(at, q)
    BY <1>1, KeepsOf DEF StubInv
  <2> QED BY <1>3, <2>1, Kept
<1>7. at' = 26 /\ esp' = top' - Depth(at')
  BY <1>1, <1>2, <1>3
<1> QED BY <1>4, <1>5, <1>6, <1>7 DEF StubInv

LEMMA Discard_Inv ==
  ASSUME StubInv, Discard
  PROVE  StubInv'
<1>1. TypeOK /\ at = 43
  BY AtInstruction, Instructions DEF StubInv, Discard
<1>2. Depth(at) = 5 /\ Depth(at + 1) = 3
  BY <1>1, DepthOf
<1>3. esp = top - 5
  BY <1>1, <1>2 DEF StubInv
<1>4. /\ at' = at + 1 /\ esp' = top - 3 /\ regs' = regs /\ stack' = stack
      /\ UNCHANGED <<vector, before, top>>
  BY <1>1, <1>3, Room DEF Discard, Discarded, Advance
<1>5. TypeOK'
  <2>1. at' \in 0 .. 45 /\ esp' \in 0 .. StackSize
    BY <1>1, <1>4, Room
  <2> QED BY <1>1, <1>4, <2>1 DEF TypeOK
<1>6. StackHolds'
  <2>1. StackHolds /\ 3 \in Nat /\ Depth(at') = 3 /\ Depth(at) \in Nat /\ 3 <= Depth(at)
    BY <1>2, <1>4 DEF StubInv
  <2>2. \A w \in 1 .. 3 : stack'[top - w] = stack[top - w]
    BY <1>4
  <2> QED BY <1>4, <2>1, <2>2, WordsKept
<1>7. RegistersHold'
  <2>1. RegistersHold /\ at \in 1 .. 44 /\ \A q \in Registers : Keeps(at, q)
    BY <1>1, KeepsOf DEF StubInv
  <2> QED BY <1>4, <2>1, Kept
<1>8. at' = 44 /\ esp' = top' - Depth(at')
  BY <1>1, <1>2, <1>4
<1> QED BY <1>5, <1>6, <1>7, <1>8 DEF StubInv

LEMMA Iret_Inv ==
  ASSUME StubInv, Iret
  PROVE  StubInv'
<1>1. TypeOK /\ at = 44
  BY AtInstruction, Instructions DEF StubInv, Iret
<1>2. Depth(at) = 3 /\ Depth(at + 1) = 0
  BY <1>1, DepthOf
<1>3. esp = top - 3
  BY <1>1, <1>2 DEF StubInv
<1>4. /\ at' = at + 1 /\ esp' = top /\ stack' = stack /\ UNCHANGED <<vector, before, top>>
      /\ regs' = [r \in Registers |->
                    CASE r = "eip" -> stack[esp]
                      [] r = "cs" -> stack[esp + 1]
                      [] r = "eflags" -> stack[esp + 2]
                      [] OTHER -> regs[r]]
  BY <1>1, <1>3, Room DEF Iret, Advance
<1>5. /\ stack[esp] = before["eip"] /\ stack[esp + 1] = before["cs"]
      /\ stack[esp + 2] = before["eflags"]
  <2>1. /\ esp = top - 3 /\ esp + 1 = top - 2 /\ esp + 2 = top - 1
    BY <1>1, <1>3, Room
  <2>2. /\ stack[top - 3] = Word(3) /\ stack[top - 2] = Word(2) /\ stack[top - 1] = Word(1)
    BY <1>2 DEF StubInv, StackHolds
  <2>3. /\ Word(1) = before["eflags"] /\ Word(2) = before["cs"] /\ Word(3) = before["eip"]
    BY WordsOf DEF Word
  <2> QED BY <2>1, <2>2, <2>3
<1>6. regs' = before
  <2>1. before \in [Registers -> Nat]
    BY <1>1, Room
  <2>2. ASSUME NEW r \in Registers
        PROVE  regs'[r] = before[r]
    <3>1. CASE r \in {"eip", "cs", "eflags"}
      BY <1>4, <1>5, <3>1
    <3>2. CASE r \notin {"eip", "cs", "eflags"}
      <4>1. regs'[r] = regs[r]
        BY <1>4, <3>2
      <4>2. Holds(44, r) = r /\ r # "none"
        BY <3>2, HoldsOf, RegisterNames
      <4> QED BY <1>1, <4>1, <4>2 DEF StubInv, RegistersHold
    <3> QED BY <3>1, <3>2
  <2> QED BY <1>4, <2>1, <2>2
<1>7. TypeOK'
  <2>1. at' \in 0 .. 45 /\ esp' \in 0 .. StackSize /\ regs' \in [Registers -> Nat]
    BY <1>1, <1>4, <1>6, Room
  <2> QED BY <1>1, <1>4, <2>1 DEF TypeOK
<1>8. StackHolds'
  BY <1>2, <1>4 DEF StackHolds
<1>9. RegistersHold'
  <2>1. \A r \in Registers : Holds(45, r) = r
    BY AtTheEnds, Zenon
  <2> QED BY <1>1, <1>4, <1>6, <2>1 DEF RegistersHold
<1>10. at' = 45 /\ esp' = top' - Depth(at')
  BY <1>1, <1>2, <1>4, Room
<1> QED BY <1>7, <1>8, <1>9, <1>10 DEF StubInv

LEMMA StubNext_Inv == StubInv /\ [StubNext]_stubVars => StubInv'
<1> SUFFICES ASSUME StubInv, [StubNext]_stubVars PROVE StubInv'
  OBVIOUS
<1>1. CASE UNCHANGED stubVars
  BY <1>1 DEF stubVars, StubInv, TypeOK, StackHolds, RegistersHold, Slot, Word, Number
<1> QED BY <1>1, Deliver_Inv, PushRegister_Inv, PopRegister_Inv, Move_Inv, PassContext_Inv,
           CallHandler_Inv, Unwind_Inv, Discard_Inv, Iret_Inv DEF StubNext

LEMMA StubStepOnly == [Next]_vars => [StubNext]_stubVars
BY DEF Next, StubStep, LogError, LogStep, vars

LEMMA InvSeesInterrupt == StubInv => HandlerSeesInterrupt
<1> SUFFICES ASSUME StubInv, InHandler
             PROVE  /\ esp % 4 = 0
                    /\ Field("int_no") = Number(vector)
                    /\ Field("err_code") =
                         (IF vector \in CpuPushesErrCode THEN ErrCode ELSE 0)
                    /\ \A r \in WellPlaced : Field(r) = before[r]
  BY DEF HandlerSeesInterrupt
<1>1. TypeOK /\ at = 24
  BY AtInstruction, Instructions DEF StubInv, InHandler
<1>2. esp = Slot /\ stack[esp] = top - 17 /\ Depth(at) = 17 /\ esp % 4 = 0
  BY <1>1, DepthOf, SlotBelow DEF StubInv
<1>3. \A w \in 1 .. 17 : stack[top - w] = Word(w)
  BY <1>2 DEF StubInv, StackHolds
<1>4. \A o \in 0 .. 16 : stack[stack[esp] + o] = Word(17 - o)
  <2> SUFFICES ASSUME NEW o \in 0 .. 16 PROVE stack[stack[esp] + o] = Word(17 - o)
    OBVIOUS
  <2>1. 17 - o \in 1 .. 17 /\ stack[esp] + o = top - (17 - o)
    BY <1>1, <1>2, Room
  <2> QED BY <1>3, <2>1
<1>5. /\ Field("cr2") = Word(17) /\ Field("gs") = Word(16) /\ Field("fs") = Word(15)
      /\ Field("edi") = Word(12) /\ Field("esi") = Word(11) /\ Field("ebp") = Word(10)
      /\ Field("ebx") = Word(9) /\ Field("edx") = Word(8) /\ Field("ecx") = Word(7)
      /\ Field("eax") = Word(6) /\ Field("int_no") = Word(5) /\ Field("err_code") = Word(4)
  BY <1>4 DEF Field, InterruptContext
<1>6. \A w \in 6 .. 17 : Word(w) = before[Words[w]]
  BY SavedWord
<1>7. /\ Word(17) = before["cr2"] /\ Word(16) = before["gs"] /\ Word(15) = before["fs"]
      /\ Word(12) = before["edi"] /\ Word(11) = before["esi"] /\ Word(10) = before["ebp"]
      /\ Word(9) = before["ebx"] /\ Word(8) = before["edx"] /\ Word(7) = before["ecx"]
      /\ Word(6) = before["eax"]
  BY <1>6, WordsOf
<1>8. /\ Word(5) = Number(vector)
      /\ Word(4) = IF vector \in CpuPushesErrCode THEN ErrCode ELSE 0
  BY DEF Word
<1>9. \A r \in WellPlaced : Field(r) = before[r]
  BY <1>5, <1>7, RegisterNames DEF WellPlaced
<1> QED BY <1>2, <1>5, <1>8, <1>9

-----------------------------------------------------------------------------
(***************************************************************************)
(* What is logged.  Whoever calls Log meets what LogInit asks for.         *)
(***************************************************************************)
HandlersInv ==
  /\ (pc = "idle") => NotLogging
  /\ (pc # "idle") => PrintfInv
  /\ (pc # "idle" /\ at # 0) =>
       /\ at >= 24
       /\ level = "[ERROR] "
       /\ fmt = UnhandledMessage(vector)
       /\ args = <<UnsignedArg(Number(vector))>>

\* A message has a %X and no other specifier.
LEMMA MessageRoles ==
  ASSUME NEW v \in 0 .. 47
  PROVE  LET f == UnhandledMessage(v)
         IN  /\ Len(f) = 4 /\ Role(f)[2] = "X" /\ Taken(f)[2] = 1 /\ Taken(f)[4] = 1
             /\ \A k \in 1 .. 4 : k # 2 => Role(f)[k] \notin Specifiers
<1> DEFINE f == UnhandledMessage(v)
<1>1. Len(f) = 4 /\ f[1] # "%" /\ f[2] = "%" /\ f[3] = "X" /\ f[4] = "LF"
  BY DEF UnhandledMessage
<1> HIDE DEF f
<1>2. RoleFollows(f) /\ TakenFollows(f)
  BY <1>1, RoleIs, TakenIs
<1>3. /\ Role(f)[0] = "none"
      /\ Role(f)[1] = NextRole(f, 1, Role(f)[0]) /\ Role(f)[2] = NextRole(f, 2, Role(f)[1])
      /\ Role(f)[3] = NextRole(f, 3, Role(f)[2]) /\ Role(f)[4] = NextRole(f, 4, Role(f)[3])
  BY <1>1, <1>2 DEF RoleFollows
<1>4. "X" \in Specifiers
      /\ \A r \in {"none", "char", "second", "unknown"} : r \notin Specifiers
  BY DEF Specifiers, Numbers
<1>5. Role(f)[1] = "char"
  BY <1>1, <1>3, <1>4 DEF NextRole
<1>6. Role(f)[2] = "X"
  BY <1>1, <1>3, <1>4, <1>5 DEF NextRole
<1>7. Role(f)[3] = "second"
  BY <1>3, <1>4, <1>6 DEF NextRole
<1>8. Role(f)[4] = "char"
  BY <1>1, <1>3, <1>4, <1>7 DEF NextRole
<1>9. /\ Taken(f)[1] = Taken(f)[0] + 0 /\ Taken(f)[2] = Taken(f)[1] + 1
      /\ Taken(f)[3] = Taken(f)[2] + 0 /\ Taken(f)[4] = Taken(f)[3] + 0 /\ Taken(f)[0] = 0
  BY <1>1, <1>2, <1>4, <1>5, <1>6, <1>7, <1>8 DEF TakenFollows
<1>10. Taken(f)[2] = 1 /\ Taken(f)[4] = 1
  BY <1>9
<1>11. ASSUME NEW k \in 1 .. 4, k # 2 PROVE Role(f)[k] \notin Specifiers
  <2>1. k = 1 \/ k = 3 \/ k = 4
    BY <1>11
  <2> QED BY <1>4, <1>5, <1>7, <1>8, <2>1
<1> QED BY <1>1, <1>6, <1>10, <1>11 DEF f

LEMMA PrintfBeginsNext == LogInit' => PrintfInv'
BY PrintfBegins, PTL

LEMMA LogError_Inv == StubInv /\ HandlersInv /\ LogError => HandlersInv'
<1> SUFFICES ASSUME StubInv, HandlersInv, LogError PROVE HandlersInv'
  OBVIOUS
<1> DEFINE f == UnhandledMessage(vector)
           x == UnsignedArg(Number(vector))
<1>1. /\ InHandler /\ NotLogging /\ pc' = "log" /\ level' = "[ERROR] " /\ fmt' = f
      /\ args' = <<UnsignedArg(UnhandledNumber)>>
      /\ UNCHANGED <<i, arg_index, log_buffer, out>> /\ UNCHANGED <<vector, at>>
  BY DEF LogError, HandlersInv, stubVars
<1>2. TypeOK /\ at = 24 /\ vector \in 0 .. 47 /\ Number(vector) \in 0 .. 47
  <2>1. TypeOK /\ vector \in 0 .. 47
    BY DEF StubInv, TypeOK
  <2>2. at = 24
    <3>1. at \in 1 .. 44 /\ CommonStub[at].op = "call"
      BY <1>1, <2>1, AtInstruction DEF InHandler
    <3> QED BY <3>1, Instructions
  <2> QED BY <2>1, <2>2 DEF Number, Irqs
<1>3. UnhandledNumber = Number(vector)
  <2>1. Field("int_no") = Number(vector)
    BY <1>1, InvSeesInterrupt DEF HandlerSeesInterrupt
  <2>2. IntMax \in Nat /\ IntMax >= 47
    BY HandlersAssumption, LoggerAssumption
  <2> DEFINE n == Number(vector)
  <2>3. n \in 0 .. 47
    BY <1>2
  <2> HIDE DEF n
  <2>4. n % (2 * (IntMax + 1)) = n
    BY <2>2, <2>3
  <2> QED BY <2>1, <2>4 DEF n, UnhandledNumber, ToUInt, UIntMod
<1>4. f \in Formats /\ x \in Args(f)
  BY <1>2, HandlersAssumption
<1>5. /\ Len(f) = 4 /\ Role(f)[2] = "X" /\ Taken(f)[2] = 1 /\ Taken(f)[4] = 1
      /\ \A k \in 1 .. 4 : k # 2 => Role(f)[k] \notin Specifiers
  BY <1>2, MessageRoles
<1>6. Suits("X", x)
  BY DEF Suits, UnsignedArg, Numbers
<1>7. args' = <<x>>
  BY <1>1, <1>3
<1> HIDE DEF f, x
<1>8. args' \in [1 .. Taken(f)[Len(f)] -> Args(f)]
  BY <1>4, <1>5, <1>7
<1>9. ASSUME NEW k \in 1 .. Len(f), Role(f)[k] \in Specifiers
      PROVE  Suits(Role(f)[k], (args')[Taken(f)[k]])
  <2>1. k = 2
    BY <1>5, <1>9
  <2>2. (args')[1] = x
    BY <1>7
  <2> QED BY <1>5, <1>6, <2>1, <2>2
<1>10. PrintfInv'
  <2>1. "[ERROR] " \in Levels
    BY DEF Levels
  <2>2. i' = 0 /\ arg_index' = 0 /\ log_buffer' = <<>> /\ out' = <<>>
    BY <1>1 DEF NotLogging
  <2>3. LogInit'
    BY <1>1, <1>4, <1>8, <1>9, <2>1, <2>2, Zenon DEF LogInit
  <2> QED BY <2>3, PrintfBeginsNext
<1>11. pc' # "idle" /\ at' >= 24
  <2>1. at' = 24
    BY <1>1, <1>2
  <2>2. pc' # "idle"
    BY <1>1
  <2> QED BY <2>1, <2>2
<1>12. UnhandledMessage(vector)' = f /\ UnsignedArg(Number(vector))' = x
  BY <1>1 DEF UnhandledMessage, UnsignedArg, Number, f, x
<1> QED BY <1>1, <1>7, <1>10, <1>11, <1>12 DEF HandlersInv

LEMMA StubStep_Inv == StubInv /\ HandlersInv /\ StubStep => HandlersInv'
<1> SUFFICES ASSUME StubInv, HandlersInv, StubStep PROVE HandlersInv'
  OBVIOUS
<1>1. UNCHANGED logVars /\ (at = 0 => pc = "idle") /\ StubNext
  BY DEF StubStep
<1>2. at' = at + 1 /\ vector' = vector /\ at \in 0 .. 45
  <2>1. at \in 0 .. 45
    BY DEF StubInv, TypeOK
  <2>2. at' = at + 1 /\ vector' = vector
    BY <1>1 DEF StubNext, Deliver, PushRegister, PopRegister, Move, PassContext,
               CallHandler, Unwind, Discard, Iret, Advance
  <2> QED BY <2>1, <2>2
<1>3. (PrintfInv)' <=> PrintfInv
  BY <1>1 DEF logVars, PrintfInv, Stands, NoLeast
<1>4. NotLogging' <=> NotLogging
  BY <1>1 DEF logVars, NotLogging
<1>5. UNCHANGED <<pc, level, fmt, args>>
  BY <1>1 DEF logVars
<1>6. (pc = "idle") => NotLogging'
  BY <1>4 DEF HandlersInv
<1>7. (pc # "idle") => (PrintfInv)'
  BY <1>3 DEF HandlersInv
<1>8. ASSUME pc # "idle"
      PROVE  /\ at' >= 24
             /\ level = "[ERROR] "
             /\ fmt = UnhandledMessage(vector)
             /\ args = <<UnsignedArg(Number(vector))>>
  <2>1. at # 0
    BY <1>1, <1>8
  <2>2. /\ at >= 24
        /\ level = "[ERROR] "
        /\ fmt = UnhandledMessage(vector)
        /\ args = <<UnsignedArg(Number(vector))>>
    BY <1>8, <2>1, Zenon DEF HandlersInv
  <2>3. at' >= 24
    <3>1. at >= 24
      BY <2>2
    <3>2. at' = at + 1 /\ at \in 0 .. 45
      BY <1>2
    <3> QED BY <3>1, <3>2
  <2> QED BY <2>2, <2>3
<1>9. /\ UnhandledMessage(vector)' = UnhandledMessage(vector)
      /\ UnsignedArg(Number(vector))' = UnsignedArg(Number(vector))
  BY <1>2 DEF UnhandledMessage, UnsignedArg, Number
<1> QED BY <1>5, <1>6, <1>7, <1>8, <1>9 DEF HandlersInv

LEMMA LogStep_Inv == HandlersInv /\ LogStep => HandlersInv'
<1> SUFFICES ASSUME HandlersInv, LogStep PROVE HandlersInv'
  OBVIOUS
<1>1. LogNext /\ UNCHANGED <<vector, at>>
  BY DEF LogStep, stubVars
<1>2. pc # "idle" /\ pc' # "idle" /\ UNCHANGED <<level, fmt, args>>
  BY <1>1 DEF LogNext, Log, PrintLiteral, Format
<1>3. PrintfInv'
  BY <1>1, <1>2, PrintfKept DEF HandlersInv
<1> QED BY <1>1, <1>2, <1>3 DEF HandlersInv

LEMMA Init_HandlersInv == Init => HandlersInv
<1> SUFFICES ASSUME Init PROVE HandlersInv
  OBVIOUS
<1>1. at = 0
  BY DEF Init, StubInit
<1>2. CASE NotLogging
  BY <1>1, <1>2 DEF HandlersInv, NotLogging
<1>3. CASE LogInit
  <2>1. PrintfInv /\ pc = "log"
    BY <1>3, PrintfBegins DEF LogInit
  <2> QED BY <1>1, <2>1 DEF HandlersInv
<1> QED BY <1>2, <1>3 DEF Init

LEMMA Next_HandlersInv == StubInv /\ HandlersInv /\ [Next]_vars => HandlersInv'
<1> SUFFICES ASSUME StubInv, HandlersInv, [Next]_vars PROVE HandlersInv'
  OBVIOUS
<1>1. CASE UNCHANGED vars
  BY <1>1 DEF vars, stubVars, logVars, HandlersInv, NotLogging, PrintfInv, Stands, NoLeast
<1> QED BY <1>1, StubStep_Inv, LogError_Inv, LogStep_Inv DEF Next

LEMMA InvNamesUnhandled == StubInv /\ HandlersInv => UnhandledIsNamed
<1> SUFFICES ASSUME StubInv, HandlersInv, InHandler, pc = "returned"
             PROVE  /\ level = "[ERROR] "
                    /\ out = <<level>> \o
                         Text(UnhandledMessage(vector), <<UnsignedArg(Number(vector))>>)
  BY DEF UnhandledIsNamed
<1>1. at # 0 /\ vector \in 0 .. 47
  BY DEF InHandler, Current, StubInv, TypeOK
<1>2. /\ PrintfInv /\ level = "[ERROR] " /\ fmt = UnhandledMessage(vector)
      /\ args = <<UnsignedArg(Number(vector))>>
  BY <1>1 DEF HandlersInv
<1>3. \A k \in 1 .. Len(fmt) : Role(fmt)[k] # "d"
  <2>1. /\ Len(fmt) = 4 /\ Role(fmt)[2] = "X"
        /\ \A k \in 1 .. 4 : k # 2 => Role(fmt)[k] \notin Specifiers
    BY <1>1, <1>2, MessageRoles
  <2>2. "d" \in Specifiers
    BY DEF Specifiers, Numbers
  <2> QED BY <2>1, <2>2
<1>4. out = <<level>> \o Text(fmt, args)
  BY <1>2, <1>3, InvShowsText DEF PrintfShowsText
<1> QED BY <1>2, <1>4

-----------------------------------------------------------------------------
(***************************************************************************)
(* Theorems.                                                               *)
(***************************************************************************)

\* What each instruction of a stub finds on the stack and in the registers.
THEOREM StubInvariance == Spec => []StubInv
<1>1. Init => StubInv
  BY StubInit_Inv DEF Init
<1> QED BY <1>1, StubStepOnly, StubNext_Inv, PTL DEF Spec

\* isr_handler and irq_handler are called with an aligned stack and a context in which
\* int_no and err_code are the interrupt's and the general registers (esp apart), cr2, gs
\* and fs the interrupted ones; its other fields the theorem does not speak of.
THEOREM HandlerIsHandedTheInterrupt == Spec => []HandlerSeesInterrupt
BY StubInvariance, InvSeesInterrupt, PTL

\* The iret of isr_common_stub and irq_common_stub gives the interrupted code every
\* register and its stack pointer back, whatever the alignment of its stack.
THEOREM InterruptedCodeIsRestored == Spec => []ReturnsToInterrupted
<1>1. StubInv => ReturnsToInterrupted
  <2> SUFFICES ASSUME StubInv, at > Len(CommonStub) PROVE regs = before /\ esp = top
    BY DEF ReturnsToInterrupted
  <2>1. TypeOK /\ at = 45
    <3>1. TypeOK /\ at \in 0 .. 45
      BY DEF StubInv, TypeOK
    <3>2. Len(CommonStub) = 44
      BY Operations
    <3> QED BY <3>1, <3>2
  <2>2. esp = top
    <3>1. esp = top - Depth(at) /\ Depth(at) = 0
      BY <2>1, DepthOf DEF StubInv
    <3> QED BY <2>1, <3>1, Room
  <2>3. \A r \in Registers : Holds(45, r) = r /\ r # "none"
    BY AtTheEnds, Zenon
  <2>4. \A r \in Registers : regs[r] = before[r]
    BY <2>1, <2>3 DEF StubInv, RegistersHold
  <2>5. regs \in [Registers -> Nat] /\ before \in [Registers -> Nat]
    BY <2>1, Room DEF TypeOK
  <2> QED BY <2>2, <2>4, <2>5
<1> QED BY <1>1, StubInvariance, PTL

\* An interrupted code's logging, and every handler's, is a call of Log as LogInit has it.
LEMMA HandlersInvariance == Spec => [](StubInv /\ HandlersInv)
<1>1. StubInv /\ HandlersInv /\ [Next]_vars => (StubInv /\ HandlersInv)'
  <2>1. [Next]_vars => [StubNext]_stubVars
    BY StubStepOnly
  <2> QED BY <2>1, StubNext_Inv, Next_HandlersInv
<1>2. Init => StubInv /\ HandlersInv
  BY StubInit_Inv, Init_HandlersInv DEF Init
<1> QED BY <1>1, <1>2, PTL DEF Spec

\* For every size of int, every format and all arguments, a Log that returns, called by a
\* handler or by other code, has handed the writer the level and the text its format stands
\* for, digit by digit, less every decimal 0, whenever no %d is given the least int.
THEOREM ShowsItsText == Spec => []PrintfShowsText
<1>1. StubInv /\ HandlersInv => PrintfShowsText
  <2>1. CASE pc = "idle"
    BY <2>1 DEF PrintfShowsText
  <2> QED BY <2>1, InvShowsText DEF HandlersInv
<1> QED BY <1>1, HandlersInvariance, PTL

\* Printf reads past the NUL of a format only behind a % that is its last character, and has
\* by then taken every argument, none beyond the array.
THEOREM LeavesFormatAtItsEnd == Spec => []BeyondOnlyAfterPercent
<1>1. StubInv /\ HandlersInv => BeyondOnlyAfterPercent
  <2>1. CASE pc = "idle"
    BY <2>1 DEF BeyondOnlyAfterPercent
  <2> QED BY <2>1, InvLeavesAtEnd DEF HandlersInv
<1> QED BY <1>1, HandlersInvariance, PTL

\* What isr_handler and irq_handler log of an interrupt they do not handle is an error that
\* shows its number: that of the exception or of the IRQ line, for every vector, whatever
\* the interrupted code had in its registers and on its stack.
THEOREM UnhandledInterruptIsNamed == Spec => []UnhandledIsNamed
BY HandlersInvariance, InvNamesUnhandled, PTL
=============================================================================
