-------------------------- MODULE SerialPortProofs ---------------------------
(***************************************************************************)
(* Theorems about the serial port, for any ports, rates and bytes, a FIFO  *)
(* of any size and any number of calls.                                    *)
(***************************************************************************)
EXTENDS SerialPort, SequenceTheorems, WellFoundedInduction, TLAPS

-----------------------------------------------------------------------------
(***************************************************************************)
(* The inductive invariant.                                                *)
(***************************************************************************)
TypeOK ==
  /\ initialized \in BOOLEAN
  /\ initialized => port \in COMPort /\ baud \in BaudRate
  /\ chip \in [COMPort -> Chip]
  /\ works \in [COMPort -> BOOLEAN]
  /\ tested \in [COMPort -> {"no", "failed", "passed"}]
  /\ str \in Seq(Bytes)
  /\ sent \in Seq(Bytes)
  /\ line \in Seq(Bytes)

\* Only a port that is initialised prints; no Init leaves DLAB on, so that what is
\* printed is never taken for a divisor.
SerialInv ==
  /\ TypeOK
  /\ str # <<>> => initialized
  /\ \A com \in COMPort : ~chip[com].dlab
  /\ TestedIsSetUp
  /\ LineInOrder

-----------------------------------------------------------------------------
(***************************************************************************)
(* A sequence of writes.                                                   *)
(***************************************************************************)

\* The function by which WriteRegs is defined, up to write n.
Steps(uart, writes, n, g) ==
  g = [k \in 0 .. n |-> IF k = 0 THEN uart ELSE WriteReg(g[k - 1], writes[k])]

\* One write more.
LEMMA StepsNext ==
  ASSUME NEW uart, NEW writes, NEW n \in Nat, NEW g, Steps(uart, writes, n, g)
  PROVE  \E h : Steps(uart, writes, n + 1, h)
<1> DEFINE h == [k \in 0 .. (n + 1) |-> IF k <= n THEN g[k]
                                        ELSE WriteReg(g[n], writes[n + 1])]
<1>1. \A k \in 0 .. n : g[k] = IF k = 0 THEN uart ELSE WriteReg(g[k - 1], writes[k])
  BY DEF Steps
<1>2. ASSUME NEW k \in 0 .. (n + 1)
      PROVE  h[k] = IF k = 0 THEN uart ELSE WriteReg(h[k - 1], writes[k])
  <2>1. CASE k = 0
    BY <1>1, <2>1
  <2>2. CASE k \in 1 .. n
    <3>1. h[k] = g[k] /\ h[k - 1] = g[k - 1] /\ k # 0 /\ k \in 0 .. n
      BY <2>2
    <3> HIDE DEF h
    <3> QED BY <1>1, <3>1, Zenon
  <2>3. CASE k = n + 1
    <3>1. h[k] = WriteReg(g[n], writes[n + 1]) /\ h[k - 1] = g[n] /\ k # 0
      BY <2>3
    <3> HIDE DEF h
    <3> QED BY <2>3, <3>1, Zenon
  <2> QED BY <2>1, <2>2, <2>3
<1>3. h = [k \in 0 .. (n + 1) |-> IF k = 0 THEN uart ELSE WriteReg(h[k - 1], writes[k])]
  <2>1. h = [k \in 0 .. (n + 1) |-> h[k]]
    OBVIOUS
  <2> HIDE DEF h
  <2> QED BY <1>2, <2>1, Zenon
<1> HIDE DEF h
<1> QED BY <1>3, Zenon DEF Steps

LEMMA LeastElement ==
  ASSUME NEW S \in SUBSET Nat, S # {}
  PROVE  \E x \in S : \A y \in S : x <= y
<1>1. PICK x \in S : \A y \in S : ~(<<y, x>> \in OpToRel(<, Nat))
  BY NatLessThanWellFounded, WFMin
<1>2. ASSUME NEW y \in S
      PROVE  x <= y
  <2>1. y < x => <<y, x>> \in OpToRel(<, Nat)
    <3>1. <<y, x>> \in Nat \X Nat /\ <<y, x>>[1] = y /\ <<y, x>>[2] = x
      OBVIOUS
    <3> QED BY <3>1, Zenon DEF OpToRel
  <2>2. ~(y < x)
    BY <1>1, <2>1, Zenon
  <2> QED BY <2>2
<1> QED BY <1>2

\* However many writes there are.
LEMMA StepsExist ==
  ASSUME NEW uart, NEW writes, NEW n \in Nat
  PROVE  \E g : Steps(uart, writes, n, g)
<1> DEFINE Without == {m \in Nat : ~\E g : Steps(uart, writes, m, g)}
<1> SUFFICES ASSUME Without # {} PROVE FALSE
  OBVIOUS
<1>1. PICK m \in Without : \A k \in Without : m <= k
  <2>1. Without \in SUBSET Nat
    OBVIOUS
  <2> HIDE DEF Without
  <2> QED BY <2>1, LeastElement
<1>2. CASE m = 0
  <2> DEFINE h == [k \in 0 .. 0 |-> uart]
  <2>1. h = [k \in 0 .. 0 |-> IF k = 0 THEN uart ELSE WriteReg(h[k - 1], writes[k])]
    OBVIOUS
  <2>2. Steps(uart, writes, 0, h)
    <3> HIDE DEF h
    <3> QED BY <2>1, Zenon DEF Steps
  <2> HIDE DEF h
  <2> QED BY <1>2, <2>2
<1>3. CASE m # 0
  <2>1. m - 1 \in Nat /\ m - 1 \notin Without /\ (m - 1) + 1 = m
    BY <1>1, <1>3
  <2>2. PICK g : Steps(uart, writes, m - 1, g)
    BY <2>1
  <2>3. \E h : Steps(uart, writes, (m - 1) + 1, h)
    BY <2>1, <2>2, StepsNext
  <2> QED BY <2>1, <2>3
<1> QED BY <1>2, <1>3

\* Writes are applied one after the other.
LEMMA WriteRegsSteps ==
  ASSUME NEW uart, NEW writes, Len(writes) \in Nat
  PROVE  \E g : /\ g[0] = uart
                /\ \A k \in 1 .. Len(writes) : g[k] = WriteReg(g[k - 1], writes[k])
                /\ WriteRegs(uart, writes) = g[Len(writes)]
<1> DEFINE n == Len(writes)
           after == CHOOSE g : g = [k \in 0 .. n |-> IF k = 0 THEN uart
                                                     ELSE WriteReg(g[k - 1], writes[k])]
<1>1. \E g : g = [k \in 0 .. n |-> IF k = 0 THEN uart ELSE WriteReg(g[k - 1], writes[k])]
  <2>1. \E g : Steps(uart, writes, n, g)
    BY StepsExist
  <2> QED BY <2>1 DEF Steps
<1>2. after = [k \in 0 .. n |-> IF k = 0 THEN uart ELSE WriteReg(after[k - 1], writes[k])]
  BY <1>1, Zenon
<1>3. WriteRegs(uart, writes) = after[n]
  BY DEF WriteRegs
<1> HIDE DEF after
<1>4. \A k \in 0 .. n : after[k] = IF k = 0 THEN uart ELSE WriteReg(after[k - 1], writes[k])
  BY <1>2, Zenon
<1>5. after[0] = uart
  BY <1>4
<1>6. \A k \in 1 .. n : after[k] = WriteReg(after[k - 1], writes[k])
  BY <1>4
<1> QED BY <1>3, <1>5, <1>6
-----------------------------------------------------------------------------
(***************************************************************************)
(* The registers.                                                          *)
(***************************************************************************)
LEMMA LineControl ==
  ASSUME NEW uart \in Chip, NEW byte \in Nat
  PROVE  /\ WriteReg(uart, Out(3, byte)) \in Chip
         /\ byte >= 128 => WriteReg(uart, Out(3, byte)).dlab
         /\ ~(byte >= 128) => ~WriteReg(uart, Out(3, byte)).dlab
         /\ WriteReg(uart, Out(3, byte)).frame = byte % 128
         /\ WriteReg(uart, Out(3, byte)).low = uart.low
         /\ WriteReg(uart, Out(3, byte)).high = uart.high
<1>1. WriteReg(uart, Out(3, byte)) =
        [uart EXCEPT !.dlab = byte >= 128, !.frame = byte % 128]
  BY DEF WriteReg, Out
<1>2. byte % 128 \in 0 .. 127 /\ (byte >= 128) \in BOOLEAN
  OBVIOUS
<1> QED BY <1>1, <1>2 DEF Chip

LEMMA DivisorLow ==
  ASSUME NEW uart \in Chip, uart.dlab, NEW byte \in 0 .. (ByteMod - 1)
  PROVE  /\ WriteReg(uart, Out(0, byte)) \in Chip
         /\ WriteReg(uart, Out(0, byte)) = [uart EXCEPT !.low = byte]
  BY DEF WriteReg, Out, Chip

LEMMA DivisorHigh ==
  ASSUME NEW uart \in Chip, uart.dlab, NEW byte \in 0 .. (ByteMod - 1)
  PROVE  /\ WriteReg(uart, Out(1, byte)) \in Chip
         /\ WriteReg(uart, Out(1, byte)) = [uart EXCEPT !.high = byte]
  BY DEF WriteReg, Out, Chip

LEMMA InterruptEnable ==
  ASSUME NEW uart \in Chip, NEW byte \in 0 .. (ByteMod - 1)
  PROVE  WriteReg(uart, Out(1, byte)) \in Chip
<1>1. CASE uart.dlab
  BY <1>1, DivisorHigh
<1>2. CASE ~uart.dlab
  BY <1>2 DEF WriteReg, Out
<1> QED BY <1>1, <1>2

LEMMA FifoControl ==
  ASSUME NEW uart \in Chip, NEW byte \in Nat
  PROVE  /\ WriteReg(uart, Out(2, byte)) \in Chip
         /\ WriteReg(uart, Out(2, byte)) = [uart EXCEPT !.thr = <<>>]
<1>1. WriteReg(uart, Out(2, byte)) = [uart EXCEPT !.thr = <<>>]
  BY DEF WriteReg, Out
<1>2. <<>> \in Seq(Bytes)
  OBVIOUS
<1> QED BY <1>1, <1>2 DEF Chip

LEMMA ModemControl ==
  ASSUME NEW uart \in Chip, NEW byte \in Nat
  PROVE  /\ WriteReg(uart, Out(4, byte)) \in Chip
         /\ WriteReg(uart, Out(4, byte)) = [uart EXCEPT !.loop = (byte \div 16) % 2 = 1]
<1>1. WriteReg(uart, Out(4, byte)) = [uart EXCEPT !.loop = (byte \div 16) % 2 = 1]
  BY DEF WriteReg, Out
<1>2. ((byte \div 16) % 2 = 1) \in BOOLEAN
  OBVIOUS
<1> QED BY <1>1, <1>2 DEF Chip

\* In loopback the data register does not reach the FIFO.
LEMMA LoopedBack ==
  ASSUME NEW uart \in Chip, ~uart.dlab, uart.loop, NEW byte
  PROVE  WriteReg(uart, Out(0, byte)) = uart
  BY DEF WriteReg, Out

LEMMA Transmitted ==
  ASSUME NEW uart \in Chip, ~uart.dlab, ~uart.loop, Len(uart.thr) < FifoSize,
         NEW byte \in Bytes
  PROVE  /\ WriteReg(uart, Out(0, byte)) \in Chip
         /\ WriteReg(uart, Out(0, byte)) = [uart EXCEPT !.thr = Append(uart.thr, byte)]
<1>1. WriteReg(uart, Out(0, byte)) = [uart EXCEPT !.thr = Append(uart.thr, byte)]
  BY DEF WriteReg, Out
<1>2. Append(uart.thr, byte) \in Seq(Bytes)
  BY DEF Chip
<1> QED BY <1>1, <1>2 DEF Chip

\* The two bytes of a rate.
LEMMA DivisorBytes ==
  ASSUME NEW rate \in BaudRate
  PROVE  /\ rate % ByteMod \in 0 .. (ByteMod - 1)
         /\ (rate \div ByteMod) % ByteMod \in 0 .. (ByteMod - 1)
         /\ ByteMod * ((rate \div ByteMod) % ByteMod) + (rate % ByteMod) = rate
<1>1. /\ rate \in Nat /\ ByteMod \in Nat \ {0} /\ rate < ByteMod * ByteMod
      /\ ByteMod * ByteMod \in Nat
  BY SerialAssumption
<1>2. \A a \in Nat, d \in Nat \ {0} : /\ a \div d \in Nat
                                      /\ a % d \in 0 .. (d - 1)
                                      /\ a = d * (a \div d) + (a % d)
  BY SMT
<1> DEFINE high == rate \div ByteMod
           low  == rate % ByteMod
<1>3. high \in Nat /\ low \in 0 .. (ByteMod - 1) /\ rate = ByteMod * high + low
  BY <1>1, <1>2
<1> HIDE DEF high, low
<1>4. high < ByteMod
  <2>1. \A h \in Nat, d \in Nat \ {0} : h >= d => d * h >= d * d
    BY SMT
  <2>2. ByteMod * high \in Nat
    BY <1>1, <1>3
  <2> QED BY <1>1, <1>3, <2>1, <2>2
<1>5. high % ByteMod = high
  <2>1. \A h \in Nat, d \in Nat \ {0} : h < d => h % d = h
    BY SMT
  <2> QED BY <1>1, <1>3, <1>4, <2>1
<1>6. high % ByteMod \in 0 .. (ByteMod - 1)
  BY <1>1, <1>3, <1>4, <1>5
<1> QED BY <1>3, <1>5, <1>6 DEF high, low

\* What the writes of Setup leave: the rate and the format are set, DLAB is off, the
\* FIFO is empty and the chip loops back.
LEMMA SetupLeaves ==
  ASSUME NEW uart \in Chip, NEW rate \in BaudRate, NEW g, g[0] = uart,
         \A k \in 1 .. 9 : g[k] = WriteReg(g[k - 1], Setup(rate)[k])
  PROVE  /\ g[9] \in Chip
         /\ ~g[9].dlab /\ g[9].loop /\ g[9].frame = 3 /\ g[9].thr = <<>>
         /\ ByteMod * g[9].high + g[9].low = rate
<1> DEFINE low  == rate % ByteMod
           high == (rate \div ByteMod) % ByteMod
<1>1. low \in 0 .. (ByteMod - 1) /\ high \in 0 .. (ByteMod - 1) /\ 0 \in 0 .. (ByteMod - 1)
  BY DivisorBytes, SerialAssumption
<1>2. ByteMod * high + low = rate
  BY DivisorBytes
<1>3. /\ Setup(rate)[1] = Out(1, 0) /\ Setup(rate)[2] = Out(3, 128)
      /\ Setup(rate)[3] = Out(0, low) /\ Setup(rate)[4] = Out(1, high)
      /\ Setup(rate)[5] = Out(3, 3) /\ Setup(rate)[6] = Out(2, 199)
      /\ Setup(rate)[7] = Out(4, 3) /\ Setup(rate)[8] = Out(4, 30)
      /\ Setup(rate)[9] = Out(0, 174)
  BY DEF Setup
<1> HIDE DEF low, high
<1>4. /\ g[1] = WriteReg(uart, Out(1, 0)) /\ g[2] = WriteReg(g[1], Out(3, 128))
      /\ g[3] = WriteReg(g[2], Out(0, low)) /\ g[4] = WriteReg(g[3], Out(1, high))
      /\ g[5] = WriteReg(g[4], Out(3, 3)) /\ g[6] = WriteReg(g[5], Out(2, 199))
      /\ g[7] = WriteReg(g[6], Out(4, 3)) /\ g[8] = WriteReg(g[7], Out(4, 30))
      /\ g[9] = WriteReg(g[8], Out(0, 174))
  BY <1>3
<1>5. g[1] \in Chip
  BY <1>1, <1>4, InterruptEnable
<1>6. g[2] \in Chip /\ g[2].dlab
  <2> DEFINE out == 128
  <2>1. out \in Nat /\ out >= 128
    OBVIOUS
  <2>2. g[2] = WriteReg(g[1], Out(3, out))
    BY <1>4
  <2> HIDE DEF out
  <2>3. WriteReg(g[1], Out(3, out)) \in Chip /\ WriteReg(g[1], Out(3, out)).dlab
    BY <1>5, <2>1, LineControl, Zenon
  <2> QED BY <2>2, <2>3
<1>7. g[3] \in Chip /\ g[3].dlab /\ g[3].low = low
  <2>1. g[3] \in Chip /\ g[3] = [g[2] EXCEPT !.low = low]
    BY <1>1, <1>4, <1>6, DivisorLow
  <2> QED BY <1>6, <2>1 DEF Chip
<1>8. g[4] \in Chip /\ g[4].low = low /\ g[4].high = high
  <2>1. g[4] \in Chip /\ g[4] = [g[3] EXCEPT !.high = high]
    BY <1>1, <1>4, <1>7, DivisorHigh
  <2> QED BY <1>7, <2>1 DEF Chip
<1>9. g[5] \in Chip /\ ~g[5].dlab /\ g[5].frame = 3 /\ g[5].low = low /\ g[5].high = high
  <2> DEFINE out == 3
  <2>1. out \in Nat /\ ~(out >= 128) /\ out % 128 = 3
    OBVIOUS
  <2>2. g[5] = WriteReg(g[4], Out(3, out))
    BY <1>4
  <2> HIDE DEF out
  <2>3. /\ WriteReg(g[4], Out(3, out)) \in Chip /\ ~WriteReg(g[4], Out(3, out)).dlab
        /\ WriteReg(g[4], Out(3, out)).frame = out % 128
        /\ WriteReg(g[4], Out(3, out)).low = g[4].low
        /\ WriteReg(g[4], Out(3, out)).high = g[4].high
    BY <1>8, <2>1, LineControl, Zenon
  <2> QED BY <1>8, <2>1, <2>2, <2>3
<1>10. /\ g[6] \in Chip /\ ~g[6].dlab /\ g[6].frame = 3 /\ g[6].low = low /\ g[6].high = high
       /\ g[6].thr = <<>>
  <2>1. g[6] \in Chip /\ g[6] = [g[5] EXCEPT !.thr = <<>>]
    BY <1>4, <1>9, FifoControl
  <2> QED BY <1>9, <2>1 DEF Chip
<1>11. /\ g[7] \in Chip /\ ~g[7].dlab /\ g[7].frame = 3 /\ g[7].low = low /\ g[7].high = high
       /\ g[7].thr = <<>>
  <2>1. g[7] \in Chip /\ g[7] = [g[6] EXCEPT !.loop = (3 \div 16) % 2 = 1]
    BY <1>4, <1>10, ModemControl
  <2> QED BY <1>10, <2>1 DEF Chip
<1>12. /\ g[8] \in Chip /\ ~g[8].dlab /\ g[8].frame = 3 /\ g[8].low = low /\ g[8].high = high
       /\ g[8].thr = <<>> /\ g[8].loop
  <2>1. g[8] \in Chip /\ g[8] = [g[7] EXCEPT !.loop = (30 \div 16) % 2 = 1]
    BY <1>4, <1>11, ModemControl
  <2> QED BY <1>11, <2>1 DEF Chip
<1>13. g[9] = g[8]
  BY <1>4, <1>12, LoopedBack
<1> QED BY <1>2, <1>12, <1>13

\* A port on which Init fails still has its divisor and its format, but loops back.
LEMMA SetupFails ==
  ASSUME NEW uart \in Chip, NEW rate \in BaudRate
  PROVE  /\ WriteRegs(uart, Setup(rate)) \in Chip
         /\ ~WriteRegs(uart, Setup(rate)).dlab
<1>1. Len(Setup(rate)) = 9
  BY DEF Setup
<1>2. PICK g : /\ g[0] = uart
               /\ \A k \in 1 .. 9 : g[k] = WriteReg(g[k - 1], Setup(rate)[k])
               /\ WriteRegs(uart, Setup(rate)) = g[9]
  <2>1. Len(Setup(rate)) \in Nat
    BY <1>1
  <2>2. \E g : /\ g[0] = uart
               /\ \A k \in 1 .. Len(Setup(rate)) : g[k] = WriteReg(g[k - 1], Setup(rate)[k])
               /\ WriteRegs(uart, Setup(rate)) = g[Len(Setup(rate))]
    BY <2>1, WriteRegsSteps, Zenon
  <2> QED BY <1>1, <2>2
<1>3. g[9] \in Chip /\ ~g[9].dlab
  BY <1>2, SetupLeaves, Zenon
<1> QED BY <1>2, <1>3, Zenon

\* A port on which Init succeeds: the rate and 8N1 set, an empty FIFO, no loopback.
LEMMA SetupSucceeds ==
  ASSUME NEW uart \in Chip, NEW rate \in BaudRate
  PROVE  LET ready == WriteRegs(uart, Setup(rate) \o << Out(4, 15) >>)
         IN  /\ ready \in Chip
             /\ ~ready.dlab /\ ~ready.loop /\ ready.frame = 3 /\ ready.thr = <<>>
             /\ ByteMod * ready.high + ready.low = rate
<1> DEFINE writes == Setup(rate) \o << Out(4, 15) >>
<1>1. /\ Len(writes) = 10
      /\ \A k \in 1 .. 9 : writes[k] = Setup(rate)[k]
      /\ writes[10] = Out(4, 15)
  BY DEF Setup
<1> HIDE DEF writes
<1>2. PICK g : /\ g[0] = uart
               /\ \A k \in 1 .. 10 : g[k] = WriteReg(g[k - 1], writes[k])
               /\ WriteRegs(uart, writes) = g[10]
  <2>1. Len(writes) \in Nat
    BY <1>1
  <2>2. \E g : /\ g[0] = uart
               /\ \A k \in 1 .. Len(writes) : g[k] = WriteReg(g[k - 1], writes[k])
               /\ WriteRegs(uart, writes) = g[Len(writes)]
    BY <2>1, WriteRegsSteps, Zenon
  <2> QED BY <1>1, <2>2
<1>3. \A k \in 1 .. 9 : g[k] = WriteReg(g[k - 1], Setup(rate)[k])
  BY <1>1, <1>2
<1>4. /\ g[9] \in Chip
      /\ ~g[9].dlab /\ g[9].frame = 3 /\ g[9].thr = <<>>
      /\ ByteMod * g[9].high + g[9].low = rate
  BY <1>2, <1>3, SetupLeaves, Zenon
<1>5. g[10] = WriteReg(g[9], Out(4, 15))
  BY <1>1, <1>2
<1>6. g[10] \in Chip /\ g[10] = [g[9] EXCEPT !.loop = (15 \div 16) % 2 = 1]
  BY <1>4, <1>5, ModemControl
<1>7. /\ ~g[10].dlab /\ ~g[10].loop /\ g[10].frame = 3 /\ g[10].thr = <<>>
      /\ g[10].high = g[9].high /\ g[10].low = g[9].low
  BY <1>4, <1>6 DEF Chip
<1>8. ByteMod * g[10].high + g[10].low = rate
  BY <1>4, <1>7, Zenon
<1> QED BY <1>2, <1>6, <1>7, <1>8, Zenon DEF writes

LEMMA OneWrite ==
  ASSUME NEW uart, NEW out
  PROVE  WriteRegs(uart, <<out>>) = WriteReg(uart, out)
<1> DEFINE writes == <<out>>
<1>1. Len(writes) = 1 /\ writes[1] = out
  OBVIOUS
<1> HIDE DEF writes
<1>2. Len(writes) \in Nat
  BY <1>1
<1>3. \E g : /\ g[0] = uart
             /\ \A k \in 1 .. Len(writes) : g[k] = WriteReg(g[k - 1], writes[k])
             /\ WriteRegs(uart, writes) = g[Len(writes)]
  BY <1>2, WriteRegsSteps, Zenon
<1>4. WriteRegs(uart, writes) = WriteReg(uart, out)
  BY <1>1, <1>3
<1> QED BY <1>4 DEF writes

\* One write of the data register with DLAB off: into the FIFO, unless the chip
\* loops back or its FIFO is full.
LEMMA Printed ==
  ASSUME NEW uart \in Chip, ~uart.dlab, NEW byte \in Bytes
  PROVE  LET after == WriteRegs(uart, << Out(0, byte) >>)
         IN  /\ after \in Chip
             /\ ~after.dlab /\ after.loop = uart.loop /\ after.frame = uart.frame
             /\ after.low = uart.low /\ after.high = uart.high
             /\ ~uart.loop /\ uart.thr = <<>> => after.thr = <<byte>>
<1> DEFINE after == WriteReg(uart, Out(0, byte))
<1>1. CASE ~uart.loop /\ Len(uart.thr) < FifoSize
  <2>1. after \in Chip /\ after = [uart EXCEPT !.thr = Append(uart.thr, byte)]
    BY <1>1, Transmitted
  <2> HIDE DEF after
  <2>2. /\ ~after.dlab /\ after.loop = uart.loop /\ after.frame = uart.frame
        /\ after.low = uart.low /\ after.high = uart.high
        /\ after.thr = Append(uart.thr, byte)
    BY <2>1 DEF Chip
  <2>3. uart.thr = <<>> => after.thr = <<byte>>
    BY <2>2
  <2>4. WriteRegs(uart, << Out(0, byte) >>) = after
    BY OneWrite, Zenon DEF after
  <2> QED BY <2>1, <2>2, <2>3, <2>4, Zenon
<1>2. CASE ~(~uart.loop /\ Len(uart.thr) < FifoSize)
  <2>1. after = uart
    BY <1>2 DEF WriteReg, Out
  <2>2. ~(~uart.loop /\ uart.thr = <<>>)
    BY <1>2, SerialAssumption
  <2> HIDE DEF after
  <2>3. WriteRegs(uart, << Out(0, byte) >>) = uart
    BY OneWrite, <2>1, Zenon DEF after
  <2> QED BY <2>2, <2>3, Zenon
<1> QED BY <1>1, <1>2

-----------------------------------------------------------------------------
(***************************************************************************)
(* Init and the steps.                                                     *)
(***************************************************************************)
LEMMA Init_Inv == Init => SerialInv
<1> SUFFICES ASSUME Init PROVE SerialInv
  OBVIOUS
<1>1. ASSUME NEW com \in COMPort
      PROVE  chip[com] \in Chip /\ ~chip[com].dlab
  <2>1. chip[com] = [dlab |-> FALSE, frame |-> 0, low |-> 1, high |-> 0,
                     loop |-> FALSE, thr |-> <<>>]
    BY DEF Init
  <2>2. 1 \in 0 .. (ByteMod - 1) /\ 0 \in 0 .. (ByteMod - 1)
    BY SerialAssumption
  <2> QED BY <2>1, <2>2 DEF Chip
<1>2. chip \in [COMPort -> Chip] /\ tested \in [COMPort -> {"no", "failed", "passed"}]
  <2>1. chip = [com \in COMPort |-> chip[com]]
    BY DEF Init
  <2> QED BY <1>1, <2>1 DEF Init
<1>3. TypeOK /\ ~initialized
  <2>1. works \in [COMPort -> BOOLEAN] /\ initialized = FALSE
    BY Zenon DEF Init
  <2>2. str \in Seq(Bytes) /\ sent \in Seq(Bytes) /\ line \in Seq(Bytes)
    BY DEF Init
  <2> QED BY <1>2, <2>1, <2>2, Zenon DEF TypeOK
<1> QED BY <1>1, <1>3 DEF Init, SerialInv, TestedIsSetUp, LineInOrder

\* What a step that writes one port's chip does to the others.
LEMMA OneChip ==
  ASSUME NEW com \in COMPort, NEW writes, chip' = Outb(com, writes), TypeOK
  PROVE  /\ \A c \in COMPort : c # com => chip'[c] = chip[c]
         /\ works[com] => chip'[com] = WriteRegs(chip[com], writes)
         /\ ~works[com] => chip'[com] = chip[com]
         /\ chip'[com] \in Chip => chip' \in [COMPort -> Chip]
  BY DEF Outb, TypeOK

LEMMA InitFails_Inv ==
  ASSUME SerialInv, NEW com \in COMPort, NEW rate \in BaudRate, InitFails(com, rate)
  PROVE  SerialInv'
<1>1. TypeOK /\ chip' = Outb(com, Setup(rate))
  BY DEF SerialInv, InitFails
<1>2. chip[com] \in Chip /\ ~chip[com].dlab
  BY <1>1 DEF SerialInv, TypeOK
<1>3. chip'[com] \in Chip /\ ~chip'[com].dlab
  <2>1. WriteRegs(chip[com], Setup(rate)) \in Chip /\ ~WriteRegs(chip[com], Setup(rate)).dlab
    BY <1>2, SetupFails
  <2> QED BY <1>1, <1>2, <2>1, OneChip
<1>4. \A c \in COMPort : c # com => chip'[c] = chip[c]
  BY <1>1, OneChip
<1>5. TypeOK'
  <2>1. chip' \in [COMPort -> Chip]
    BY <1>1, <1>3, OneChip
  <2> QED BY <1>1, <2>1 DEF TypeOK, InitFails, object
<1>6. (str # <<>> => initialized)' /\ (\A c \in COMPort : ~chip[c].dlab)'
  BY <1>3, <1>4 DEF SerialInv, InitFails, object
<1>7. ASSUME initialized, tested'[port] = "passed"
      PROVE  /\ port \in COMPort /\ port # com /\ tested[port] = "passed"
             /\ chip'[port] = chip[port]
  BY <1>1, <1>4, <1>7 DEF InitFails, TypeOK
<1>8. TestedIsSetUp' /\ LineInOrder'
  <2>1. UNCHANGED <<port, baud, initialized, works, sent, line>>
    BY DEF InitFails, object
  <2> QED BY <1>7, <2>1 DEF SerialInv, TestedIsSetUp, LineInOrder, SetUp
<1> QED BY <1>5, <1>6, <1>8 DEF SerialInv

LEMMA InitSucceeds_Inv ==
  ASSUME SerialInv, NEW com \in COMPort, NEW rate \in BaudRate, InitSucceeds(com, rate)
  PROVE  SerialInv'
<1> DEFINE ready == WriteRegs(chip[com], Setup(rate) \o << Out(4, 15) >>)
<1>1. TypeOK /\ chip[com] \in Chip
  BY DEF SerialInv, TypeOK
<1>2. /\ ready \in Chip
      /\ ~ready.dlab /\ ~ready.loop /\ ready.frame = 3 /\ ready.thr = <<>>
      /\ ByteMod * ready.high + ready.low = rate
  BY <1>1, SetupSucceeds, Zenon
<1>3. chip'[com] = ready /\ \A c \in COMPort : c # com => chip'[c] = chip[c]
  BY <1>1, OneChip DEF InitSucceeds
<1>4. chip' \in [COMPort -> Chip]
  <2>1. chip' = Outb(com, Setup(rate) \o << Out(4, 15) >>) /\ chip'[com] \in Chip
    BY <1>2, <1>3, Zenon DEF InitSucceeds
  <2> QED BY <1>1, <2>1, OneChip, Zenon
<1> HIDE DEF ready
<1>5. TypeOK'
  BY <1>1, <1>4 DEF TypeOK, InitSucceeds
<1>6. (str # <<>> => initialized)' /\ (\A c \in COMPort : ~chip[c].dlab)'
  BY <1>2, <1>3 DEF SerialInv, InitSucceeds
<1>7. TestedIsSetUp'
  <2>1. port' = com /\ baud' = rate
    BY DEF InitSucceeds
  <2>2. SetUp(port, baud)'
    BY <1>2, <1>3, <2>1, Zenon DEF SetUp
  <2> QED BY <2>2 DEF TestedIsSetUp
<1>8. LineInOrder'
  <2>1. chip'[port'].thr = <<>> /\ line' = <<>> /\ sent' = <<>>
    BY <1>2, <1>3 DEF InitSucceeds
  <2> QED BY <2>1 DEF LineInOrder
<1> QED BY <1>5, <1>6, <1>7, <1>8 DEF SerialInv

LEMMA PrintString_Inv ==
  ASSUME SerialInv, NEW s \in BoundedSeq(Bytes, MaxString - Len(sent)) \ {<<>>},
         PrintString(s)
  PROVE  SerialInv'
<1>1. s \in Seq(Bytes)
  BY DEF BoundedSeq, SeqOf
<1>2. /\ UNCHANGED <<port, baud, initialized, chip, works, tested, sent, line>>
      /\ initialized /\ str' = s
  BY DEF PrintString, object
<1>3. TypeOK'
  BY <1>1, <1>2 DEF SerialInv, TypeOK
<1> QED BY <1>2, <1>3 DEF SerialInv, TestedIsSetUp, LineInOrder, SetUp

LEMMA PrintChar_Inv ==
  ASSUME SerialInv, PrintChar
  PROVE  SerialInv'
<1> DEFINE after == WriteRegs(chip[port], << Out(0, Head(str)) >>)
<1>1. /\ TypeOK /\ initialized /\ port \in COMPort
      /\ chip[port] \in Chip /\ ~chip[port].dlab
  BY DEF SerialInv, PrintChar, TypeOK
<1>2. str \in Seq(Bytes) /\ str # <<>> /\ Head(str) \in Bytes /\ Tail(str) \in Seq(Bytes)
  BY <1>1 DEF PrintChar, TypeOK
<1>3. /\ after \in Chip
      /\ ~after.dlab /\ after.loop = chip[port].loop /\ after.frame = chip[port].frame
      /\ after.low = chip[port].low /\ after.high = chip[port].high
      /\ ~chip[port].loop /\ chip[port].thr = <<>> => after.thr = << Head(str) >>
  BY <1>1, <1>2, Printed, Zenon
<1>4. /\ \A c \in COMPort : c # port => chip'[c] = chip[c]
      /\ works[port] => chip'[port] = after
      /\ ~works[port] => chip'[port] = chip[port]
      /\ chip'[port] \in Chip => chip' \in [COMPort -> Chip]
  BY <1>1, OneChip DEF PrintChar
<1> HIDE DEF after
<1>5. UNCHANGED <<port, baud, initialized, works, tested, line>>
  BY DEF PrintChar, object
<1>6. TypeOK'
  <2>1. chip' \in [COMPort -> Chip]
    BY <1>1, <1>3, <1>4
  <2>2. str' \in Seq(Bytes) /\ sent' \in Seq(Bytes)
    BY <1>1, <1>2 DEF TypeOK, PrintChar
  <2> QED BY <1>1, <1>5, <2>1, <2>2 DEF TypeOK
<1>7. (str # <<>> => initialized)' /\ (\A c \in COMPort : ~chip[c].dlab)'
  BY <1>1, <1>3, <1>4, <1>5 DEF SerialInv
<1>8. TestedIsSetUp'
  <2>1. /\ ~chip'[port].dlab /\ chip'[port].loop = chip[port].loop
        /\ chip'[port].frame = chip[port].frame
        /\ chip'[port].low = chip[port].low /\ chip'[port].high = chip[port].high
    BY <1>1, <1>3, <1>4, Zenon
  <2>2. SetUp(port, baud) => SetUp(port, baud)'
    BY <1>5, <2>1, Zenon DEF SetUp
  <2> QED BY <1>5, <2>2, Zenon DEF SerialInv, TestedIsSetUp
<1>9. LineInOrder'
  <2> SUFFICES ASSUME works[port], tested[port] = "passed"
               PROVE  line \o chip'[port].thr = Append(sent, Head(str))
    BY <1>5 DEF LineInOrder, PrintChar
  <2>1. ~chip[port].loop
    BY <1>1 DEF SerialInv, TestedIsSetUp, SetUp
  <2>2. chip[port].thr = <<>>
    BY DEF PrintChar, TransmitBufferEmpty, HoldingEmpty
  <2>3. chip'[port].thr = << Head(str) >>
    BY <1>3, <1>4, <2>1, <2>2
  <2>4. line \o <<>> = sent
    BY <1>1, <2>2 DEF SerialInv, LineInOrder
  <2>5. line \in Seq(Bytes)
    BY <1>1 DEF TypeOK
  <2>6. line = sent
    BY <2>4, <2>5
  <2> QED BY <1>2, <2>3, <2>5, <2>6
<1> QED BY <1>6, <1>7, <1>8, <1>9 DEF SerialInv

LEMMA Transmit_Inv ==
  ASSUME SerialInv, NEW com \in COMPort, Transmit(com)
  PROVE  SerialInv'
<1>1. TypeOK /\ chip[com] \in Chip /\ chip[com].thr \in Seq(Bytes) /\ chip[com].thr # <<>>
  BY DEF SerialInv, TypeOK, Chip, Transmit
<1> DEFINE thr == chip[com].thr
<1>2. Head(thr) \in Bytes /\ Tail(thr) \in Seq(Bytes)
  BY <1>1
<1>3. chip'[com] = [chip[com] EXCEPT !.thr = Tail(thr)]
  BY <1>1 DEF Transmit, TypeOK
<1>4. /\ chip'[com] \in Chip
      /\ chip'[com].dlab = chip[com].dlab /\ chip'[com].loop = chip[com].loop
      /\ chip'[com].frame = chip[com].frame /\ chip'[com].low = chip[com].low
      /\ chip'[com].high = chip[com].high /\ chip'[com].thr = Tail(thr)
  BY <1>1, <1>2, <1>3 DEF Chip
<1>5. \A c \in COMPort : c # com => chip'[c] = chip[c]
  BY <1>1 DEF Transmit, TypeOK
<1>6. UNCHANGED <<port, baud, initialized, works, tested, str, sent>>
  BY DEF Transmit, object
<1>7. TypeOK'
  <2>1. chip' \in [COMPort -> Chip]
    <3>1. chip' = [c \in COMPort |-> chip'[c]]
      BY <1>1 DEF Transmit, TypeOK
    <3>2. \A c \in COMPort : chip'[c] \in Chip
      BY <1>1, <1>4, <1>5 DEF TypeOK
    <3> QED BY <3>1, <3>2
  <2>2. line' \in Seq(Bytes)
    BY <1>1, <1>2 DEF TypeOK, Transmit
  <2> QED BY <1>1, <1>6, <2>1, <2>2 DEF TypeOK
<1>8. (str # <<>> => initialized)' /\ (\A c \in COMPort : ~chip[c].dlab)'
  BY <1>4, <1>5, <1>6 DEF SerialInv
<1>9. TestedIsSetUp'
  <2>1. ASSUME initialized
        PROVE  SetUp(port, baud) => SetUp(port, baud)'
    <3>1. port \in COMPort
      BY <1>1, <2>1 DEF TypeOK
    <3>2. /\ chip'[port].dlab = chip[port].dlab /\ chip'[port].loop = chip[port].loop
          /\ chip'[port].frame = chip[port].frame /\ chip'[port].low = chip[port].low
          /\ chip'[port].high = chip[port].high
      BY <1>4, <1>5, <3>1, Zenon
    <3> QED BY <1>6, <3>2, Zenon DEF SetUp
  <2> QED BY <1>6, <2>1, Zenon DEF SerialInv, TestedIsSetUp
<1>10. LineInOrder'
  <2> SUFFICES ASSUME initialized, works[port], tested[port] = "passed"
               PROVE  line' \o chip'[port].thr = sent
    BY <1>6 DEF LineInOrder
  <2>1. line \o chip[port].thr = sent /\ port \in COMPort /\ line \in Seq(Bytes)
    BY <1>1 DEF SerialInv, LineInOrder, TypeOK
  <2>2. CASE com = port
    <3>1. line' = Append(line, Head(thr)) /\ chip'[port].thr = Tail(thr)
      BY <1>4, <2>2 DEF Transmit
    <3> HIDE DEF thr
    <3>2. thr \in Seq(Bytes) /\ thr # <<>> /\ line \o thr = sent
      BY <1>1, <2>1, <2>2, Zenon DEF thr
    <3>3. Append(line, Head(thr)) \o Tail(thr) = line \o thr
      <4>1. Head(thr) \in Bytes /\ Tail(thr) \in Seq(Bytes) /\ <<Head(thr)>> \in Seq(Bytes)
        BY <3>2
      <4>2. Append(line, Head(thr)) = line \o <<Head(thr)>>
        BY <2>1, <4>1, AppendIsConcat
      <4>3. (line \o <<Head(thr)>>) \o Tail(thr) = line \o (<<Head(thr)>> \o Tail(thr))
        BY <2>1, <4>1, ConcatAssociative
      <4>4. <<Head(thr)>> \o Tail(thr) = thr
        BY <3>2
      <4> QED BY <4>2, <4>3, <4>4
    <3> QED BY <3>1, <3>2, <3>3
  <2>3. CASE com # port
    BY <1>5, <2>1, <2>3 DEF Transmit
  <2> QED BY <2>2, <2>3
<1> QED BY <1>7, <1>8, <1>9, <1>10 DEF SerialInv

LEMMA Break_Inv ==
  ASSUME SerialInv, NEW com \in COMPort, Break(com)
  PROVE  SerialInv'
<1>1. UNCHANGED <<port, baud, initialized, chip, tested, str, sent, line>>
  BY DEF Break, object
<1>2. works' = [works EXCEPT ![com] = FALSE] /\ works \in [COMPort -> BOOLEAN]
  BY DEF Break, SerialInv, TypeOK
<1>3. works' \in [COMPort -> BOOLEAN]
  BY <1>2
<1>4. TypeOK'
  BY <1>1, <1>3 DEF SerialInv, TypeOK
<1>5. initialized /\ works'[port] => works[port]
  BY <1>2 DEF SerialInv, TypeOK
<1> QED BY <1>1, <1>4, <1>5 DEF SerialInv, TestedIsSetUp, LineInOrder, SetUp

LEMMA Next_Inv == SerialInv /\ [Next]_vars => SerialInv'
<1> SUFFICES ASSUME SerialInv, [Next]_vars PROVE SerialInv'
  OBVIOUS
<1>1. ASSUME NEW com \in COMPort, NEW rate \in BaudRate, InitFails(com, rate)
      PROVE  SerialInv'
  BY <1>1, InitFails_Inv
<1>2. ASSUME NEW com \in COMPort, NEW rate \in BaudRate, InitSucceeds(com, rate)
      PROVE  SerialInv'
  BY <1>2, InitSucceeds_Inv
<1>3. ASSUME NEW s \in BoundedSeq(Bytes, MaxString - Len(sent)) \ {<<>>}, PrintString(s)
      PROVE  SerialInv'
  BY <1>3, PrintString_Inv
<1>4. CASE PrintChar
  BY <1>4, PrintChar_Inv
<1>5. ASSUME NEW com \in COMPort, Transmit(com)
      PROVE  SerialInv'
  BY <1>5, Transmit_Inv
<1>6. ASSUME NEW com \in COMPort, Break(com)
      PROVE  SerialInv'
  BY <1>6, Break_Inv
<1>7. CASE UNCHANGED vars
  BY <1>7 DEF vars, object, SerialInv, TypeOK, TestedIsSetUp, LineInOrder, SetUp
<1> QED BY <1>1, <1>2, <1>3, <1>4, <1>5, <1>6, <1>7 DEF Next

-----------------------------------------------------------------------------
(***************************************************************************)
(* Theorems.                                                               *)
(***************************************************************************)

\* The inductive invariant of the driver and its chips.
THEOREM SerialInvariance == Spec => []SerialInv
<1>1. Init => SerialInv
  BY Init_Inv
<1>2. SerialInv /\ [Next]_vars => SerialInv'
  BY Next_Inv
<1> QED BY <1>1, <1>2, PTL DEF Spec

\* After an Init that succeeds the chip of the object's port runs at the rate the
\* object reports, 8N1 and out of loopback, until the next Init of that port:
\* SerialPort::Init writes the divisor with DLAB on and the format with DLAB off.
THEOREM ReportedRateIsSet == Spec => []TestedIsSetUp
<1>1. SerialInv => TestedIsSetUp
  BY DEF SerialInv
<1> QED BY <1>1, SerialInvariance, PTL

\* What PrintString prints reaches the line in order and complete: PrintChar's poll
\* leaves the chip no byte to refuse.
THEOREM LineCarriesWhatIsPrinted == Spec => []LineInOrder
<1>1. SerialInv => LineInOrder
  BY DEF SerialInv
<1> QED BY <1>1, SerialInvariance, PTL
=============================================================================
