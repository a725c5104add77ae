----------------------------- MODULE LibcProofs ------------------------------
(***************************************************************************)
(* Theorems about the memory functions of libc, for a memory of any size,  *)
(* any contents and any sequence of calls.                                 *)
(***************************************************************************)
EXTENDS Libc, SequenceTheorems, WellFoundedInduction, TLAPS

-----------------------------------------------------------------------------
(***************************************************************************)
(* Loops.                                                                  *)
(***************************************************************************)

\* Induction, over a set.
LEMMA Induction ==
  ASSUME NEW S \in SUBSET Nat, 0 \in S, \A k \in Nat : k \in S => k + 1 \in S
  PROVE  \A k \in Nat : k \in S
<1> DEFINE Missing == Nat \ S
<1> SUFFICES ASSUME Missing # {} PROVE FALSE
  OBVIOUS
<1>1. PICK x \in Missing : \A y \in Missing : ~(<<y, x>> \in OpToRel(<, Nat))
  <2>1. Missing \in SUBSET Nat
    OBVIOUS
  <2> HIDE DEF Missing
  <2> QED BY <2>1, NatLessThanWellFounded, WFMin
<1>2. x \in Nat /\ x \notin S /\ x # 0
  BY <1>1
<1>3. x - 1 \in Nat /\ (x - 1) + 1 = x /\ x - 1 < x
  BY <1>2
<1>4. x - 1 \in Missing
  BY <1>2, <1>3
<1>5. <<x - 1, x>> \in OpToRel(<, Nat)
  <2>1. <<x - 1, x>> \in Nat \X Nat /\ <<x - 1, x>>[1] = x - 1 /\ <<x - 1, x>>[2] = x
    BY <1>2, <1>3
  <2> QED BY <1>3, <2>1, Zenon DEF OpToRel
<1> HIDE DEF Missing
<1> QED BY <1>1, <1>4, <1>5, Zenon

\* Two loops that start alike and whose rounds agree.
Alike(n, g, h) ==
  /\ g[0] = h[0]
  /\ \A k \in 0 .. (n - 1) : g[k] = h[k] => g[k + 1] = h[k + 1]

Equal(n, g, h) == \A k \in 0 .. n : g[k] = h[k]

LEMMA Agree ==
  ASSUME NEW n \in Nat, NEW g, NEW h, Alike(n, g, h)
  PROVE  Equal(n, g, h)
<1> DEFINE Same == {k \in Nat : k <= n => g[k] = h[k]}
<1>1. Same \in SUBSET Nat /\ 0 \in Same /\ \A k \in Nat : k \in Same => k + 1 \in Same
  BY DEF Alike
<1> HIDE DEF Same
<1>2. \A k \in Nat : k \in Same
  BY <1>1, Induction
<1> QED BY <1>2 DEF Same, Equal

-----------------------------------------------------------------------------
(***************************************************************************)
(* memcpy and memmove.                                                     *)
(***************************************************************************)

Memories == [Addresses -> 0 .. 255]

\* f is the memory after each round of Assign.
AssignRounds(f, m, dst, src, is) ==
  f = [k \in 0 .. Len(is) |->
         IF k = 0 THEN m
         ELSE [f[k - 1] EXCEPT ![dst + is[k]] = f[k - 1][src + is[k]]]]

LEMMA Assigned ==
  ASSUME NEW m, NEW dst, NEW src, NEW is, Len(is) \in Nat, NEW h,
         AssignRounds(h, m, dst, src, is)
  PROVE  Assign(m, dst, src, is) = h[Len(is)]
<1> DEFINE after == CHOOSE f : AssignRounds(f, m, dst, src, is)
           n == Len(is)
<1>1. AssignRounds(after, m, dst, src, is)
  BY Zenon
<1>2. Assign(m, dst, src, is) = after[n]
  BY DEF Assign, AssignRounds
<1>3. n \in Nat
  OBVIOUS
<1> HIDE DEF after
<1>4. \A k \in 0 .. n :
         after[k] = IF k = 0 THEN m
                    ELSE [after[k - 1] EXCEPT ![dst + is[k]] = after[k - 1][src + is[k]]]
  BY <1>1, Zenon DEF AssignRounds
<1>5. \A k \in 0 .. n :
         h[k] = IF k = 0 THEN m
                ELSE [h[k - 1] EXCEPT ![dst + is[k]] = h[k - 1][src + is[k]]]
  BY Zenon DEF AssignRounds
<1> HIDE DEF n
<1>6. after[0] = h[0]
  <2>1. 0 \in 0 .. n
    BY <1>3
  <2> QED BY <1>4, <1>5, <2>1, Zenon
<1>7. ASSUME NEW k \in 0 .. (n - 1), after[k] = h[k]
      PROVE  after[k + 1] = h[k + 1]
  <2>1. k + 1 \in 0 .. n /\ (k + 1) - 1 = k /\ k + 1 # 0
    BY <1>3
  <2>2. after[k + 1] = [after[k] EXCEPT ![dst + is[k + 1]] = after[k][src + is[k + 1]]]
    BY <1>4, <2>1
  <2>3. h[k + 1] = [h[k] EXCEPT ![dst + is[k + 1]] = h[k][src + is[k + 1]]]
    BY <1>5, <2>1
  <2> QED BY <1>7, <2>2, <2>3
<1>8. Equal(n, after, h)
  <2>1. \A k \in 0 .. (n - 1) : after[k] = h[k] => after[k + 1] = h[k + 1]
    BY <1>7
  <2>2. Alike(n, after, h)
    BY <1>6, <2>1, Zenon DEF Alike
  <2> QED BY <1>3, <2>2, Agree, Zenon
<1>9. after[n] = h[n]
  <2>1. n \in 0 .. n
    BY <1>3
  <2> QED BY <1>8, <2>1, Zenon DEF Equal
<1> QED BY <1>2, <1>9 DEF n

LEMMA Indices ==
  ASSUME NEW size \in Nat
  PROVE  /\ Len(Upward(size)) = size /\ \A k \in 1 .. size : Upward(size)[k] = k - 1
         /\ Len(Downward(size)) = size /\ \A k \in 1 .. size : Downward(size)[k] = size - k
<1>1. /\ \A k \in 1 .. size : Upward(size)[k] = k - 1
      /\ \A k \in 1 .. size : Downward(size)[k] = size - k
  BY DEF Upward, Downward
<1>2. Len(Upward(size)) = size
  BY DEF Upward
<1>3. Len(Downward(size)) = size
  BY DEF Downward
<1> QED BY <1>1, <1>2, <1>3

\* The memory m with the bytes of a + low .. a + high - 1 as those from b + low on.
Part(m, a, b, low, high) ==
  [p \in Addresses |-> IF p \in (a + low) .. (a + high - 1) THEN m[b + (p - a)] ELSE m[p]]

\* The memory p with byte b + i of m at a + i is q.
WithByte(p, m, a, b, i, q) == [p EXCEPT ![a + i] = m[b + i]] = q

\* One more byte at either end of what has been moved.
LEMMA PartGrows ==
  ASSUME NEW m \in Memories, NEW a \in Nat, NEW b \in Nat, NEW low \in Nat, NEW high \in Nat,
         low <= high, a + low \in Addresses
  PROVE  WithByte(Part(m, a, b, low + 1, high + 1), m, a, b, low, Part(m, a, b, low, high + 1))
<1>1. ASSUME NEW p \in Addresses
      PROVE  Part(m, a, b, low, high + 1)[p]
               = IF p = a + low THEN m[b + low] ELSE Part(m, a, b, low + 1, high + 1)[p]
  <2>1. p \in (a + low) .. (a + (high + 1) - 1)
           <=> p = a + low \/ p \in (a + (low + 1)) .. (a + (high + 1) - 1)
    BY LibcStringAssumption DEF Addresses
  <2>2. p = a + low => p \notin (a + (low + 1)) .. (a + (high + 1) - 1) /\ b + (p - a) = b + low
    OBVIOUS
  <2> QED BY <2>1, <2>2 DEF Part
<1> QED BY <1>1 DEF Part, WithByte

LEMMA PartGrowsUp ==
  ASSUME NEW m \in Memories, NEW a \in Nat, NEW b \in Nat, NEW high \in Nat,
         a + high \in Addresses
  PROVE  WithByte(Part(m, a, b, 0, high), m, a, b, high, Part(m, a, b, 0, high + 1))
<1>1. ASSUME NEW p \in Addresses
      PROVE  Part(m, a, b, 0, high + 1)[p]
               = IF p = a + high THEN m[b + high] ELSE Part(m, a, b, 0, high)[p]
  <2>1. p \in (a + 0) .. (a + (high + 1) - 1)
           <=> p = a + high \/ p \in (a + 0) .. (a + high - 1)
    BY LibcStringAssumption DEF Addresses
  <2>2. p = a + high => p \notin (a + 0) .. (a + high - 1) /\ b + (p - a) = b + high
    OBVIOUS
  <2> QED BY <2>1, <2>2 DEF Part
<1> QED BY <1>1 DEF Part, WithByte

LEMMA PartEmpty ==
  ASSUME NEW m \in Memories, NEW a \in Nat, NEW b \in Nat, NEW i \in Nat
  PROVE  Part(m, a, b, i, i) = m
<1>1. \A p \in Addresses : p \notin (a + i) .. (a + i - 1)
  BY LibcStringAssumption DEF Addresses
<1> QED BY <1>1 DEF Part, Memories

\* Going up is right when the destination is not above the source, or apart from it.
LEMMA MovesUpward ==
  ASSUME NEW m \in Memories, NEW a \in Addresses, NEW b \in Addresses,
         NEW size \in 0 .. MemSize, Fits(a, size), Fits(b, size),
         a <= b \/ Disjoint(a, b, size)
  PROVE  Assign(m, a, b, Upward(size)) = Part(m, a, b, 0, size)
<1> DEFINE h == [k \in 0 .. size |-> Part(m, a, b, 0, k)]
           is == Upward(size)
<1>1. a \in Nat /\ b \in Nat /\ size \in Nat /\ MemSize \in Nat
  BY LibcStringAssumption DEF Addresses
<1>2. a + size <= MemSize /\ b + size <= MemSize
  BY DEF Fits
<1>3. Len(is) = size /\ \A k \in 1 .. size : is[k] = k - 1
  BY <1>1, Indices
<1>4. \A k \in 0 .. size : h[k] = Part(m, a, b, 0, k)
  OBVIOUS
<1>5. h[0] = m
  BY <1>1, <1>4, PartEmpty
<1> HIDE DEF is
<1>6. ASSUME NEW k \in 1 .. size
      PROVE  h[k] = [h[k - 1] EXCEPT ![a + is[k]] = h[k - 1][b + is[k]]]
  <2>1. /\ k - 1 \in Nat /\ k - 1 \in 0 .. size /\ k \in 0 .. size /\ (k - 1) + 1 = k
        /\ a + (k - 1) \in Addresses /\ b + (k - 1) \in Addresses
    BY <1>1, <1>2 DEF Addresses
  <2>2. h[k - 1] = Part(m, a, b, 0, k - 1) /\ h[k] = Part(m, a, b, 0, k)
    BY <1>4, <2>1
  <2>3. Part(m, a, b, 0, k - 1)[b + (k - 1)] = m[b + (k - 1)]
    <3>1. b + (k - 1) \notin (a + 0) .. (a + (k - 1) - 1)
      BY <1>1, <1>2, <2>1 DEF Disjoint
    <3> QED BY <2>1, <3>1 DEF Part
  <2>4. [Part(m, a, b, 0, k - 1) EXCEPT ![a + (k - 1)] = m[b + (k - 1)]] = Part(m, a, b, 0, k)
    <3>1. WithByte(Part(m, a, b, 0, k - 1), m, a, b, k - 1, Part(m, a, b, 0, (k - 1) + 1))
      BY <1>1, <2>1, PartGrowsUp, Zenon
    <3> QED BY <2>1, <3>1, Zenon DEF WithByte
  <2>5. is[k] = k - 1
    BY <1>3
  <2> HIDE DEF h
  <2> QED BY <2>2, <2>3, <2>4, <2>5
<1>7. AssignRounds(h, m, a, b, is)
  <2>1. ASSUME NEW k \in 0 .. size
        PROVE  h[k] = IF k = 0 THEN m
                      ELSE [h[k - 1] EXCEPT ![a + is[k]] = h[k - 1][b + is[k]]]
    <3>1. k = 0 \/ (k \in 1 .. size /\ k # 0)
      BY <1>1
    <3> HIDE DEF h
    <3> QED BY <1>5, <1>6, <3>1, Zenon
  <2>2. h = [k \in 0 .. size |-> h[k]]
    OBVIOUS
  <2> HIDE DEF h
  <2> QED BY <1>3, <2>1, <2>2, Zenon DEF AssignRounds
<1> HIDE DEF h
<1>8. Assign(m, a, b, is) = h[Len(is)]
  <2>1. Len(is) \in Nat
    BY <1>1, <1>3
  <2> QED BY <1>7, <2>1, Assigned, Zenon
<1>9. h[size] = Part(m, a, b, 0, size)
  BY <1>1, <1>4
<1> QED BY <1>3, <1>8, <1>9 DEF is

\* Going down is right when the destination is not below the source.
LEMMA MovesDownward ==
  ASSUME NEW m \in Memories, NEW a \in Addresses, NEW b \in Addresses,
         NEW size \in 0 .. MemSize, Fits(a, size), Fits(b, size), b <= a
  PROVE  Assign(m, a, b, Downward(size)) = Part(m, a, b, 0, size)
<1> DEFINE h == [k \in 0 .. size |-> Part(m, a, b, size - k, size)]
           is == Downward(size)
<1>1. a \in Nat /\ b \in Nat /\ size \in Nat /\ MemSize \in Nat
  BY LibcStringAssumption DEF Addresses
<1>2. a + size <= MemSize /\ b + size <= MemSize
  BY DEF Fits
<1>3. Len(is) = size /\ \A k \in 1 .. size : is[k] = size - k
  BY <1>1, Indices
<1>4. \A k \in 0 .. size : h[k] = Part(m, a, b, size - k, size)
  OBVIOUS
<1>5. h[0] = m
  <2>1. h[0] = Part(m, a, b, size, size)
    BY <1>1, <1>4
  <2> QED BY <1>1, <2>1, PartEmpty
<1> HIDE DEF is
<1>6. ASSUME NEW k \in 1 .. size
      PROVE  h[k] = [h[k - 1] EXCEPT ![a + is[k]] = h[k - 1][b + is[k]]]
  <2> DEFINE i == size - k
  <2>1. /\ i \in Nat /\ i + 1 = size - (k - 1) /\ k - 1 \in 0 .. size /\ k \in 0 .. size
        /\ i + 1 <= size /\ i + 1 \in Nat
        /\ a + i \in Addresses /\ b + i \in Addresses
    BY <1>1, <1>2 DEF Addresses
  <2>2. h[k - 1] = Part(m, a, b, i + 1, size) /\ h[k] = Part(m, a, b, i, size)
    BY <1>4, <2>1
  <2>3. is[k] = i
    BY <1>3
  <2> HIDE DEF i, h
  <2>4. Part(m, a, b, i + 1, size)[b + i] = m[b + i]
    <3>1. b + i \notin (a + (i + 1)) .. (a + size - 1)
      BY <1>1, <2>1
    <3> QED BY <2>1, <3>1 DEF Part
  <2>5. [Part(m, a, b, i + 1, size) EXCEPT ![a + i] = m[b + i]] = Part(m, a, b, i, size)
    <3>1. size - 1 \in Nat /\ i <= size - 1 /\ (size - 1) + 1 = size
      BY <1>1, <2>1
    <3>2. WithByte(Part(m, a, b, i + 1, (size - 1) + 1), m, a, b, i,
                   Part(m, a, b, i, (size - 1) + 1))
      BY <1>1, <2>1, <3>1, PartGrows, Zenon
    <3> QED BY <3>1, <3>2, Zenon DEF WithByte
  <2> QED BY <2>2, <2>3, <2>4, <2>5
<1>7. AssignRounds(h, m, a, b, is)
  <2>1. ASSUME NEW k \in 0 .. size
        PROVE  h[k] = IF k = 0 THEN m
                      ELSE [h[k - 1] EXCEPT ![a + is[k]] = h[k - 1][b + is[k]]]
    <3>1. k = 0 \/ (k \in 1 .. size /\ k # 0)
      BY <1>1
    <3> HIDE DEF h
    <3> QED BY <1>5, <1>6, <3>1, Zenon
  <2>2. h = [k \in 0 .. size |-> h[k]]
    OBVIOUS
  <2> HIDE DEF h
  <2> QED BY <1>3, <2>1, <2>2, Zenon DEF AssignRounds
<1> HIDE DEF h
<1>8. Assign(m, a, b, is) = h[Len(is)]
  <2>1. Len(is) \in Nat
    BY <1>1, <1>3
  <2> QED BY <1>7, <2>1, Assigned, Zenon
<1>9. h[size] = Part(m, a, b, 0, size)
  BY <1>1, <1>4
<1> QED BY <1>3, <1>8, <1>9 DEF is

-----------------------------------------------------------------------------
(***************************************************************************)
(* memset.                                                                 *)
(***************************************************************************)

\* f is the memory after each round of Fill.
FillRounds(f, m, dst, byte, size) ==
  f = [k \in 0 .. size |->
         IF k = 0 THEN m ELSE [f[k - 1] EXCEPT ![dst + (k - 1)] = byte]]

LEMMA Filled ==
  ASSUME NEW m, NEW dst, NEW byte, NEW size \in Nat, NEW h,
         FillRounds(h, m, dst, byte, size)
  PROVE  Fill(m, dst, byte, size) = h[size]
<1> DEFINE after == CHOOSE f : FillRounds(f, m, dst, byte, size)
<1>1. FillRounds(after, m, dst, byte, size)
  BY Zenon
<1>2. Fill(m, dst, byte, size) = after[size]
  BY DEF Fill, FillRounds
<1> HIDE DEF after
<1>3. \A k \in 0 .. size :
         after[k] = IF k = 0 THEN m ELSE [after[k - 1] EXCEPT ![dst + (k - 1)] = byte]
  BY <1>1, Zenon DEF FillRounds
<1>4. \A k \in 0 .. size :
         h[k] = IF k = 0 THEN m ELSE [h[k - 1] EXCEPT ![dst + (k - 1)] = byte]
  BY Zenon DEF FillRounds
<1>5. after[0] = h[0]
  <2>1. 0 \in 0 .. size
    OBVIOUS
  <2> QED BY <1>3, <1>4, <2>1, Zenon
<1>6. ASSUME NEW k \in 0 .. (size - 1), after[k] = h[k]
      PROVE  after[k + 1] = h[k + 1]
  <2>1. k + 1 \in 0 .. size /\ (k + 1) - 1 = k /\ k + 1 # 0
    OBVIOUS
  <2>2. after[k + 1] = [after[k] EXCEPT ![dst + k] = byte]
    BY <1>3, <2>1
  <2>3. h[k + 1] = [h[k] EXCEPT ![dst + k] = byte]
    BY <1>4, <2>1
  <2> QED BY <1>6, <2>2, <2>3
<1>7. Equal(size, after, h)
  <2>1. \A k \in 0 .. (size - 1) : after[k] = h[k] => after[k + 1] = h[k + 1]
    BY <1>6
  <2>2. Alike(size, after, h)
    BY <1>5, <2>1, Zenon DEF Alike
  <2> QED BY <2>2, Agree, Zenon
<1>8. after[size] = h[size]
  <2>1. size \in 0 .. size
    OBVIOUS
  <2> QED BY <1>7, <2>1, Zenon DEF Equal
<1> QED BY <1>2, <1>8

\* The memory m with byte at a .. a + size - 1.
Set(m, a, byte, size) ==
  [p \in Addresses |-> IF p \in a .. (a + size - 1) THEN byte ELSE m[p]]

LEMMA FillsItsRange ==
  ASSUME NEW m \in Memories, NEW a \in Addresses, NEW byte,
         NEW size \in 0 .. MemSize, Fits(a, size)
  PROVE  Fill(m, a, byte, size) = Set(m, a, byte, size)
<1> DEFINE h == [k \in 0 .. size |-> Set(m, a, byte, k)]
<1>1. a \in Nat /\ size \in Nat /\ MemSize \in Nat /\ a + size <= MemSize
  BY LibcStringAssumption DEF Addresses, Fits
<1>2. \A k \in 0 .. size : h[k] = Set(m, a, byte, k)
  OBVIOUS
<1>3. h[0] = m
  <2>1. h[0] = Set(m, a, byte, 0)
    BY <1>1, <1>2
  <2>2. \A p \in Addresses : p \notin a .. (a + 0 - 1)
    BY <1>1 DEF Addresses
  <2> QED BY <2>1, <2>2 DEF Set, Memories
<1>4. ASSUME NEW k \in 1 .. size
      PROVE  h[k] = [h[k - 1] EXCEPT ![a + (k - 1)] = byte]
  <2>1. k - 1 \in Nat /\ k - 1 \in 0 .. size /\ k \in 0 .. size /\ a + (k - 1) \in Addresses
    BY <1>1 DEF Addresses
  <2>2. h[k - 1] = Set(m, a, byte, k - 1) /\ h[k] = Set(m, a, byte, k)
    BY <1>2, <2>1
  <2>3. ASSUME NEW p \in Addresses
        PROVE  Set(m, a, byte, k)[p]
                 = IF p = a + (k - 1) THEN byte ELSE Set(m, a, byte, k - 1)[p]
    <3>1. p \in a .. (a + k - 1) <=> p = a + (k - 1) \/ p \in a .. (a + (k - 1) - 1)
      BY <1>1 DEF Addresses
    <3> QED BY <3>1 DEF Set
  <2>4. [Set(m, a, byte, k - 1) EXCEPT ![a + (k - 1)] = byte] = Set(m, a, byte, k)
    BY <2>3 DEF Set
  <2> HIDE DEF h
  <2> QED BY <2>2, <2>4
<1>5. FillRounds(h, m, a, byte, size)
  <2>1. ASSUME NEW k \in 0 .. size
        PROVE  h[k] = IF k = 0 THEN m ELSE [h[k - 1] EXCEPT ![a + (k - 1)] = byte]
    <3>1. k = 0 \/ (k \in 1 .. size /\ k # 0)
      BY <1>1
    <3> HIDE DEF h
    <3> QED BY <1>3, <1>4, <3>1, Zenon
  <2>2. h = [k \in 0 .. size |-> h[k]]
    OBVIOUS
  <2> HIDE DEF h
  <2> QED BY <2>1, <2>2, Zenon DEF FillRounds
<1>6. h[size] = Set(m, a, byte, size)
  BY <1>1, <1>2
<1> HIDE DEF h
<1> QED BY <1>1, <1>5, <1>6, Filled, Zenon

-----------------------------------------------------------------------------
(***************************************************************************)
(* memcmp.                                                                 *)
(***************************************************************************)

Least(D) == CHOOSE k \in D : \A j \in D : k <= j

LEMMA LeastIsLeast ==
  ASSUME NEW D \in SUBSET Nat, D # {}
  PROVE  Least(D) \in D /\ \A j \in D : Least(D) <= j
<1>1. PICK x \in D : \A y \in D : ~(<<y, x>> \in OpToRel(<, Nat))
  BY NatLessThanWellFounded, WFMin
<1>2. \A y \in D : x <= y
  <2> SUFFICES ASSUME NEW y \in D, y < x PROVE FALSE
    OBVIOUS
  <2>1. <<y, x>> \in Nat \X Nat /\ <<y, x>>[1] = y /\ <<y, x>>[2] = x
    OBVIOUS
  <2>2. <<y, x>> \in OpToRel(<, Nat)
    BY <2>1, Zenon DEF OpToRel
  <2> QED BY <1>1, <2>2, Zenon
<1> QED BY <1>2, Zenon DEF Least

LEMMA LeastIs ==
  ASSUME NEW D \in SUBSET Nat, NEW k \in D, \A j \in D : k <= j
  PROVE  Least(D) = k
<1>1. Least(D) \in D /\ \A j \in D : Least(D) <= j
  BY LeastIsLeast, Zenon
<1>2. Least(D) \in Nat /\ Least(D) <= k /\ k <= Least(D)
  BY <1>1, Zenon
<1> QED BY <1>2

\* Where the two ranges differ.
Differing(a, b, size) == {i \in 0 .. (size - 1) : mem[a + i] # mem[b + i]}

\* -1, 0 or 1 by the first byte in which they do.
Order(a, b, size) ==
  IF Differing(a, b, size) = {} THEN 0
  ELSE IF mem[a + Least(Differing(a, b, size))] < mem[b + Least(Differing(a, b, size))]
       THEN -1 ELSE 1

\* f is the answer after each round of Compared.
CompareRounds(f, a, b, size) ==
  f = [k \in 0 .. size |->
         IF k = 0 THEN 0
         ELSE IF f[k - 1] # 0 THEN f[k - 1]
         ELSE IF Less(mem[a + (k - 1)], mem[b + (k - 1)]) THEN -1
         ELSE IF Less(mem[b + (k - 1)], mem[a + (k - 1)]) THEN 1 ELSE 0]

LEMMA ComparedByRounds ==
  ASSUME NEW a, NEW b, NEW size \in Nat, NEW h, CompareRounds(h, a, b, size)
  PROVE  Compared(a, b, size) = h[size]
<1> DEFINE after == CHOOSE f : CompareRounds(f, a, b, size)
           Round(x, k) == IF x # 0 THEN x
                          ELSE IF Less(mem[a + (k - 1)], mem[b + (k - 1)]) THEN -1
                          ELSE IF Less(mem[b + (k - 1)], mem[a + (k - 1)]) THEN 1 ELSE 0
<1>1. CompareRounds(after, a, b, size)
  BY Zenon
<1>2. Compared(a, b, size) = after[size]
  BY DEF Compared, CompareRounds
<1> HIDE DEF after
<1>3. \A k \in 0 .. size : after[k] = IF k = 0 THEN 0 ELSE Round(after[k - 1], k)
  BY <1>1, Zenon DEF CompareRounds
<1>4. \A k \in 0 .. size : h[k] = IF k = 0 THEN 0 ELSE Round(h[k - 1], k)
  BY Zenon DEF CompareRounds
<1> HIDE DEF Round
<1>5. after[0] = h[0]
  <2>1. 0 \in 0 .. size
    OBVIOUS
  <2> QED BY <1>3, <1>4, <2>1, Zenon
<1>6. ASSUME NEW k \in 0 .. (size - 1), after[k] = h[k]
      PROVE  after[k + 1] = h[k + 1]
  <2>1. k + 1 \in 0 .. size /\ (k + 1) - 1 = k /\ k + 1 # 0
    OBVIOUS
  <2> QED BY <1>3, <1>4, <1>6, <2>1, Zenon
<1>7. Equal(size, after, h)
  <2>1. \A k \in 0 .. (size - 1) : after[k] = h[k] => after[k + 1] = h[k + 1]
    BY <1>6
  <2>2. Alike(size, after, h)
    BY <1>5, <2>1, Zenon DEF Alike
  <2> QED BY <2>2, Agree, Zenon
<1>8. after[size] = h[size]
  <2>1. size \in 0 .. size
    OBVIOUS
  <2> QED BY <1>7, <2>1, Zenon DEF Equal
<1> QED BY <1>2, <1>8

LEMMA ComparesByFirstDifference ==
  ASSUME mem \in Memories, NEW a \in Addresses, NEW b \in Addresses,
         NEW size \in 0 .. MemSize, Fits(a, size), Fits(b, size)
  PROVE  Compared(a, b, size) = Order(a, b, size)
<1> DEFINE h == [k \in 0 .. size |-> Order(a, b, k)]
<1>1. /\ a \in Nat /\ b \in Nat /\ size \in Nat /\ MemSize \in Nat
      /\ a + size <= MemSize /\ b + size <= MemSize
  BY LibcStringAssumption DEF Addresses, Fits
<1>2. \A k \in 0 .. size : h[k] = Order(a, b, k)
  OBVIOUS
<1>3. h[0] = 0
  <2>1. Differing(a, b, 0) = {}
    BY DEF Differing
  <2> QED BY <1>1, <1>2, <2>1 DEF Order
<1>4. ASSUME NEW k \in 1 .. size
      PROVE  h[k] = IF h[k - 1] # 0 THEN h[k - 1]
                    ELSE IF Less(mem[a + (k - 1)], mem[b + (k - 1)]) THEN -1
                    ELSE IF Less(mem[b + (k - 1)], mem[a + (k - 1)]) THEN 1 ELSE 0
  <2> DEFINE before == Differing(a, b, k - 1)
             now == Differing(a, b, k)
  <2>1. /\ k - 1 \in Nat /\ k - 1 \in 0 .. size /\ k \in 0 .. size
        /\ a + (k - 1) \in Addresses /\ b + (k - 1) \in Addresses
    BY <1>1 DEF Addresses
  <2>2. h[k - 1] = Order(a, b, k - 1) /\ h[k] = Order(a, b, k)
    BY <1>2, <2>1
  <2>3. mem[a + (k - 1)] \in Int /\ mem[b + (k - 1)] \in Int
    BY <2>1 DEF Memories
  <2>4. before \in SUBSET Nat /\ now \in SUBSET Nat /\ \A j \in before : j < k - 1
    BY <2>1 DEF Differing
  <2>5. now = before \cup (IF mem[a + (k - 1)] # mem[b + (k - 1)] THEN {k - 1} ELSE {})
    <3>1. 0 .. (k - 1) = (0 .. (k - 1 - 1)) \cup {k - 1}
      BY <2>1
    <3> QED BY <3>1 DEF Differing
  <2>6. CASE before # {}
    <3>1. Least(before) \in before /\ \A j \in before : Least(before) <= j
      <4> HIDE DEF before
      <4> QED BY <2>4, <2>6, LeastIsLeast, Zenon
    <3>2. Least(before) \in now /\ \A j \in now : Least(before) <= j
      <4>1. Least(before) < k - 1 /\ Least(before) \in Nat
        BY <2>4, <3>1
      <4> HIDE DEF before, now
      <4> QED BY <2>1, <2>4, <2>5, <3>1, <4>1
    <3>3. Least(now) = Least(before)
      <4> HIDE DEF before, now
      <4> QED BY <2>4, <3>2, LeastIs, Zenon
    <3>4. now # {}
      BY <3>2
    <3>5. Order(a, b, k) = Order(a, b, k - 1)
      BY <2>6, <3>3, <3>4, Zenon DEF Order
    <3>6. Order(a, b, k - 1) # 0
      BY <2>6 DEF Order
    <3> QED BY <2>2, <3>5, <3>6, Zenon
  <2>7. CASE before = {}
    <3>1. h[k - 1] = 0
      BY <2>2, <2>7 DEF Order
    <3>2. CASE mem[a + (k - 1)] = mem[b + (k - 1)]
      <4>1. now = {}
        BY <2>5, <2>7, <3>2
      <4>2. Order(a, b, k) = 0
        BY <4>1 DEF Order
      <4>3. ~Less(mem[a + (k - 1)], mem[b + (k - 1)]) /\ ~Less(mem[b + (k - 1)], mem[a + (k - 1)])
        BY <2>3, <3>2 DEF Less
      <4> QED BY <2>2, <3>1, <4>2, <4>3, Zenon
    <3>3. CASE mem[a + (k - 1)] # mem[b + (k - 1)]
      <4>1. now = {k - 1}
        BY <2>5, <2>7, <3>3
      <4>2. Least(now) = k - 1
        <5> HIDE DEF now
        <5>1. k - 1 \in now /\ \A j \in now : k - 1 <= j
          BY <2>1, <4>1
        <5> QED BY <2>4, <5>1, LeastIs, Zenon
      <4>3. Order(a, b, k) = IF mem[a + (k - 1)] < mem[b + (k - 1)] THEN -1 ELSE 1
        <5>1. now # {}
          BY <4>1
        <5> QED BY <4>2, <5>1, Zenon DEF Order
      <4>4. /\ Less(mem[a + (k - 1)], mem[b + (k - 1)]) <=> mem[a + (k - 1)] < mem[b + (k - 1)]
            /\ ~Less(mem[a + (k - 1)], mem[b + (k - 1)])
                 => Less(mem[b + (k - 1)], mem[a + (k - 1)])
        BY <2>3, <3>3 DEF Less
      <4> QED BY <2>2, <3>1, <4>3, <4>4, Zenon
    <3> QED BY <3>2, <3>3
  <2> QED BY <2>6, <2>7
<1>5. CompareRounds(h, a, b, size)
  <2>1. ASSUME NEW k \in 0 .. size
        PROVE  h[k] = IF k = 0 THEN 0
                      ELSE IF h[k - 1] # 0 THEN h[k - 1]
                      ELSE IF Less(mem[a + (k - 1)], mem[b + (k - 1)]) THEN -1
                      ELSE IF Less(mem[b + (k - 1)], mem[a + (k - 1)]) THEN 1 ELSE 0
    <3>1. k = 0 \/ (k \in 1 .. size /\ k # 0)
      BY <1>1
    <3> HIDE DEF h
    <3> QED BY <1>3, <1>4, <3>1, Zenon
  <2>2. h = [k \in 0 .. size |-> h[k]]
    OBVIOUS
  <2> HIDE DEF h
  <2> QED BY <2>1, <2>2, Zenon DEF CompareRounds
<1>6. h[size] = Order(a, b, size)
  BY <1>1, <1>2
<1> HIDE DEF h
<1> QED BY <1>1, <1>5, <1>6, ComparedByRounds, Zenon

-----------------------------------------------------------------------------
(***************************************************************************)
(* Scans: strlen, and the run of ordinary characters in printf.            *)
(***************************************************************************)

\* f is, for each k, where a scan from k on meets Stop.
ScanRounds(f, Stop) == f = [k \in Nat |-> IF k \in Stop THEN k ELSE f[k + 1]]

From(Stop, k) == {z \in Stop : k <= z}

LEMMA ScanIsDefined ==
  ASSUME NEW Stop \in SUBSET Nat
  PROVE  \E f : ScanRounds(f, Stop)
<1> DEFINE h == [k \in Nat |-> IF From(Stop, k) = {} THEN 0 ELSE Least(From(Stop, k))]
<1>1. ASSUME NEW k \in Nat
      PROVE  h[k] = IF k \in Stop THEN k ELSE h[k + 1]
  <2>1. h[k] = IF From(Stop, k) = {} THEN 0 ELSE Least(From(Stop, k))
    BY Zenon
  <2>2. h[k + 1] = IF From(Stop, k + 1) = {} THEN 0 ELSE Least(From(Stop, k + 1))
    OBVIOUS
  <2> HIDE DEF h
  <2>0. \A z \in Stop : z \in Nat
    OBVIOUS
  <2>3. CASE k \notin Stop
    <3>1. From(Stop, k) = From(Stop, k + 1)
      <4>1. \A z \in Stop : k <= z <=> k + 1 <= z
        BY <2>0, <2>3
      <4> QED BY <4>1, Zenon DEF From
    <3> QED BY <2>1, <2>2, <2>3, <3>1, Zenon
  <2>4. CASE k \in Stop
    <3>1. /\ From(Stop, k) \in SUBSET Nat /\ k \in From(Stop, k)
          /\ \A j \in From(Stop, k) : k <= j
      <4>1. k <= k
        OBVIOUS
      <4> QED BY <2>0, <2>4, <4>1, Zenon DEF From
    <3>2. Least(From(Stop, k)) = k
      BY <3>1, LeastIs, Zenon
    <3> QED BY <2>1, <2>4, <3>1, <3>2, Zenon
  <2> QED BY <2>3, <2>4
<1>2. h = [k \in Nat |-> h[k]]
  OBVIOUS
<1> HIDE DEF h
<1>3. ScanRounds(h, Stop)
  BY <1>1, <1>2, Zenon DEF ScanRounds
<1> QED BY <1>3

LEMMA ScanStops ==
  ASSUME NEW Stop \in SUBSET Nat, NEW start \in Nat, From(Stop, start) # {},
         NEW len, ScanRounds(len, Stop)
  PROVE  len[start] = Least(From(Stop, start))
<1> DEFINE z == Least(From(Stop, start))
           n == z - start
<1>1. \A k \in Nat : len[k] = IF k \in Stop THEN k ELSE len[k + 1]
  BY Zenon DEF ScanRounds
<1>2. z \in From(Stop, start) /\ \A j \in From(Stop, start) : z <= j
  <2>1. From(Stop, start) \in SUBSET Nat
    BY DEF From
  <2> QED BY <2>1, LeastIsLeast, Zenon
<1> HIDE DEF z
<1>3. z \in Nat /\ z \in Stop /\ z >= start /\ n \in Nat
  BY <1>2 DEF From
<1> DEFINE back == [k \in 0 .. n |-> len[z - k]]
           found == [k \in 0 .. n |-> z]
<1>4. \A k \in 0 .. n : back[k] = len[z - k] /\ found[k] = z
  OBVIOUS
<1>5. back[0] = found[0]
  <2>1. 0 \in 0 .. n /\ z - 0 = z
    BY <1>3
  <2>2. back[0] = len[z] /\ found[0] = z
    BY <1>4, <2>1, Zenon
  <2>3. len[z] = z
    BY <1>1, <1>3, Zenon
  <2> QED BY <2>2, <2>3, Zenon
<1>6. ASSUME NEW k \in 0 .. (n - 1), back[k] = found[k]
      PROVE  back[k + 1] = found[k + 1]
  <2> DEFINE i == z - (k + 1)
  <2>1. /\ k \in 0 .. n /\ k + 1 \in 0 .. n /\ i \in Nat /\ i + 1 = z - k
        /\ i = z - (k + 1) /\ i >= start /\ ~(z <= i)
    BY <1>3
  <2>2. i \notin Stop
    BY <1>2, <2>1 DEF From
  <2> HIDE DEF i, back, found
  <2>3. len[i] = len[i + 1]
    BY <1>1, <2>1, <2>2, Zenon
  <2>4. back[k + 1] = len[i] /\ back[k] = len[i + 1] /\ found[k] = z /\ found[k + 1] = z
    BY <1>4, <2>1, Zenon
  <2> QED BY <1>6, <2>3, <2>4, Zenon
<1> HIDE DEF back, found
<1>7. Equal(n, back, found)
  <2>1. \A k \in 0 .. (n - 1) : back[k] = found[k] => back[k + 1] = found[k + 1]
    BY <1>6
  <2>2. Alike(n, back, found)
    BY <1>5, <2>1, Zenon DEF Alike
  <2> HIDE DEF n
  <2> QED BY <1>3, <2>2, Agree, Zenon
<1>8. len[start] = z
  <2>1. n \in 0 .. n /\ z - n = start
    BY <1>3
  <2> HIDE DEF n
  <2>2. back[n] = found[n]
    BY <1>7, <2>1, Zenon DEF Equal
  <2> QED BY <1>4, <2>1, <2>2, Zenon
<1> QED BY <1>8 DEF z

\* The distances from a at which there is a NUL.
Nuls(a) == {z \in Nat : mem[a + z] = 0}

LEMMA ScansToTheFirstNul ==
  ASSUME NEW a, Nuls(a) # {}
  PROVE  Scanned(a) = Least(Nuls(a))
<1> DEFINE Rounds(f) == f = [k \in Nat |-> IF mem[a + k] # 0 THEN f[k + 1] ELSE k]
           len == CHOOSE f : Rounds(f)
<1>1. ASSUME NEW f
      PROVE  Rounds(f) <=> ScanRounds(f, Nuls(a))
  <2>1. \A k \in Nat : k \in Nuls(a) <=> mem[a + k] = 0
    BY DEF Nuls
  <2>2. [k \in Nat |-> IF mem[a + k] # 0 THEN f[k + 1] ELSE k]
          = [k \in Nat |-> IF k \in Nuls(a) THEN k ELSE f[k + 1]]
    BY <2>1
  <2> QED BY <2>2, Zenon DEF ScanRounds
<1>2. Nuls(a) \in SUBSET Nat
  BY DEF Nuls
<1>3. Rounds(len)
  <2>1. \E f : Rounds(f)
    <3> HIDE DEF Rounds
    <3> QED BY <1>1, <1>2, ScanIsDefined, Zenon
  <2> QED BY <2>1, Zenon
<1>4. Scanned(a) = len[0]
  BY DEF Scanned
<1> HIDE DEF len, Rounds
<1>5. From(Nuls(a), 0) = Nuls(a)
  BY DEF From, Nuls
<1>6. len[0] = Least(From(Nuls(a), 0))
  <2>1. ScanRounds(len, Nuls(a)) /\ From(Nuls(a), 0) # {} /\ 0 \in Nat
    BY <1>1, <1>3, <1>5
  <2> QED BY <1>2, <2>1, ScanStops, Zenon
<1> QED BY <1>4, <1>5, <1>6

-----------------------------------------------------------------------------
(***************************************************************************)
(* printf: what a format stands for.                                       *)
(***************************************************************************)

\* g is the states of a loop of n rounds, each of which takes a state of S to the next.
Runs(g, n, S, start, round) ==
  /\ g \in [0 .. n -> S]
  /\ g[0] = start
  /\ \A k \in 1 .. n : g[k] = round[k][g[k - 1]]

LEMMA Loop ==
  ASSUME NEW n \in Nat, NEW S, NEW start \in S, NEW round \in [1 .. n -> [S -> S]]
  PROVE  \E g : Runs(g, n, S, start, round)
<1> DEFINE Done == {m \in Nat : m <= n =>
                      \E g \in [0 .. m -> S] :
                         g[0] = start /\ \A k \in 1 .. m : g[k] = round[k][g[k - 1]]}
<1>1. 0 \in Done
  <2> DEFINE g == [k \in 0 .. 0 |-> start]
  <2>1. g \in [0 .. 0 -> S] /\ g[0] = start /\ \A k \in 1 .. 0 : g[k] = round[k][g[k - 1]]
    OBVIOUS
  <2> QED BY <2>1
<1>2. ASSUME NEW m \in Nat, m \in Done
      PROVE  m + 1 \in Done
  <2> SUFFICES ASSUME m + 1 <= n
               PROVE  \E h \in [0 .. (m + 1) -> S] :
                         h[0] = start /\ \A k \in 1 .. (m + 1) : h[k] = round[k][h[k - 1]]
    OBVIOUS
  <2>1. PICK g \in [0 .. m -> S] :
           g[0] = start /\ \A k \in 1 .. m : g[k] = round[k][g[k - 1]]
    BY <1>2
  <2> DEFINE h == [k \in 0 .. (m + 1) |-> IF k <= m THEN g[k] ELSE round[m + 1][g[m]]]
  <2>2. m + 1 \in 1 .. n /\ m \in 0 .. m
    OBVIOUS
  <2>3. round[m + 1] \in [S -> S] /\ g[m] \in S
    BY <2>2
  <2>4. round[m + 1][g[m]] \in S
    BY <2>3
  <2>5. h \in [0 .. (m + 1) -> S]
    BY <2>4
  <2>6. h[0] = start
    BY <2>1
  <2>7. ASSUME NEW k \in 1 .. (m + 1)
        PROVE  h[k] = round[k][h[k - 1]]
    <3>1. CASE k <= m
      BY <2>1, <3>1
    <3>2. CASE k = m + 1
      <4>1. h[k] = round[m + 1][g[m]] /\ h[k - 1] = g[m]
        BY <3>2
      <4> HIDE DEF h
      <4> QED BY <3>2, <4>1
    <3> QED BY <3>1, <3>2
  <2> HIDE DEF h
  <2> QED BY <2>5, <2>6, <2>7
<1>3. Done \in SUBSET Nat
  OBVIOUS
<1> HIDE DEF Done
<1>4. n \in Done
  BY <1>1, <1>2, <1>3, Induction
<1> QED BY <1>4 DEF Done, Runs

\* A property of one place that each place hands to the next.
Throughout(g, low, high, v) == \A k \in low .. high : g[k] = v

LEMMA Spreads ==
  ASSUME NEW g, NEW low \in Nat, NEW high \in Nat, NEW v, g[low] = v,
         \A k \in low .. (high - 1) : g[k] = v => g[k + 1] = v
  PROVE  Throughout(g, low, high, v)
<1> DEFINE Same == {k \in Nat : low + k <= high => g[low + k] = v}
<1>1. 0 \in Same
  OBVIOUS
<1>2. ASSUME NEW k \in Nat, k \in Same
      PROVE  k + 1 \in Same
  <2> SUFFICES ASSUME low + (k + 1) <= high PROVE g[low + (k + 1)] = v
    OBVIOUS
  <2>1. low + k \in low .. (high - 1) /\ low + k <= high /\ (low + k) + 1 = low + (k + 1)
    OBVIOUS
  <2>2. g[low + k] = v
    BY <1>2, <2>1
  <2> QED BY <2>1, <2>2
<1>3. Same \in SUBSET Nat
  OBVIOUS
<1>4. \A k \in Nat : k \in Same
  <2> HIDE DEF Same
  <2> QED BY <1>1, <1>2, <1>3, Induction
<1>5. ASSUME NEW k \in low .. high PROVE g[k] = v
  <2>1. k - low \in Nat /\ low + (k - low) = k /\ k <= high
    OBVIOUS
  <2>2. k - low \in Same
    BY <1>4, <2>1
  <2> QED BY <2>1, <2>2
<1> QED BY <1>5 DEF Throughout

Roles == {"none", "rest", "second", "char", "%%", "c", "s"}

RoleFollows(f) ==
  /\ Role(f)[0] = "none"
  /\ \A k \in 1 .. Len(f) : Role(f)[k] = NextRole(f, k, Role(f)[k - 1])
  /\ \A k \in 0 .. Len(f) : Role(f)[k] \in Roles

LEMMA RoleIs ==
  ASSUME NEW f, Len(f) \in Nat
  PROVE  RoleFollows(f)
<1> DEFINE n == Len(f)
           Rounds(g) == g = [k \in 0 .. n |-> IF k = 0 THEN "none" ELSE NextRole(f, k, g[k - 1])]
           round == [k \in 1 .. n |-> [r \in Roles |-> NextRole(f, k, r)]]
<1>0. ASSUME NEW k, NEW r PROVE NextRole(f, k, r) \in Roles
  BY DEF NextRole, Roles
<1>1. n \in Nat
  OBVIOUS
<1>2. Role(f) = CHOOSE g : Rounds(g)
  BY DEF Role
<1>3. round \in [1 .. n -> [Roles -> Roles]]
  BY <1>0
<1>4. \A k \in 1 .. n, r \in Roles : round[k][r] = NextRole(f, k, r)
  OBVIOUS
<1> HIDE DEF n, round
<1>5. "none" \in Roles
  BY DEF Roles
<1>6. PICK g : Runs(g, n, Roles, "none", round)
  BY <1>1, <1>3, <1>5, Loop, Zenon
<1>7. g \in [0 .. n -> Roles] /\ g[0] = "none" /\ \A k \in 1 .. n : g[k] = round[k][g[k - 1]]
  BY <1>6, Zenon DEF Runs
<1>8. ASSUME NEW k \in 0 .. n
      PROVE  g[k] = IF k = 0 THEN "none" ELSE NextRole(f, k, g[k - 1])
  <2>1. CASE k = 0
    BY <1>7, <2>1
  <2>2. CASE k # 0
    <3>1. k \in 1 .. n /\ k - 1 \in 0 .. n
      BY <1>1, <2>2
    <3>2. g[k - 1] \in Roles
      BY <1>7, <3>1
    <3> QED BY <1>4, <1>7, <2>2, <3>1, <3>2
  <2> QED BY <2>1, <2>2
<1>9. Rounds(g)
  <2>1. g = [k \in 0 .. n |-> g[k]]
    BY <1>7
  <2> QED BY <1>8, <2>1, Zenon
<1>10. Rounds(Role(f))
  BY <1>2, <1>9, Zenon
<1>11. \A k \in 0 .. n :
          Role(f)[k] = IF k = 0 THEN "none" ELSE NextRole(f, k, Role(f)[k - 1])
  BY <1>10, Zenon
<1> HIDE DEF Rounds
<1>12. Role(f)[0] = "none"
  BY <1>1, <1>11
<1>13. \A k \in 1 .. n : Role(f)[k] = NextRole(f, k, Role(f)[k - 1])
  <2>1. \A k \in 1 .. n : k \in 0 .. n /\ k # 0
    BY <1>1
  <2> QED BY <1>11, <2>1, Zenon
<1>14. \A k \in 0 .. n : Role(f)[k] \in Roles
  BY <1>0, <1>5, <1>11, Zenon
<1> QED BY <1>12, <1>13, <1>14, Zenon DEF RoleFollows, n

TakenFollows(f) ==
  /\ Taken(f)[0] = 0
  /\ \A k \in 1 .. Len(f) :
       Taken(f)[k] = Taken(f)[k - 1] + (IF Role(f)[k] \in {"c", "s"} THEN 1 ELSE 0)
  /\ \A k \in 0 .. Len(f) : Taken(f)[k] \in Nat

LEMMA TakenIs ==
  ASSUME NEW f, Len(f) \in Nat
  PROVE  TakenFollows(f)
<1> DEFINE n == Len(f)
           New(k) == IF Role(f)[k] \in {"c", "s"} THEN 1 ELSE 0
           Rounds(g) == g = [k \in 0 .. n |-> IF k = 0 THEN 0 ELSE g[k - 1] + New(k)]
           round == [k \in 1 .. n |-> [r \in Nat |-> r + New(k)]]
<1>0. ASSUME NEW k PROVE New(k) \in Nat
  OBVIOUS
<1>1. n \in Nat
  OBVIOUS
<1>2. Taken(f) = CHOOSE g : Rounds(g)
  BY DEF Taken
<1> HIDE DEF New
<1>3. round \in [1 .. n -> [Nat -> Nat]]
  BY <1>0
<1>4. \A k \in 1 .. n, r \in Nat : round[k][r] = r + New(k)
  OBVIOUS
<1> HIDE DEF n, round
<1>5. 0 \in Nat
  OBVIOUS
<1>6. PICK g : Runs(g, n, Nat, 0, round)
  BY <1>1, <1>3, <1>5, Loop, Zenon
<1>7. g \in [0 .. n -> Nat] /\ g[0] = 0 /\ \A k \in 1 .. n : g[k] = round[k][g[k - 1]]
  BY <1>6, Zenon DEF Runs
<1>8. ASSUME NEW k \in 0 .. n
      PROVE  g[k] = IF k = 0 THEN 0 ELSE g[k - 1] + New(k)
  <2>1. CASE k = 0
    BY <1>7, <2>1
  <2>2. CASE k # 0
    <3>1. k \in 1 .. n /\ k - 1 \in 0 .. n
      BY <1>1, <2>2
    <3>2. g[k - 1] \in Nat
      BY <1>7, <3>1
    <3> QED BY <1>4, <1>7, <2>2, <3>1, <3>2, Zenon
  <2> QED BY <2>1, <2>2
<1>9. Rounds(g)
  <2>1. g = [k \in 0 .. n |-> g[k]]
    BY <1>7
  <2> QED BY <1>8, <2>1, Zenon
<1>10. Rounds(Taken(f))
  BY <1>2, <1>9, Zenon
<1>11. \A k \in 0 .. n :
          Taken(f)[k] = IF k = 0 THEN 0 ELSE Taken(f)[k - 1] + New(k)
  BY <1>10, Zenon
<1> HIDE DEF Rounds
<1>12. Taken(f)[0] = 0
  BY <1>1, <1>11
<1>13. \A k \in 1 .. n : Taken(f)[k] = Taken(f)[k - 1] + New(k)
  <2>1. \A k \in 1 .. n : k \in 0 .. n /\ k # 0
    BY <1>1
  <2> QED BY <1>11, <2>1, Zenon
<1>14. \A k \in 0 .. n : Taken(f)[k] \in Nat
  <2> DEFINE Typed == {k \in Nat : k <= n => Taken(f)[k] \in Nat}
  <2>1. 0 \in Typed
    BY <1>12
  <2>2. ASSUME NEW k \in Nat, k \in Typed PROVE k + 1 \in Typed
    <3> SUFFICES ASSUME k + 1 <= n PROVE Taken(f)[k + 1] \in Nat
      OBVIOUS
    <3>1. k + 1 \in 1 .. n /\ (k + 1) - 1 = k /\ k <= n
      BY <1>1
    <3>2. Taken(f)[k] \in Nat
      BY <2>2, <3>1
    <3>3. Taken(f)[k + 1] = Taken(f)[k] + New(k + 1)
      BY <1>13, <3>1
    <3> QED BY <1>0, <3>2, <3>3
  <2>3. Typed \in SUBSET Nat
    OBVIOUS
  <2>4. \A k \in Nat : k \in Typed
    <3> HIDE DEF Typed
    <3> QED BY <2>1, <2>2, <2>3, Induction
  <2> QED BY <1>1, <2>4
<1> QED BY <1>12, <1>13, <1>14, Zenon DEF TakenFollows, n, New

\* What is counted so far is never more than what is counted in all.
LEMMA TakenGrows ==
  ASSUME NEW f, Len(f) \in Nat, NEW k \in 0 .. Len(f)
  PROVE  Taken(f)[k] <= Taken(f)[Len(f)]
<1> DEFINE n == Len(f)
           Reached == {m \in Nat : k + m <= n => Taken(f)[k] <= Taken(f)[k + m]}
<1>1. TakenFollows(f)
  BY TakenIs, Zenon
<1>2. /\ \A j \in 1 .. n :
           Taken(f)[j] = Taken(f)[j - 1] + (IF Role(f)[j] \in {"c", "s"} THEN 1 ELSE 0)
      /\ \A j \in 0 .. n : Taken(f)[j] \in Nat
  BY <1>1, Zenon DEF TakenFollows
<1>3. n \in Nat
  OBVIOUS
<1> HIDE DEF n
<1>4. 0 \in Reached
  BY <1>2, <1>3
<1>5. ASSUME NEW m \in Nat, m \in Reached PROVE m + 1 \in Reached
  <2> SUFFICES ASSUME k + (m + 1) <= n PROVE Taken(f)[k] <= Taken(f)[k + (m + 1)]
    OBVIOUS
  <2>1. /\ k + (m + 1) \in 1 .. n /\ (k + (m + 1)) - 1 = k + m /\ k + m \in 0 .. n
        /\ k + m <= n /\ k \in 0 .. n
    BY <1>3 DEF n
  <2>2. /\ Taken(f)[k] \in Nat /\ Taken(f)[k + m] \in Nat
        /\ Taken(f)[k] <= Taken(f)[k + m]
    BY <1>2, <1>5, <2>1
  <2>3. Taken(f)[k + (m + 1)]
          = Taken(f)[k + m] + (IF Role(f)[k + (m + 1)] \in {"c", "s"} THEN 1 ELSE 0)
    BY <1>2, <2>1
  <2> QED BY <2>2, <2>3
<1>6. Reached \in SUBSET Nat
  OBVIOUS
<1>7. \A m \in Nat : m \in Reached
  <2> HIDE DEF Reached
  <2> QED BY <1>4, <1>5, <1>6, Induction
<1>8. n - k \in Nat /\ k + (n - k) = n
  BY <1>3 DEF n
<1>9. n - k \in Reached
  BY <1>7, <1>8
<1> QED BY <1>3, <1>8, <1>9 DEF n

\* STRING, with the characters named that the formats of puts and abort are made of:
\* the provers do not place a literal in STRING.
Characters == STRING \cup {"%", "s", "newline", "kernel: panic: abort()"}

\* a has an argument for each conversion of f.
Suits(f, a) ==
  /\ f \in Seq(Characters)
  /\ a \in Seq(Seq(Characters))
  /\ Len(a) = Taken(f)[Len(f)]

TextFollows(f, a) ==
  /\ TextUpTo(f, a)[0] = <<>>
  /\ \A k \in 1 .. Len(f) : TextUpTo(f, a)[k] = TextUpTo(f, a)[k - 1] \o Piece(f, a, k)
  /\ \A k \in 0 .. Len(f) : TextUpTo(f, a)[k] \in Seq(Characters)

LEMMA PieceType ==
  ASSUME NEW f, NEW a, Suits(f, a), NEW k \in 1 .. Len(f)
  PROVE  Piece(f, a, k) \in Seq(Characters)
<1>1. Len(f) \in Nat /\ f[k] \in Characters
  BY DEF Suits
<1>2. CASE Role(f)[k] \in {"char", "rest"}
  <2>1. Piece(f, a, k) = <<f[k]>>
    BY <1>2 DEF Piece
  <2> QED BY <1>1, <2>1
<1>3. CASE Role(f)[k] \in {"%%", "second"}
  <2>1. Piece(f, a, k) = <<>>
    BY <1>3 DEF Piece
  <2> QED BY <2>1
<1>4. CASE Role(f)[k] \notin {"char", "rest", "%%", "second"}
  <2>1. Piece(f, a, k) = a[Taken(f)[k]]
    BY <1>4 DEF Piece
  <2>2. Role(f)[k] \in {"c", "s"}
    <3>1. RoleFollows(f)
      BY <1>1, RoleIs, Zenon
    <3>2. Role(f)[k] \in Roles /\ Role(f)[k] = NextRole(f, k, Role(f)[k - 1])
      BY <1>1, <3>1 DEF RoleFollows
    <3>3. NextRole(f, k, Role(f)[k - 1]) # "none"
      BY DEF NextRole
    <3> QED BY <1>4, <3>2, <3>3 DEF Roles
  <2>3. Taken(f)[k] \in 1 .. Len(a)
    <3>1. TakenFollows(f)
      BY <1>1, TakenIs, Zenon
    <3>2. Taken(f)[k] = Taken(f)[k - 1] + 1 /\ Taken(f)[k - 1] \in Nat /\ Taken(f)[k] \in Nat
      BY <1>1, <2>2, <3>1 DEF TakenFollows
    <3>3. k \in 0 .. Len(f)
      BY <1>1
    <3>4. Taken(f)[k] <= Taken(f)[Len(f)]
      BY <1>1, <3>3, TakenGrows, Zenon
    <3>5. Len(a) = Taken(f)[Len(f)] /\ Len(a) \in Nat
      BY DEF Suits
    <3> QED BY <3>2, <3>4, <3>5
  <2>4. a \in Seq(Seq(Characters))
    BY DEF Suits
  <2> QED BY <2>1, <2>3, <2>4, ElementOfSeq, Zenon
<1> QED BY <1>2, <1>3, <1>4

LEMMA TextIs ==
  ASSUME NEW f, NEW a, Suits(f, a)
  PROVE  TextFollows(f, a)
<1> DEFINE n == Len(f)
           T == Seq(Characters)
           New(k) == Piece(f, a, k)
           Rounds(g) == g = [k \in 0 .. n |-> IF k = 0 THEN <<>> ELSE g[k - 1] \o New(k)]
           round == [k \in 1 .. n |-> [r \in T |-> r \o New(k)]]
<1>0. \A k \in 1 .. n : New(k) \in T
  BY PieceType
<1>1. n \in Nat
  BY DEF Suits
<1>2. TextUpTo(f, a) = CHOOSE g : Rounds(g)
  BY DEF TextUpTo
<1>3. <<>> \in T /\ \A s, t \in T : s \o t \in T
  OBVIOUS
<1> HIDE DEF New, T
<1>4. round \in [1 .. n -> [T -> T]]
  BY <1>0, <1>3
<1>5. \A k \in 1 .. n, r \in T : round[k][r] = r \o New(k)
  OBVIOUS
<1> HIDE DEF n, round
<1>6. PICK g : Runs(g, n, T, <<>>, round)
  BY <1>1, <1>3, <1>4, Loop, Zenon
<1>7. g \in [0 .. n -> T] /\ g[0] = <<>> /\ \A k \in 1 .. n : g[k] = round[k][g[k - 1]]
  BY <1>6, Zenon DEF Runs
<1>8. ASSUME NEW k \in 0 .. n
      PROVE  g[k] = IF k = 0 THEN <<>> ELSE g[k - 1] \o New(k)
  <2>1. CASE k = 0
    BY <1>7, <2>1
  <2>2. CASE k # 0
    <3>1. k \in 1 .. n /\ k - 1 \in 0 .. n
      BY <1>1, <2>2
    <3>2. g[k - 1] \in T
      BY <1>7, <3>1
    <3> QED BY <1>5, <1>7, <2>2, <3>1, <3>2, Zenon
  <2> QED BY <2>1, <2>2
<1>9. Rounds(g)
  <2>1. g = [k \in 0 .. n |-> g[k]]
    BY <1>7
  <2> QED BY <1>8, <2>1, Zenon
<1>10. Rounds(TextUpTo(f, a))
  BY <1>2, <1>9, Zenon
<1>11. \A k \in 0 .. n :
          TextUpTo(f, a)[k] = IF k = 0 THEN <<>> ELSE TextUpTo(f, a)[k - 1] \o New(k)
  BY <1>10, Zenon
<1> HIDE DEF Rounds
<1>12. TextUpTo(f, a)[0] = <<>>
  <2>1. 0 \in 0 .. n
    BY <1>1
  <2> QED BY <1>11, <2>1, Zenon
<1>13. \A k \in 1 .. n : TextUpTo(f, a)[k] = TextUpTo(f, a)[k - 1] \o New(k)
  <2>1. \A k \in 1 .. n : k \in 0 .. n /\ k # 0
    BY <1>1
  <2> QED BY <1>11, <2>1, Zenon
<1>14. \A k \in 0 .. n : TextUpTo(f, a)[k] \in T
  <2> DEFINE Typed == {k \in Nat : k <= n => TextUpTo(f, a)[k] \in T}
  <2>1. 0 \in Typed
    BY <1>3, <1>12
  <2>2. ASSUME NEW k \in Nat, k \in Typed PROVE k + 1 \in Typed
    <3> SUFFICES ASSUME k + 1 <= n PROVE TextUpTo(f, a)[k + 1] \in T
      OBVIOUS
    <3>1. k + 1 \in 1 .. n /\ (k + 1) - 1 = k /\ k <= n
      BY <1>1
    <3>2. TextUpTo(f, a)[k] \in T
      BY <2>2, <3>1
    <3>3. TextUpTo(f, a)[k + 1] = TextUpTo(f, a)[k] \o New(k + 1)
      BY <1>13, <3>1
    <3> QED BY <1>0, <1>3, <3>1, <3>2, <3>3, Zenon
  <2>3. Typed \in SUBSET Nat
    OBVIOUS
  <2>4. \A k \in Nat : k \in Typed
    <3> HIDE DEF Typed
    <3> QED BY <2>1, <2>2, <2>3, Induction
  <2> QED BY <1>1, <2>4
<1> QED BY <1>12, <1>13, <1>14, Zenon DEF TextFollows, n, New, T

\* The positions from low + 1 to high put their characters and take no argument.
PutsItself(f, a, low, high) ==
  /\ TextUpTo(f, a)[high] = TextUpTo(f, a)[low] \o SubSeq(f, low + 1, high)
  /\ Taken(f)[high] = Taken(f)[low]

Regroups(s, t, u) == (s \o t) \o u = s \o (t \o u)

LEMMA Regroup ==
  ASSUME NEW s \in Seq(Characters), NEW t \in Seq(Characters), NEW u \in Seq(Characters)
  PROVE  Regroups(s, t, u)
BY ConcatAssociative DEF Regroups

LEMMA LiteralRun ==
  ASSUME NEW f, NEW a, Suits(f, a), NEW low \in 0 .. Len(f), NEW high \in low .. Len(f),
         \A k \in (low + 1) .. high : Role(f)[k] \in {"char", "rest"}
  PROVE  PutsItself(f, a, low, high)
<1> DEFINE n == Len(f)
           T == TextUpTo(f, a)
           Done == {m \in Nat : low + m <= high => PutsItself(f, a, low, low + m)}
<1>1. n \in Nat /\ low \in Nat /\ high \in Nat /\ high <= n /\ f \in Seq(Characters)
  BY DEF Suits
<1>2. TextFollows(f, a) /\ TakenFollows(f)
  BY <1>1, TextIs, TakenIs, Zenon
<1>3. /\ \A k \in 1 .. n : T[k] = T[k - 1] \o Piece(f, a, k)
      /\ \A k \in 0 .. n : T[k] \in Seq(Characters)
      /\ \A k \in 1 .. n :
           Taken(f)[k] = Taken(f)[k - 1] + (IF Role(f)[k] \in {"c", "s"} THEN 1 ELSE 0)
      /\ \A k \in 0 .. n : Taken(f)[k] \in Nat
  BY <1>2, Zenon DEF TextFollows, TakenFollows
<1> HIDE DEF T
<1>4. 0 \in Done
  <2>1. low + 0 = low
    BY <1>1
  <2>2. SubSeq(f, low + 1, low) = <<>>
    BY <1>1, SubSeqEmpty
  <2>3. T[low] \in Seq(Characters)
    BY <1>3
  <2>4. T[low] \o <<>> = T[low]
    BY <2>3, ConcatEmptySeq, Zenon
  <2>5. PutsItself(f, a, low, low)
    BY <2>2, <2>4, Zenon DEF PutsItself, T
  <2> QED BY <2>1, <2>5
<1>5. ASSUME NEW m \in Nat, m \in Done PROVE m + 1 \in Done
  <2> SUFFICES ASSUME low + (m + 1) <= high PROVE PutsItself(f, a, low, low + (m + 1))
    OBVIOUS
  <2> DEFINE j == low + m
             k == low + (m + 1)
  <2>1. /\ k \in 1 .. n /\ j \in 0 .. n /\ k - 1 = j /\ k \in (low + 1) .. high
        /\ low + 1 \in 1 .. n /\ k \in (low + 1) .. n /\ j \in Int /\ low + 1 \in Int
        /\ low + m <= high /\ low \in 0 .. n
    BY <1>1
  <2>2. PutsItself(f, a, low, j)
    BY <1>5, <2>1
  <2> HIDE DEF j, k
  <2>3. Role(f)[k] \in {"char", "rest"}
    BY <2>1
  <2>4. Piece(f, a, k) = <<f[k]>> /\ Role(f)[k] \notin {"c", "s"}
    BY <2>3 DEF Piece
  <2>5. T[k] = (T[low] \o SubSeq(f, low + 1, j)) \o <<f[k]>>
    BY <1>3, <2>1, <2>2, <2>4, Zenon DEF PutsItself, T
  <2>6. /\ T[low] \in Seq(Characters) /\ f[k] \in Characters
        /\ SubSeq(f, low + 1, j) \in Seq(Characters) /\ <<f[k]>> \in Seq(Characters)
    <3>1. T[low] \in Seq(Characters)
      BY <1>3, <2>1
    <3>2. f[k] \in Characters
      BY <1>1, <2>1
    <3>3. \A i \in (low + 1) .. j : f[i] \in Characters
      BY <1>1, <2>1
    <3>4. SubSeq(f, low + 1, j) \in Seq(Characters)
      BY <2>1, <3>3, SubSeqProperties
    <3> QED BY <3>1, <3>2, <3>4
  <2>7. Regroups(T[low], SubSeq(f, low + 1, j), <<f[k]>>)
    BY <2>6, Regroup, Zenon
  <2>8. SubSeq(f, low + 1, k) = SubSeq(f, low + 1, j) \o <<f[k]>>
    <3>1. SubSeq(f, low + 1, k) = SubSeq(f, low + 1, k - 1) \o <<f[k]>>
      BY <1>1, <2>1, SubSeqRecursiveSecond, Zenon DEF n
    <3> QED BY <2>1, <3>1, Zenon
  <2>9. T[k] = T[low] \o SubSeq(f, low + 1, k)
    BY <2>5, <2>7, <2>8, Zenon DEF Regroups
  <2>10. Taken(f)[k] = Taken(f)[low]
    <3>1. Taken(f)[k] = Taken(f)[j] + 0 /\ Taken(f)[j] \in Nat
      BY <1>3, <2>1, <2>4
    <3>2. Taken(f)[j] = Taken(f)[low]
      BY <2>2, Zenon DEF PutsItself
    <3> QED BY <3>1, <3>2
  <2>11. PutsItself(f, a, low, k)
    BY <2>9, <2>10, Zenon DEF PutsItself, T
  <2> QED BY <2>11 DEF k
<1>6. Done \in SUBSET Nat
  OBVIOUS
<1>7. \A m \in Nat : m \in Done
  <2> HIDE DEF Done
  <2> QED BY <1>4, <1>5, <1>6, Induction
<1>8. high - low \in Nat /\ low + (high - low) = high
  BY <1>1
<1>9. high - low \in Done
  BY <1>7, <1>8
<1> QED BY <1>1, <1>8, <1>9

\* The text of a part of the format begins the text of the format.
LEMMA TextGrows ==
  ASSUME NEW f, NEW a, Suits(f, a), NEW k \in 0 .. Len(f)
  PROVE  IsPrefix(TextUpTo(f, a)[k], Text(f, a))
<1> DEFINE n == Len(f)
           T == TextUpTo(f, a)
           Begins(s, t) == Len(s) <= Len(t) /\ \A i \in 1 .. Len(s) : s[i] = t[i]
           Done == {m \in Nat : k + m <= n => Begins(T[k], T[k + m])}
<1>1. n \in Nat /\ k \in Nat /\ k <= n
  BY DEF Suits
<1>2. TextFollows(f, a)
  BY TextIs, Zenon
<1>3. /\ \A j \in 1 .. n : T[j] = T[j - 1] \o Piece(f, a, j)
      /\ \A j \in 0 .. n : T[j] \in Seq(Characters)
  BY <1>2, Zenon DEF TextFollows
<1> HIDE DEF T
<1>4. 0 \in Done
  <2>1. k + 0 = k /\ T[k] \in Seq(Characters)
    BY <1>1, <1>3
  <2>2. Len(T[k]) \in Nat
    BY <2>1
  <2> QED BY <2>1, <2>2
<1>5. ASSUME NEW m \in Nat, m \in Done PROVE m + 1 \in Done
  <2> SUFFICES ASSUME k + (m + 1) <= n PROVE Begins(T[k], T[k + (m + 1)])
    OBVIOUS
  <2> DEFINE j == k + m
             s == T[k]
             t == T[j]
             p == Piece(f, a, j + 1)
  <2>1. /\ j + 1 \in 1 .. n /\ j \in 0 .. n /\ (j + 1) - 1 = j /\ k + (m + 1) = j + 1
        /\ k \in 0 .. n /\ k + m <= n
    BY <1>1
  <2>2. Begins(s, t)
    BY <1>5, <2>1
  <2>3. s \in Seq(Characters) /\ t \in Seq(Characters) /\ p \in Seq(Characters)
    <3>1. p \in Seq(Characters)
      <4> HIDE DEF j
      <4> QED BY <2>1, PieceType, Zenon DEF n
    <3> QED BY <1>3, <2>1, <3>1
  <2>4. T[k + (m + 1)] = t \o p
    BY <1>3, <2>1
  <2> HIDE DEF j, s, t, p
  <2>5. /\ Len(t \o p) = Len(t) + Len(p) /\ Len(s) \in Nat /\ Len(t) \in Nat /\ Len(p) \in Nat
        /\ \A i \in 1 .. Len(t) : (t \o p)[i] = t[i]
    BY <2>3
  <2>6. Begins(s, t \o p)
    BY <2>2, <2>5
  <2> QED BY <2>4, <2>6 DEF s
<1>6. Done \in SUBSET Nat
  OBVIOUS
<1>7. \A m \in Nat : m \in Done
  <2> HIDE DEF Done
  <2> QED BY <1>4, <1>5, <1>6, Induction
<1>8. n - k \in Nat /\ k + (n - k) = n
  BY <1>1
<1>9. Begins(T[k], T[n])
  <2>1. n - k \in Done
    BY <1>7, <1>8
  <2> QED BY <1>1, <1>8, <2>1
<1>10. T[k] \in Seq(Characters) /\ T[n] \in Seq(Characters)
  BY <1>1, <1>3
<1> DEFINE s == T[k]
           t == T[n]
<1>11. IsPrefix(s, t)
  <2>1. Len(s) \in Nat /\ Len(t) \in Nat /\ Begins(s, t)
    BY <1>9, <1>10
  <2>2. s \in Seq(Characters) /\ t \in Seq(Characters)
    BY <1>10
  <2> HIDE DEF s, t
  <2>3. SubSeq(s, 1, Len(s)) = s
    BY <2>2, SubSeqFull, Zenon
  <2>4. /\ SubSeq(t, 1, Len(s)) \in Seq(Characters) /\ Len(SubSeq(t, 1, Len(s))) = Len(s)
        /\ \A i \in 1 .. Len(s) : SubSeq(t, 1, Len(s))[i] = t[i]
    BY <2>1, <2>2
  <2>5. s = SubSeq(t, 1, Len(s))
    BY <2>1, <2>2, <2>4, SeqEqual
  <2> QED BY <2>1, <2>3, <2>5 DEF IsPrefix
<1> QED BY <1>11 DEF T, Text

-----------------------------------------------------------------------------
(***************************************************************************)
(* printf: its loop.                                                       *)
(***************************************************************************)

\* What printf has done at any point of a call: it has put the text of the format up
\* to pos, where a position begins, and has the arguments of the rest.
PrintfInv ==
  /\ format \in Seq(Characters \ {"NUL"})
  /\ Suits(format, given)
  /\ pos \in 0 .. Len(format)
  /\ Role(format)[pos] \notin {"c", "s", "%%"}
  /\ (Role(format)[pos] = "rest") => pos = Len(format)
  /\ put = TextUpTo(format, given)[pos]
  /\ written = Len(put) /\ written <= IntMax
  /\ (pc = "running") => args = SubSeq(given, Taken(format)[pos] + 1, Len(given))
  /\ (pc # "running") =>
       IF result = -1 THEN Len(Text(format, given)) > IntMax
       ELSE pos = Len(format) /\ result = written

LEMMA PrintfTypes ==
  ASSUME PrintfInv
  PROVE  /\ Len(format) \in Nat /\ pos \in Nat /\ pos <= Len(format)
         /\ format \in Seq(Characters) /\ \A k \in 1 .. Len(format) : format[k] \in Characters \ {"NUL"}
         /\ given \in Seq(Seq(Characters)) /\ Len(given) \in Nat
         /\ put \in Seq(Characters) /\ Len(put) \in Nat /\ written \in Nat
         /\ RoleFollows(format) /\ TakenFollows(format) /\ TextFollows(format, given)
<1>1. /\ format \in Seq(Characters \ {"NUL"}) /\ Len(format) \in Nat
      /\ pos \in 0 .. Len(format) /\ Suits(format, given)
      /\ put = TextUpTo(format, given)[pos] /\ written = Len(put)
  BY DEF PrintfInv
<1>2. format \in Seq(Characters) /\ \A k \in 1 .. Len(format) : format[k] \in Characters \ {"NUL"}
  BY <1>1
<1>3. given \in Seq(Seq(Characters)) /\ Len(given) \in Nat
  BY <1>1 DEF Suits
<1>4. RoleFollows(format) /\ TakenFollows(format) /\ TextFollows(format, given)
  BY <1>1, RoleIs, TakenIs, TextIs, Zenon
<1>5. put \in Seq(Characters)
  BY <1>1, <1>4, Zenon DEF TextFollows
<1>6. Len(put) \in Nat
  BY <1>5
<1> QED BY <1>1, <1>2, <1>3, <1>4, <1>5, <1>6

\* print and the check before it.
LEMMA PrintOrFailKeeps ==
  ASSUME PrintfInv, pc = "running",
         NEW s \in Seq(Characters), NEW next \in 0 .. Len(format), PrintOrFail(s, next),
         TextUpTo(format, given)[next] = put \o s,
         Role(format)[next] \notin {"c", "s", "%%"},
         (Role(format)[next] = "rest") => next = Len(format),
         args' = SubSeq(given, Taken(format)[next] + 1, Len(given)),
         UNCHANGED <<format, given>>
  PROVE  PrintfInv'
<1>1. /\ Len(put) \in Nat /\ written \in Nat /\ written = Len(put) /\ put \in Seq(Characters)
      /\ Suits(format, given) /\ IntMax \in Nat /\ Len(s) \in Nat
  BY PrintfTypes, LibcPrintfAssumption DEF PrintfInv
<1>2. Len(put \o s) = written + Len(s)
  BY <1>1
<1>3. CASE Overflows(Len(s))
  <2>1. pc' # "running" /\ result' = -1 /\ UNCHANGED <<pos, written, put>>
    BY <1>3 DEF PrintOrFail, Finish
  <2>2. written + Len(s) > IntMax
    BY <1>1, <1>3 DEF Overflows, maxrem
  <2>3. Len(TextUpTo(format, given)[next]) <= Len(Text(format, given))
    <3>1. IsPrefix(TextUpTo(format, given)[next], Text(format, given))
      BY <1>1, TextGrows, Zenon
    <3> QED BY <3>1, Zenon DEF IsPrefix
  <2>4. Len(Text(format, given)) > IntMax
    <3>1. Len(Text(format, given)) \in Nat
      <4>1. TextFollows(format, given) /\ Len(format) \in 0 .. Len(format)
        BY PrintfTypes
      <4>2. Text(format, given) \in Seq(Characters)
        BY <4>1, Zenon DEF TextFollows, Text
      <4> QED BY <4>2
    <3>2. Len(TextUpTo(format, given)[next]) = written + Len(s)
      BY <1>2
    <3> HIDE DEF Text
    <3> QED BY <1>1, <2>2, <2>3, <3>1, <3>2
  <2> QED BY <2>1, <2>4 DEF PrintfInv
<1>4. CASE ~Overflows(Len(s))
  <2>1. /\ put' = put \o s /\ written' = written + Len(s) /\ pos' = next
        /\ UNCHANGED <<pc, result>>
    BY <1>4 DEF PrintOrFail
  <2>2. written + Len(s) <= IntMax
    BY <1>1, <1>4 DEF Overflows, maxrem
  <2> QED BY <1>2, <2>1, <2>2 DEF PrintfInv
<1> QED BY <1>3, <1>4

\* The run of ordinary characters ends before the next % or at the end.
LEMMA RunEnds ==
  ASSUME PrintfInv, pos < Len(format), At(pos) # "%" \/ At(pos + 1) = "%"
  PROVE  /\ RunStart \in pos .. (Len(format) - 1)
         /\ RunStart = (IF At(pos) = "%" THEN pos + 1 ELSE pos)
         /\ RunEnd \in (RunStart + 1) .. Len(format)
         /\ \A k \in (RunStart + 2) .. RunEnd : format[k] # "%"
<1> DEFINE b == RunStart
           Stop == {k \in Nat : At(b + k) \in {"NUL", "%"}}
           Rounds(g) == g = [k \in Nat |-> IF At(b + k) \in {"NUL", "%"} THEN k ELSE g[k + 1]]
           amount == CHOOSE g : Rounds(g)
           z == Least(From(Stop, 1))
<1>1. Len(format) \in Nat /\ pos \in Nat
  BY PrintfTypes
<1>2. b = (IF At(pos) = "%" THEN pos + 1 ELSE pos)
  BY DEF RunStart
<1>3. b \in pos .. (Len(format) - 1)
  <2>1. CASE At(pos) # "%"
    BY <1>1, <1>2, <2>1
  <2>2. CASE At(pos) = "%"
    <3>1. At(pos + 1) # "NUL"
      BY <2>2
    <3>2. pos + 1 < Len(format)
      BY <3>1 DEF At
    <3> QED BY <1>1, <1>2, <2>2, <3>2
  <2> QED BY <2>1, <2>2
<1>4. RunEnd = b + amount[1]
  BY DEF RunEnd
<1>5. ASSUME NEW g
      PROVE  Rounds(g) <=> ScanRounds(g, Stop)
  <2>1. \A k \in Nat : k \in Stop <=> At(b + k) \in {"NUL", "%"}
    OBVIOUS
  <2> HIDE DEF Stop
  <2>2. [k \in Nat |-> IF At(b + k) \in {"NUL", "%"} THEN k ELSE g[k + 1]]
          = [k \in Nat |-> IF k \in Stop THEN k ELSE g[k + 1]]
    BY <2>1
  <2> QED BY <2>2, Zenon DEF ScanRounds
<1>6. Stop \in SUBSET Nat
  OBVIOUS
<1>7. ScanRounds(amount, Stop)
  <2>1. \E g : Rounds(g)
    <3> HIDE DEF Rounds, Stop
    <3> QED BY <1>5, <1>6, ScanIsDefined, Zenon
  <2>2. Rounds(amount)
    BY <2>1, Zenon
  <2> HIDE DEF Rounds, Stop, amount
  <2> QED BY <1>5, <2>2, Zenon
<1> HIDE DEF b, amount
<1>8. From(Stop, 1) # {}
  <2>1. /\ Len(format) - b \in Nat /\ 1 <= Len(format) - b
        /\ ~(b + (Len(format) - b) < Len(format))
    BY <1>1, <1>3
  <2>2. At(b + (Len(format) - b)) = "NUL"
    BY <2>1 DEF At
  <2> QED BY <2>1, <2>2 DEF From
<1>9. z \in From(Stop, 1) /\ \A j \in From(Stop, 1) : z <= j
  <2>1. From(Stop, 1) \in SUBSET Nat
    BY DEF From
  <2> HIDE DEF Stop
  <2> QED BY <1>8, <2>1, LeastIsLeast, Zenon
<1>10. amount[1] = z
  <2>1. 1 \in Nat
    OBVIOUS
  <2> HIDE DEF Stop
  <2> QED BY <1>6, <1>7, <1>8, <2>1, ScanStops, Zenon
<1> HIDE DEF z
<1>11. z \in Nat /\ 1 <= z
  BY <1>9 DEF From
<1>12. ASSUME NEW k \in 1 .. (z - 1)
       PROVE  b + k < Len(format) /\ format[b + k + 1] # "%"
  <2>1. k \in Nat /\ 1 <= k /\ ~(z <= k)
    BY <1>11
  <2>2. k \notin Stop
    BY <1>9, <2>1 DEF From
  <2> QED BY <2>1, <2>2 DEF At
<1>13. b + z <= Len(format)
  <2>1. CASE z = 1
    BY <1>1, <1>3, <2>1
  <2>2. CASE z # 1
    <3>1. z - 1 \in 1 .. (z - 1)
      BY <1>11, <2>2
    <3>2. b + (z - 1) < Len(format)
      BY <1>12, <3>1
    <3>3. b \in Int /\ z \in Int /\ Len(format) \in Int
      BY <1>1, <1>3, <1>11
    <3> QED BY <3>2, <3>3
  <2> QED BY <2>1, <2>2
<1>14. ASSUME NEW k \in (b + 2) .. (b + z)
       PROVE  format[k] # "%"
  <2>1. k - (b + 1) \in 1 .. (z - 1) /\ b + (k - (b + 1)) + 1 = k
    BY <1>1, <1>3, <1>11
  <2> QED BY <1>12, <2>1
<1>15. RunEnd = b + z /\ b + z \in (b + 1) .. Len(format)
  BY <1>1, <1>3, <1>4, <1>10, <1>11, <1>13
<1> QED BY <1>2, <1>3, <1>14, <1>15 DEF b

\* Where the roles begin a run, every character of the run is one to be put.
LEMMA RunIsLiteral ==
  ASSUME PrintfInv, pos < Len(format), At(pos) # "%" \/ At(pos + 1) = "%"
  PROVE  /\ \A k \in (RunStart + 1) .. RunEnd : Role(format)[k] = "char"
         /\ TextUpTo(format, given)[RunStart] = put
         /\ Taken(format)[RunStart] = Taken(format)[pos]
<1> DEFINE b == RunStart
           e == RunEnd
           role == Role(format)
           n == Len(format)
<1>1. /\ n \in Nat /\ pos \in Nat /\ Suits(format, given)
      /\ role[pos] \notin {"c", "s", "%%", "rest"}
      /\ put = TextUpTo(format, given)[pos] /\ put \in Seq(Characters)
  BY PrintfTypes DEF PrintfInv
<1>2. /\ b \in pos .. (n - 1) /\ b = (IF At(pos) = "%" THEN pos + 1 ELSE pos)
      /\ e \in (b + 1) .. n /\ \A k \in (b + 2) .. e : format[k] # "%"
  BY RunEnds
<1>3. \A k \in 1 .. n : role[k] = NextRole(format, k, role[k - 1])
  BY PrintfTypes DEF RoleFollows
<1> HIDE DEF b, e, role
<1>4. /\ role[b + 1] = "char"
      /\ TextUpTo(format, given)[b] = put /\ Taken(format)[b] = Taken(format)[pos]
  <2>1. pos + 1 \in 1 .. n /\ (pos + 1) - 1 = pos /\ At(pos) = format[pos + 1]
    BY <1>1 DEF At
  <2>2. role[pos + 1] = NextRole(format, pos + 1, role[pos])
    BY <1>3, <2>1
  <2>3. CASE At(pos) # "%"
    <3>1. role[pos + 1] = "char"
      BY <1>1, <2>1, <2>2, <2>3 DEF NextRole
    <3> QED BY <1>1, <1>2, <2>3, <3>1
  <2>4. CASE At(pos) = "%"
    <3>1. b = pos + 1 /\ pos + 1 < n /\ At(pos + 1) = "%"
      BY <1>1, <1>2, <2>4
    <3>2. format[pos + 1 + 1] = "%"
      BY <3>1 DEF At
    <3>3. role[pos + 1] = "%%"
      BY <1>1, <2>1, <2>2, <2>4, <3>1, <3>2 DEF NextRole
    <3>4. role[b + 1] = "char"
      <4>1. b + 1 \in 1 .. n /\ (b + 1) - 1 = pos + 1
        BY <1>1, <3>1
      <4>2. role[b + 1] = NextRole(format, b + 1, role[pos + 1])
        BY <1>3, <4>1
      <4> QED BY <3>3, <4>2 DEF NextRole
    <3>5. TextUpTo(format, given)[pos + 1] = put \o <<>>
      <4>1. Piece(format, given, pos + 1) = <<>>
        BY <3>3 DEF Piece, role
      <4>2. TextFollows(format, given)
        BY PrintfTypes
      <4> QED BY <1>1, <2>1, <4>1, <4>2 DEF TextFollows
    <3>6. put \o <<>> = put
      BY <1>1, ConcatEmptySeq, Zenon
    <3>7. Taken(format)[pos + 1] = Taken(format)[pos]
      <4>1. TakenFollows(format) /\ pos \in 0 .. n
        BY <1>1, <2>1, PrintfTypes
      <4>2. Role(format)[pos + 1] \notin {"c", "s"}
        BY <3>3 DEF role
      <4>3. Taken(format)[pos + 1] = Taken(format)[pos] + 0 /\ Taken(format)[pos] \in Nat
        BY <2>1, <4>1, <4>2 DEF TakenFollows
      <4> QED BY <4>3
    <3> QED BY <3>1, <3>4, <3>5, <3>6, <3>7
  <2> QED BY <2>3, <2>4
<1>5. ASSUME NEW k \in (b + 1) .. (e - 1), role[k] = "char"
      PROVE  role[k + 1] = "char"
  <2>1. k + 1 \in 1 .. n /\ (k + 1) - 1 = k /\ k + 1 \in (b + 2) .. e
    BY <1>1, <1>2
  <2>2. role[k + 1] = NextRole(format, k + 1, role[k]) /\ format[k + 1] # "%"
    BY <1>2, <1>3, <2>1
  <2> QED BY <1>5, <2>2 DEF NextRole
<1>6. Throughout(role, b + 1, e, "char")
  <2>1. b + 1 \in Nat /\ e \in Nat
    BY <1>1, <1>2
  <2>2. \A k \in (b + 1) .. (e - 1) : role[k] = "char" => role[k + 1] = "char"
    BY <1>5
  <2> QED BY <1>4, <2>1, <2>2, Spreads, Zenon
<1> QED BY <1>4, <1>6 DEF Throughout, b, e, role

\* printf's four ways on: a run of characters,
LEMMA PrintRunKeeps == PrintfInv /\ PrintRun => PrintfInv'
<1> SUFFICES ASSUME PrintfInv, PrintRun PROVE PrintfInv'
  OBVIOUS
<1> DEFINE b == RunStart
           e == RunEnd
           n == Len(format)
           s == SubSeq(format, b + 1, e)
<1>1. /\ n \in Nat /\ pos \in Nat /\ pos <= n /\ format \in Seq(Characters)
      /\ Suits(format, given) /\ pc = "running"
      /\ args = SubSeq(given, Taken(format)[pos] + 1, Len(given))
  BY PrintfTypes DEF PrintfInv, PrintRun
<1>2. pos < n /\ (At(pos) # "%" \/ At(pos + 1) = "%")
  BY DEF PrintRun, At
<1>3. b \in pos .. (n - 1) /\ e \in (b + 1) .. n
  BY <1>2, RunEnds
<1>4. /\ \A k \in (b + 1) .. e : Role(format)[k] = "char"
      /\ TextUpTo(format, given)[b] = put /\ Taken(format)[b] = Taken(format)[pos]
  BY <1>2, RunIsLiteral
<1>5. PrintOrFail(s, e) /\ UNCHANGED <<callee, format, args, given>>
  BY DEF PrintRun
<1> HIDE DEF b, e, s
<1>6. b \in 0 .. n /\ e \in b .. n /\ e \in 0 .. n /\ e \in (b + 1) .. e
  BY <1>1, <1>3
<1>7. PutsItself(format, given, b, e)
  <2>1. \A k \in (b + 1) .. e : Role(format)[k] \in {"char", "rest"}
    BY <1>4
  <2> QED BY <1>1, <1>6, <2>1, LiteralRun, Zenon DEF n
<1>8. TextUpTo(format, given)[e] = put \o s
  BY <1>4, <1>7, Zenon DEF PutsItself, s
<1>9. Taken(format)[e] = Taken(format)[pos]
  BY <1>4, <1>7, Zenon DEF PutsItself
<1>10. Role(format)[e] = "char"
  BY <1>4, <1>6, Zenon
<1>11. s \in Seq(Characters)
  <2>1. b + 1 \in Int /\ e \in Int /\ \A k \in (b + 1) .. e : format[k] \in Characters
    BY <1>1, <1>3
  <2> QED BY <2>1, SubSeqProperties DEF s
<1>12. Role(format)[e] \notin {"c", "s", "%%"} /\ Role(format)[e] # "rest"
  BY <1>10
<1>13. args' = SubSeq(given, Taken(format)[e] + 1, Len(given))
  BY <1>1, <1>5, <1>9
<1> QED BY <1>1, <1>5, <1>6, <1>8, <1>11, <1>12, <1>13, PrintOrFailKeeps, Zenon DEF n

\* an argument,
LEMMA PrintArgKeeps == PrintfInv /\ PrintArg => PrintfInv'
<1> SUFFICES ASSUME PrintfInv, PrintArg PROVE PrintfInv'
  OBVIOUS
<1> DEFINE n == Len(format)
           t == Taken(format)[pos]
           s == Head(args)
<1>1. /\ n \in Nat /\ pos \in Nat /\ pos <= n
      /\ Suits(format, given) /\ pc = "running" /\ args = SubSeq(given, t + 1, Len(given))
      /\ put = TextUpTo(format, given)[pos] /\ put \in Seq(Characters)
      /\ given \in Seq(Seq(Characters)) /\ Len(given) \in Nat
      /\ Role(format)[pos] \notin {"c", "s", "%%"}
      /\ (Role(format)[pos] = "rest") => pos = n
  BY PrintfTypes DEF PrintfInv, PrintArg
<1>2. RoleFollows(format) /\ TakenFollows(format) /\ TextFollows(format, given)
  BY PrintfTypes
<1>3. pos + 1 < n /\ format[pos + 1] = "%" /\ format[pos + 1 + 1] \in {"c", "s"}
  BY <1>1 DEF PrintArg, At
<1>4. /\ pos + 1 \in 1 .. n /\ pos + 2 \in 1 .. n /\ (pos + 1) - 1 = pos
      /\ (pos + 2) - 1 = pos + 1 /\ pos \in 0 .. n /\ pos + 1 \in 0 .. n /\ pos + 2 \in 0 .. n
  BY <1>1, <1>3
<1>5. Role(format)[pos + 1] \in {"c", "s"}
  <2>1. Role(format)[pos + 1] = NextRole(format, pos + 1, Role(format)[pos])
    BY <1>2, <1>4 DEF RoleFollows
  <2> QED BY <1>1, <1>3, <2>1 DEF NextRole
<1>6. Role(format)[pos + 2] = "second"
  <2>1. Role(format)[pos + 2] = NextRole(format, pos + 2, Role(format)[pos + 1])
    BY <1>2, <1>4 DEF RoleFollows
  <2> QED BY <1>5, <2>1 DEF NextRole
<1>7. t \in Nat /\ Taken(format)[pos + 1] = t + 1 /\ Taken(format)[pos + 2] = t + 1
  <2>1. t \in Nat /\ Taken(format)[pos + 1] = t + 1
    BY <1>2, <1>4, <1>5 DEF TakenFollows
  <2>2. Taken(format)[pos + 2] = Taken(format)[pos + 1] + 0
    BY <1>2, <1>4, <1>6 DEF TakenFollows
  <2> QED BY <2>1, <2>2
<1>8. t + 1 \in 1 .. Len(given)
  <2>1. Taken(format)[pos + 1] <= Taken(format)[n]
    BY <1>1, <1>4, TakenGrows, Zenon
  <2>2. Len(given) = Taken(format)[n]
    BY <1>1 DEF Suits
  <2> QED BY <1>1, <1>7, <2>1, <2>2
<1>9. Head(args) = given[t + 1] /\ Tail(args) = SubSeq(given, (t + 1) + 1, Len(given))
  <2>1. Len(given) \in (t + 1) .. Len(given)
    BY <1>1, <1>8
  <2> QED BY <1>1, <1>8, <2>1, HeadTailOfSubSeq
<1>10. s \in Seq(Characters)
  BY <1>1, <1>8, <1>9, ElementOfSeq
<1>11. TextUpTo(format, given)[pos + 2] = put \o s
  <2>1. Piece(format, given, pos + 1) = s
    BY <1>5, <1>7, <1>9 DEF Piece
  <2>2. Piece(format, given, pos + 2) = <<>>
    BY <1>6 DEF Piece
  <2>3. TextUpTo(format, given)[pos + 1] = put \o s
    <3>1. TextUpTo(format, given)[pos + 1]
            = TextUpTo(format, given)[pos] \o Piece(format, given, pos + 1)
      BY <1>2, <1>4 DEF TextFollows
    <3> QED BY <1>1, <2>1, <3>1
  <2>4. TextUpTo(format, given)[pos + 2] = TextUpTo(format, given)[pos + 1] \o <<>>
    <3>1. TextUpTo(format, given)[pos + 2]
            = TextUpTo(format, given)[pos + 1] \o Piece(format, given, pos + 2)
      BY <1>2, <1>4 DEF TextFollows
    <3> QED BY <2>2, <3>1
  <2>5. TextUpTo(format, given)[pos + 1] \in Seq(Characters)
    BY <1>2, <1>4, Zenon DEF TextFollows
  <2>6. TextUpTo(format, given)[pos + 1] \o <<>> = TextUpTo(format, given)[pos + 1]
    BY <2>5, ConcatEmptySeq, Zenon
  <2> QED BY <2>3, <2>4, <2>6, Zenon
<1>12. PrintOrFail(s, pos + 2) /\ UNCHANGED <<format, given>> /\ args' = Tail(args)
  BY DEF PrintArg
<1>13. args' = SubSeq(given, Taken(format)[pos + 2] + 1, Len(given))
  BY <1>7, <1>9, <1>12
<1>14. Role(format)[pos + 2] \notin {"c", "s", "%%"} /\ Role(format)[pos + 2] # "rest"
  BY <1>6
<1> HIDE DEF s
<1> QED BY <1>1, <1>4, <1>10, <1>11, <1>12, <1>13, <1>14, PrintOrFailKeeps, Zenon DEF n

\* the rest of a format whose conversion is unknown,
LEMMA PrintRestKeeps == PrintfInv /\ PrintRest => PrintfInv'
<1> SUFFICES ASSUME PrintfInv, PrintRest PROVE PrintfInv'
  OBVIOUS
<1> DEFINE n == Len(format)
           role == Role(format)
           s == SubSeq(format, pos + 1, n)
<1>1. /\ n \in Nat /\ pos \in Nat /\ pos <= n /\ format \in Seq(Characters)
      /\ \A k \in 1 .. n : format[k] \in Characters \ {"NUL"}
      /\ Suits(format, given) /\ pc = "running"
      /\ args = SubSeq(given, Taken(format)[pos] + 1, Len(given))
      /\ put = TextUpTo(format, given)[pos]
      /\ role[pos] \notin {"c", "s", "%%"} /\ (role[pos] = "rest" => pos = n)
  BY PrintfTypes DEF PrintfInv, PrintRest
<1>2. pos < n /\ format[pos + 1] = "%" /\ At(pos + 1) \notin {"c", "s", "%"}
  BY DEF PrintRest, At
<1>3. \A k \in 1 .. n : role[k] = NextRole(format, k, role[k - 1])
  BY PrintfTypes DEF RoleFollows
<1> HIDE DEF role
<1>4. role[pos + 1] = "rest"
  <2>1. pos + 1 \in 1 .. n /\ (pos + 1) - 1 = pos
    BY <1>1, <1>2
  <2>2. role[pos + 1] = NextRole(format, pos + 1, role[pos])
    BY <1>3, <2>1
  <2>3. (IF pos + 1 < Len(format) THEN format[pos + 1 + 1] ELSE "NUL") \notin {"c", "s", "%"}
    BY <1>2 DEF At
  <2> QED BY <1>1, <1>2, <2>2, <2>3 DEF NextRole
<1>5. ASSUME NEW k \in (pos + 1) .. (n - 1), role[k] = "rest"
      PROVE  role[k + 1] = "rest"
  <2>1. k + 1 \in 1 .. n /\ (k + 1) - 1 = k
    BY <1>1
  <2>2. role[k + 1] = NextRole(format, k + 1, role[k])
    BY <1>3, <2>1
  <2> QED BY <1>5, <2>2 DEF NextRole
<1>6. \A k \in (pos + 1) .. n : role[k] = "rest"
  <2>1. pos + 1 \in Nat
    BY <1>1
  <2>2. \A k \in (pos + 1) .. (n - 1) : role[k] = "rest" => role[k + 1] = "rest"
    BY <1>5
  <2>3. Throughout(role, pos + 1, n, "rest")
    BY <1>1, <1>4, <2>1, <2>2, Spreads, Zenon
  <2> QED BY <2>3, Zenon DEF Throughout
<1>7. n \in pos .. n /\ pos \in 0 .. n /\ n \in 0 .. n /\ n \in (pos + 1) .. n
  BY <1>1, <1>2
<1>8. PutsItself(format, given, pos, n)
  <2>1. \A k \in (pos + 1) .. n : Role(format)[k] \in {"char", "rest"}
    BY <1>6 DEF role
  <2> QED BY <1>1, <1>7, <2>1, LiteralRun, Zenon DEF n
<1>9. PrintOrFail(s, n) /\ UNCHANGED <<callee, format, args, given>>
  BY DEF PrintRest
<1>10. s \in Seq(Characters)
  <2>1. pos + 1 \in Int /\ n \in Int /\ \A k \in (pos + 1) .. n : format[k] \in Characters
    BY <1>1
  <2> HIDE DEF n
  <2> QED BY <2>1, SubSeqProperties DEF s
<1> HIDE DEF s
<1>11. TextUpTo(format, given)[n] = put \o s
  BY <1>1, <1>8, Zenon DEF PutsItself, s
<1>12. args' = SubSeq(given, Taken(format)[n] + 1, Len(given))
  <2>1. Taken(format)[n] = Taken(format)[pos]
    BY <1>8, Zenon DEF PutsItself
  <2> QED BY <1>1, <1>9, <2>1
<1>13. Role(format)[n] = "rest"
  BY <1>6, <1>7, Zenon DEF role
<1>14. Role(format)[n] \notin {"c", "s", "%%"}
  BY <1>13
<1> QED BY <1>1, <1>7, <1>9, <1>10, <1>11, <1>12, <1>14, PrintOrFailKeeps, Zenon DEF n

\* and the end of the format.
LEMMA ReturnKeeps == PrintfInv /\ Return => PrintfInv'
<1> SUFFICES ASSUME PrintfInv, Return PROVE PrintfInv'
  OBVIOUS
<1>1. /\ Len(format) \in Nat /\ pos \in Nat /\ pos <= Len(format) /\ written \in Nat
      /\ \A k \in 1 .. Len(format) : format[k] # "NUL"
  BY PrintfTypes
<1>2. pos = Len(format)
  <2>1. CASE pos < Len(format)
    <3>1. At(pos) = format[pos + 1] /\ pos + 1 \in 1 .. Len(format)
      BY <1>1, <2>1 DEF At
    <3> QED BY <1>1, <3>1 DEF Return
  <2> QED BY <1>1, <2>1
<1>3. /\ pc' # "running" /\ result' = written
      /\ UNCHANGED <<format, given, pos, written, put>>
  BY DEF Return, Finish
<1>4. result' # -1
  BY <1>1, <1>3
<1> QED BY <1>2, <1>3, <1>4 DEF PrintfInv

LEMMA PrintfInvKept == PrintfInv /\ [PrintfNext]_printfVars => PrintfInv'
<1> SUFFICES ASSUME PrintfInv, [PrintfNext]_printfVars PROVE PrintfInv'
  OBVIOUS
<1>1. CASE PrintfNext
  BY <1>1, PrintRunKeeps, PrintArgKeeps, PrintRestKeeps, ReturnKeeps DEF PrintfNext
<1>2. CASE UNCHANGED printfVars
  BY <1>2 DEF printfVars, PrintfInv
<1> QED BY <1>1, <1>2

\* A call begins with nothing put and every argument to come.
LEMMA PrintfBegins ==
  ASSUME format \in Seq(Characters \ {"NUL"}), given \in Seq(Seq(Characters)),
         Len(given) = Taken(format)[Len(format)], args = given,
         pos = 0, written = 0, put = <<>>,
         pc # "running" => format = <<>> /\ result = 0
  PROVE  PrintfInv
<1>1. Len(format) \in Nat /\ format \in Seq(Characters) /\ IntMax \in Nat
  BY LibcPrintfAssumption
<1>2. Suits(format, given)
  BY <1>1 DEF Suits
<1>3. RoleFollows(format) /\ TakenFollows(format) /\ TextFollows(format, given)
  BY <1>1, <1>2, RoleIs, TakenIs, TextIs, Zenon
<1>4. Role(format)[pos] = "none" /\ Taken(format)[pos] = 0
      /\ put = TextUpTo(format, given)[pos]
  BY <1>3 DEF RoleFollows, TakenFollows, TextFollows
<1>5. args = SubSeq(given, Taken(format)[pos] + 1, Len(given))
  <2>1. SubSeq(given, 1, Len(given)) = given
    BY SubSeqFull, Zenon
  <2> QED BY <1>4, <2>1
<1>6. written = Len(put) /\ written <= IntMax
  BY <1>1
<1>7. pos \in 0 .. Len(format) /\ (format = <<>> => pos = Len(format))
  BY <1>1
<1>8. pc # "running" => pos = Len(format) /\ result = written /\ result # -1
  BY <1>7
<1> QED BY <1>2, <1>4, <1>5, <1>6, <1>7, <1>8 DEF PrintfInv

\* The formats that callers, puts and abort give are strings of C.
LEMMA CallersFormat ==
  ASSUME NEW f \in Formats
  PROVE  f \in Seq(Characters \ {"NUL"})
<1>1. f \in Seq(STRING \ {"NUL"}) /\ STRING \ {"NUL"} \subseteq Characters \ {"NUL"}
  BY LibcPrintfAssumption DEF Characters
<1> QED BY <1>1, SeqMonotonic, Zenon

LEMMA PutsFormat == <<"%", "s", "newline">> \in Seq(Characters \ {"NUL"})
<1> DEFINE C == Characters \ {"NUL"}
<1>1. "%" \in C /\ "s" \in C /\ "newline" \in C
  BY DEF Characters
<1> HIDE DEF C
<1>2. <<"%", "s", "newline">> \in [1 .. 3 -> C]
  BY <1>1
<1>3. <<"%", "s", "newline">> \in Seq(C)
  BY <1>2, SeqDef
<1> QED BY <1>3 DEF C

LEMMA AbortFormat == <<"kernel: panic: abort()", "newline">> \in Seq(Characters \ {"NUL"})
<1> DEFINE C == Characters \ {"NUL"}
<1>1. "kernel: panic: abort()" \in C /\ "newline" \in C
  BY DEF Characters
<1> HIDE DEF C
<1>2. ASSUME NEW c \in C, NEW d \in C PROVE <<c, d>> \in Seq(C)
  <2>1. <<c, d>> \in [1 .. 2 -> C]
    OBVIOUS
  <2> QED BY <2>1, SeqDef
<1>3. <<"kernel: panic: abort()", "newline">> \in Seq(C)
  BY <1>1, <1>2, Zenon
<1> QED BY <1>3 DEF C

LEMMA PrintfInvStart == PrintfInit \/ NotPrinting => PrintfInv
<1>1. ASSUME PrintfInit PROVE PrintfInv
  <2>1. format \in Seq(Characters \ {"NUL"})
    <3>1. CASE callee = "printf"
      BY <1>1, <3>1, CallersFormat DEF PrintfInit
    <3>2. CASE callee = "puts"
      <4>1. format = <<"%", "s", "newline">>
        BY <1>1, <3>2 DEF PrintfInit
      <4> QED BY <4>1, PutsFormat, Zenon
    <3>3. CASE callee = "abort"
      <4>1. format = <<"kernel: panic: abort()", "newline">>
        BY <1>1, <3>3 DEF PrintfInit
      <4> QED BY <4>1, AbortFormat, Zenon
    <3> QED BY <1>1, <3>1, <3>2, <3>3 DEF PrintfInit
  <2> DEFINE m == Taken(format)[Len(format)]
  <2>2. m \in Nat
    <3>1. Len(format) \in Nat /\ Len(format) \in 0 .. Len(format)
      BY <2>1
    <3>2. TakenFollows(format)
      BY <3>1, TakenIs, Zenon
    <3> QED BY <3>1, <3>2, Zenon DEF TakenFollows
  <2>3. args \in [1 .. m -> Strings] /\ given = args
    BY <1>1 DEF PrintfInit
  <2> HIDE DEF m
  <2>4. given \in Seq(Seq(Characters)) /\ Len(given) = m
    <3>1. Strings \subseteq Seq(Characters)
      <4>1. ASSUME NEW t \in Strings PROVE t \in Seq(Characters)
        <5>1. t \in Seq(STRING) /\ STRING \subseteq Characters
          BY LibcPrintfAssumption DEF Characters
        <5> QED BY <5>1, SeqMonotonic, Zenon
      <4> QED BY <4>1
    <3>2. args \in [1 .. m -> Seq(Characters)]
      BY <2>3, <3>1
    <3> QED BY <2>2, <2>3, <3>2
  <2>5. pos = 0 /\ written = 0 /\ put = <<>> /\ pc = "running"
    BY <1>1 DEF PrintfInit
  <2> QED BY <2>1, <2>3, <2>4, <2>5, PrintfBegins, Zenon DEF m
<1>2. ASSUME NotPrinting PROVE PrintfInv
  <2>1. /\ format = <<>> /\ given = <<>> /\ args = given /\ put = <<>>
        /\ pos = 0 /\ written = 0 /\ result = 0
    BY <1>2 DEF NotPrinting
  <2>2. format \in Seq(Characters \ {"NUL"}) /\ given \in Seq(Seq(Characters))
        /\ Len(format) = 0 /\ Len(given) = 0
    BY <2>1
  <2>3. Taken(format)[Len(format)] = 0
    <3>1. Len(format) \in Nat
      BY <2>2
    <3>2. TakenFollows(format)
      BY <3>1, TakenIs, Zenon
    <3> QED BY <2>2, <3>2 DEF TakenFollows
  <2>4. Len(given) = Taken(format)[Len(format)]
    BY <2>2, <2>3
  <2> QED BY <2>1, <2>2, <2>4, PrintfBegins, Zenon
<1> QED BY <1>1, <1>2

\* The invariant says what a call has put when it ends.
LEMMA PrintfInvCounts == PrintfInv => CountsTheText
<1> SUFFICES ASSUME PrintfInv PROVE CountsTheText
  OBVIOUS
<1>1. /\ Suits(format, given) /\ pos \in 0 .. Len(format)
      /\ put = TextUpTo(format, given)[pos] /\ written = Len(put)
  BY DEF PrintfInv
<1>2. IsPrefix(put, Text(format, given))
  BY <1>1, TextGrows, Zenon
<1>3. ASSUME pc # "running", result # -1
      PROVE  put = Text(format, given) /\ result = Len(Text(format, given))
  <2>1. pos = Len(format) /\ result = written
    BY <1>3, Zenon DEF PrintfInv
  <2> QED BY <1>1, <2>1, Zenon DEF Text
<1>4. ASSUME pc # "running", result = -1
      PROVE  Len(Text(format, given)) > IntMax
  BY <1>4, Zenon DEF PrintfInv
<1> QED BY <1>2, <1>3, <1>4, Zenon DEF CountsTheText

-----------------------------------------------------------------------------
(***************************************************************************)
(* What the calls promise.                                                 *)
(***************************************************************************)

\* What a run of the memory functions keeps.
LibcInv == mem \in Memories /\ AnswersRight

\* A call that compares finds the order of the first byte that differs.
LEMMA memcmpAnswers ==
  ASSUME mem \in Memories, NEW a \in Addresses, NEW b \in Addresses,
         NEW size \in 0 .. MemSize, Fits(a, size), Fits(b, size), memcmp(a, b, size)
  PROVE  AnswersRight'
<1>1. /\ mem' = mem /\ call'.f = "memcmp" /\ call'.a = a /\ call'.b = b /\ call'.size = size
      /\ call'.result = Compared(a, b, size)
  BY DEF memcmp
<1>2. call'.result = Order(a, b, size)
  BY <1>1, ComparesByFirstDifference, Zenon
<1>3. call'.f # "strlen"
  BY <1>1
<1>4. LET differ == {i \in 0 .. (size - 1) : mem[a + i] # mem[b + i]}
      IN  IF differ = {} THEN call'.result = 0
          ELSE LET i == CHOOSE k \in differ : \A j \in differ : k <= j
               IN  call'.result = (IF mem[a + i] < mem[b + i] THEN -1 ELSE 1)
  BY <1>2, Zenon DEF Order, Differing, Least
<1> QED BY <1>1, <1>3, <1>4, Zenon DEF AnswersRight

\* A call that scans a string finds its end.
LEMMA strlenAnswers ==
  ASSUME mem \in Memories, NEW a \in Addresses, strlen(a)
  PROVE  AnswersRight'
<1>1. /\ mem' = mem /\ call'.f = "strlen" /\ call'.a = a /\ call'.result = Scanned(a)
  BY DEF strlen
<1>2. a \in Nat /\ MemSize \in Nat
  BY LibcStringAssumption DEF Addresses
<1>3. Nuls(a) # {}
  <2>1. PICK z \in a .. (MemSize - 1) : mem[z] = 0
    BY DEF strlen
  <2>2. z - a \in Nat /\ a + (z - a) = z
    BY <1>2
  <2>3. z - a \in Nuls(a)
    BY <2>1, <2>2 DEF Nuls
  <2> QED BY <2>3
<1> DEFINE z == Least(Nuls(a))
<1>4. call'.result = z
  BY <1>1, <1>3, ScansToTheFirstNul, Zenon
<1>5. z \in Nuls(a) /\ \A j \in Nuls(a) : z <= j
  <2>1. Nuls(a) \in SUBSET Nat
    BY DEF Nuls
  <2> QED BY <1>3, <2>1, LeastIsLeast, Zenon
<1> HIDE DEF z
<1>6. z \in Nat /\ mem[a + z] = 0
  BY <1>5 DEF Nuls
<1>7. ASSUME NEW p \in a .. (a + z - 1)
      PROVE  mem[p] # 0
  <2>1. p - a \in Nat /\ a + (p - a) = p /\ ~(z <= p - a)
    BY <1>2, <1>6
  <2> QED BY <1>5, <2>1 DEF Nuls
<1>8. call'.f # "memcmp"
  BY <1>1
<1> QED BY <1>1, <1>4, <1>6, <1>7, <1>8, Zenon DEF AnswersRight

\* What memset, memcpy and memmove leave.
LEMMA memsetLeaves ==
  ASSUME mem \in Memories, NEW a \in Addresses, NEW v \in Values,
         NEW size \in 0 .. MemSize, Fits(a, size), memset(a, v, size)
  PROVE  mem' = Set(mem, a, v % 256, size) /\ mem' \in Memories
<1>1. mem' = Set(mem, a, v % 256, size)
  BY FillsItsRange, Zenon DEF memset, Stored
<1>2. v % 256 \in 0 .. 255
  BY LibcStringAssumption
<1> QED BY <1>1, <1>2 DEF Set, Memories

LEMMA PartIsMemory ==
  ASSUME NEW m \in Memories, NEW a \in Addresses, NEW b \in Addresses,
         NEW size \in 0 .. MemSize, Fits(b, size)
  PROVE  Part(m, a, b, 0, size) \in Memories
<1>1. a \in Nat /\ b \in Nat /\ size \in Nat /\ MemSize \in Nat /\ b + size <= MemSize
  BY LibcStringAssumption DEF Addresses, Fits
<1>2. ASSUME NEW p \in Addresses, p \in (a + 0) .. (a + size - 1)
      PROVE  m[b + (p - a)] \in 0 .. 255
  <2>1. b + (p - a) \in Addresses
    BY <1>1, <1>2 DEF Addresses
  <2> QED BY <2>1 DEF Memories
<1> QED BY <1>2 DEF Part, Memories

LEMMA memcpyLeaves ==
  ASSUME mem \in Memories, NEW a \in Addresses, NEW b \in Addresses,
         NEW size \in 0 .. MemSize, Fits(a, size), Fits(b, size), memcpy(a, b, size)
  PROVE  mem' = Part(mem, a, b, 0, size) /\ mem' \in Memories
<1>1. mem' = Part(mem, a, b, 0, size)
  BY MovesUpward, Zenon DEF memcpy
<1> QED BY <1>1, PartIsMemory, Zenon

LEMMA memmoveLeaves ==
  ASSUME mem \in Memories, NEW a \in Addresses, NEW b \in Addresses,
         NEW size \in 0 .. MemSize, Fits(a, size), Fits(b, size), memmove(a, b, size)
  PROVE  mem' = Part(mem, a, b, 0, size) /\ mem' \in Memories
<1>1. a \in Int /\ b \in Int
  BY LibcStringAssumption DEF Addresses
<1>2. mem' = Part(mem, a, b, 0, size)
  <2>1. CASE a < b
    <3>1. mem' = Assign(mem, a, b, Upward(size))
      BY <2>1 DEF memmove, MoveOrder
    <3>2. a <= b
      BY <1>1, <2>1
    <3> QED BY <3>1, <3>2, MovesUpward, Zenon
  <2>2. CASE ~(a < b)
    <3>1. mem' = Assign(mem, a, b, Downward(size))
      BY <2>2 DEF memmove, MoveOrder
    <3>2. b <= a
      BY <1>1, <2>2
    <3> QED BY <3>1, <3>2, MovesDownward, Zenon
  <2> QED BY <2>1, <2>2
<1> QED BY <1>2, PartIsMemory, Zenon

LEMMA LibcInvStart == Init => LibcInv
<1> SUFFICES ASSUME Init PROVE LibcInv
  OBVIOUS
<1>1. mem \in Memories
  <2>1. CASE StringInit
    BY <2>1, LibcStringAssumption DEF StringInit, Memories
  <2>2. CASE mem = [a \in Addresses |-> 0]
    BY <2>2 DEF Memories
  <2> QED BY <2>1, <2>2 DEF Init
<1>2. call = [f |-> "none"]
  BY DEF Init, StringInit
<1>3. call.f # "memcmp" /\ call.f # "strlen"
  BY <1>2
<1> QED BY <1>1, <1>3 DEF LibcInv, AnswersRight

\* A step of the memory functions keeps the invariant and copies what was there.
LEMMA MemoryCallStep ==
  ASSUME LibcInv, StringNext
  PROVE  LibcInv' /\ Copied
<1> USE DEF LibcInv
<1>1. ASSUME NEW a \in Addresses, NEW size \in 0 .. MemSize, NEW v \in Values,
             Fits(a, size), memset(a, v, size)
      PROVE  LibcInv' /\ Copied
  <2>1. /\ call'.f = "memset" /\ call'.a = a /\ call'.b = v /\ call'.size = size
    BY <1>1 DEF memset
  <2>2. mem' = Set(mem, a, v % 256, size) /\ mem' \in Memories
    BY <1>1, memsetLeaves
  <2>3. AnswersRight'
    BY <2>1 DEF AnswersRight
  <2>4. Copied
    BY <2>1, <2>2 DEF Copied, Overwritten, Set
  <2> QED BY <2>2, <2>3, <2>4
<1>2. ASSUME NEW a \in Addresses, NEW b \in Addresses, NEW size \in 0 .. MemSize,
             Fits(a, size), Fits(b, size), memcpy(a, b, size) \/ memmove(a, b, size)
      PROVE  LibcInv' /\ Copied
  <2>1. /\ call'.f \in {"memcpy", "memmove"} /\ call'.a = a /\ call'.b = b
        /\ call'.size = size
    BY <1>2 DEF memcpy, memmove
  <2>2. mem' = Part(mem, a, b, 0, size) /\ mem' \in Memories
    BY <1>2, memcpyLeaves, memmoveLeaves
  <2>3. AnswersRight'
    BY <2>1 DEF AnswersRight
  <2>4. Copied
    <3>1. a + 0 = a
      BY LibcStringAssumption DEF Addresses
    <3>2. Overwritten(a, size, LAMBDA i : mem[b + i])
      BY <2>2, <3>1 DEF Overwritten, Part
    <3> QED BY <2>1, <3>2 DEF Copied, Overwritten
  <2> QED BY <2>2, <2>3, <2>4
<1>3. ASSUME NEW a \in Addresses, NEW b \in Addresses, NEW size \in 0 .. MemSize,
             Fits(a, size), Fits(b, size), memcmp(a, b, size)
      PROVE  LibcInv' /\ Copied
  <2>1. call'.f = "memcmp" /\ mem' = mem
    BY <1>3 DEF memcmp
  <2>2. AnswersRight'
    BY <1>3, memcmpAnswers
  <2>3. Copied
    BY <2>1 DEF Copied
  <2> QED BY <2>1, <2>2, <2>3
<1>4. ASSUME NEW a \in Addresses, strlen(a)
      PROVE  LibcInv' /\ Copied
  <2>1. call'.f = "strlen" /\ mem' = mem
    BY <1>4 DEF strlen
  <2>2. AnswersRight'
    BY <1>4, strlenAnswers
  <2>3. Copied
    BY <2>1 DEF Copied
  <2> QED BY <2>1, <2>2, <2>3
<1> QED BY <1>1, <1>2, <1>3, <1>4 DEF StringNext

LEMMA LibcInvKept == LibcInv /\ [Next]_vars => LibcInv' /\ [Copied]_stringVars
<1> SUFFICES ASSUME LibcInv, [Next]_vars
             PROVE  LibcInv' /\ [Copied]_stringVars
  OBVIOUS
<1>1. CASE MemoryCall
  BY <1>1, MemoryCallStep DEF MemoryCall
<1>2. CASE UNCHANGED stringVars
  BY <1>2 DEF LibcInv, AnswersRight, stringVars
<1>3. MemoryCall \/ UNCHANGED stringVars
  BY DEF Next, PrintStep, vars
<1> QED BY <1>1, <1>2, <1>3

\* In every reachable state the memory holds bytes, and the last answer is right.
THEOREM LibcInvariance == Spec => []LibcInv
<1>1. Init => LibcInv
  BY LibcInvStart
<1>2. LibcInv /\ [Next]_vars => LibcInv'
  BY LibcInvKept
<1> QED BY <1>1, <1>2, PTL DEF Spec

\* memcmp gives the order of the first byte in which two ranges differ, whatever
\* their contents and sizes, and strlen the distance to the first NUL.
THEOREM AnswersAreRight == Spec => []AnswersRight
<1>1. LibcInv => AnswersRight
  BY DEF LibcInv
<1> QED BY <1>1, LibcInvariance, PTL

\* memcpy, and memmove in whichever direction it goes, however the ranges overlap,
\* leave in the destination exactly what the source held before the call; memset
\* leaves its byte in exactly its range.
THEOREM CopiesAreExact == Spec => CopiesWhatWasThere
<1>1. LibcInv /\ [Next]_vars => [Copied]_stringVars
  BY LibcInvKept
<1> QED BY <1>1, LibcInvariance, PTL DEF Spec, CopiesWhatWasThere

\* At every point of a call, printf, puts or abort has put the text of the format up
\* to where it stands, and still has the arguments of the rest.
THEOREM PrintfInvariance == Spec => []PrintfInv
<1>1. Init => PrintfInv
  BY PrintfInvStart DEF Init
<1>2. PrintfInv /\ [Next]_vars => PrintfInv'
  BY PrintfInvKept DEF Next, MemoryCall, PrintStep, vars
<1> QED BY <1>1, <1>2, PTL DEF Spec

\* For every format and all arguments, what has been put is the beginning of the text
\* the format stands for; a result other than -1 is the length of the whole text, and
\* -1 is returned only for a text longer than an int can count.
THEOREM PrintfCounts == Spec => []CountsTheText
BY PrintfInvariance, PrintfInvCounts, PTL
=============================================================================
