----------------------------- MODULE LibcString -----------------------------
(***************************************************************************)
(* The memory functions of libc, called one after the other on one memory: *)
(*   src/libc/string/{memset,memcpy,memmove,memcmp,strlen}.c               *)
(* A loop is a function of the rounds it has made, over the indices in the *)
(* order the code visits them, so that a byte it has overwritten is read   *)
(* as overwritten.                                                         *)
(***************************************************************************)
EXTENDS Integers, Sequences

CONSTANTS
  MemSize,    \* bytes of memory
  Bytes,      \* the values of a byte that occur
  Values      \* ints handed to memset

ASSUME LibcStringAssumption ==
  /\ MemSize \in Nat \ {0}
  /\ Bytes \subseteq 0 .. 255
  /\ Values \subseteq Int
  /\ \A v \in Values : (v % 256) \in Bytes

VARIABLES
  mem,        \* the memory
  call        \* the last call: [f, a, b, size, result]

stringVars == <<mem, call>>

Addresses == 0 .. (MemSize - 1)

-----------------------------------------------------------------------------
Upward(size) == [k \in 1 .. size |-> k - 1]
Downward(size) == [k \in 1 .. size |-> size - k]

\* dst[i] = src[i] for the indices is, in that order.
Assign(m, dst, src, is) ==
  LET after[k \in 0 .. Len(is)] ==
        IF k = 0 THEN m
        ELSE [after[k - 1] EXCEPT ![dst + is[k]] = after[k - 1][src + is[k]]]
  IN  after[Len(is)]

\* (unsigned char) value
Stored(v) == v % 256

StringInit ==
  /\ mem \in [Addresses -> Bytes]
  /\ call = [f |-> "none"]

\* dst[i] = byte for i < size.
Fill(m, dst, byte, size) ==
  LET after[k \in 0 .. size] ==
        IF k = 0 THEN m ELSE [after[k - 1] EXCEPT ![dst + (k - 1)] = byte]
  IN  after[size]

memset(a, v, size) ==
  /\ mem' = Fill(mem, a, Stored(v), size)
  /\ call' = [f |-> "memset", a |-> a, b |-> v, size |-> size, result |-> a]

Disjoint(a, b, size) == a + size <= b \/ b + size <= a

\* restrict: the callers' objects do not overlap.
memcpy(a, b, size) ==
  /\ Disjoint(a, b, size)
  /\ mem' = Assign(mem, a, b, Upward(size))
  /\ call' = [f |-> "memcpy", a |-> a, b |-> b, size |-> size, result |-> a]

\* Mutant: always upward.
MoveOrderUpward(a, b, size) == Upward(size)
MoveOrder(a, b, size) == IF a < b THEN Upward(size) ELSE Downward(size)

memmove(a, b, size) ==
  /\ mem' = Assign(mem, a, b, MoveOrder(a, b, size))
  /\ call' = [f |-> "memmove", a |-> a, b |-> b, size |-> size, result |-> a]

\* Mutant: plain char is signed.
LessSigned(x, y) == (x + 128) % 256 < (y + 128) % 256
\* a[i] < b[i] on unsigned char.
Less(x, y) == x < y

\* The loop up to its first return.
Compared(a, b, size) ==
  LET answer[k \in 0 .. size] ==
        IF k = 0 THEN 0
        ELSE IF answer[k - 1] # 0 THEN answer[k - 1]
        ELSE IF Less(mem[a + (k - 1)], mem[b + (k - 1)]) THEN -1
        ELSE IF Less(mem[b + (k - 1)], mem[a + (k - 1)]) THEN 1 ELSE 0
  IN  answer[size]

memcmp(a, b, size) ==
  /\ call' = [f |-> "memcmp", a |-> a, b |-> b, size |-> size,
              result |-> Compared(a, b, size)]
  /\ UNCHANGED mem

Scanned(a) ==
  LET len[k \in Nat] == IF mem[a + k] # 0 THEN len[k + 1] ELSE k IN len[0]

\* str is a string: a NUL follows.
strlen(a) ==
  /\ \E z \in a .. (MemSize - 1) : mem[z] = 0
  /\ call' = [f |-> "strlen", a |-> a, b |-> a, size |-> 0, result |-> Scanned(a)]
  /\ UNCHANGED mem

\* size bytes from a on are in the memory.
Fits(a, size) == a + size <= MemSize

StringNext ==
  \E a \in Addresses, size \in 0 .. MemSize :
    \/ Fits(a, size) /\ \E v \in Values : memset(a, v, size)
    \/ \E b \in Addresses :
         /\ Fits(a, size) /\ Fits(b, size)
         /\ memcpy(a, b, size) \/ memmove(a, b, size) \/ memcmp(a, b, size)
    \/ strlen(a)

-----------------------------------------------------------------------------
(***************************************************************************)
(* Properties.                                                             *)
(***************************************************************************)

\* The size bytes from a on are what f says, and no other byte changes.
Overwritten(a, size, f(_)) ==
  mem' = [p \in Addresses |-> IF p \in a .. (a + size - 1) THEN f(p - a) ELSE mem[p]]

\* What a call of memcpy, memmove or memset may do to the memory.
Copied ==
  /\ (call'.f \in {"memcpy", "memmove"})
       => Overwritten(call'.a, call'.size, LAMBDA i : mem[call'.b + i])
  /\ (call'.f = "memset")
       => Overwritten(call'.a, call'.size, LAMBDA i : call'.b % 256)

\* memmove and memcpy leave in the destination what the source held before the
\* call, overlapping or not, and touch nothing else; memset fills exactly its range.
CopiesWhatWasThere == [][Copied]_stringVars

\* memcmp orders two ranges by the first byte in which they differ, as unsigned, and
\* strlen is the distance to the first NUL.
AnswersRight ==
  /\ (call.f = "memcmp") =>
       LET differ == {i \in 0 .. (call.size - 1) : mem[call.a + i] # mem[call.b + i]}
       IN  IF differ = {} THEN call.result = 0
           ELSE LET i == CHOOSE k \in differ : \A j \in differ : k <= j
                IN  call.result = (IF mem[call.a + i] < mem[call.b + i] THEN -1 ELSE 1)
  /\ (call.f = "strlen") =>
       /\ mem[call.a + call.result] = 0
       /\ \A p \in call.a .. (call.a + call.result - 1) : mem[p] # 0
=============================================================================
