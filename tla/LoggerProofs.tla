---------------------------- MODULE LoggerProofs ----------------------------
(***************************************************************************)
(* Theorems about Printf of the logger, for every size of int, every       *)
(* format and all arguments.                                               *)
(***************************************************************************)
EXTENDS Logger, SequenceTheorems, WellFoundedInduction, TLAPS

-----------------------------------------------------------------------------
(***************************************************************************)
(* Recursive functions.                                                    *)
(***************************************************************************)

\* Induction, over a set.
LEMMA Induction ==
  ASSUME NEW S \in SUBSET Nat, 0 \in S, \A k \in Nat : k \in S => k + 1 \in S
  PROVE  \A k \in Nat : k \in S
<1> DEFINE Missing == Nat \ S
<1> SUFFICES ASSUME Missing # {} PROVE FALSE
  OBVIOUS
<1>1. PICK x \in Missing : \A y \in Missing : ~(<<y, x>> \in OpToRel(<, Nat))
  <2>1. Missing \in SUBSET Nat
    OBVIOUS
  <2> HIDE DEF Missing
  <2> QED BY <2>1, NatLessThanWellFounded, WFMin
<1>2. x \in Nat /\ x \notin S /\ x # 0
  BY <1>1
<1>3. x - 1 \in Nat /\ (x - 1) + 1 = x /\ x - 1 < x
  BY <1>2
<1>4. x - 1 \in Missing
  BY <1>2, <1>3
<1>5. <<x - 1, x>> \in OpToRel(<, Nat)
  <2>1. <<x - 1, x>> \in Nat \X Nat /\ <<x - 1, x>>[1] = x - 1 /\ <<x - 1, x>>[2] = x
    BY <1>2, <1>3
  <2> QED BY <1>3, <2>1, Zenon DEF OpToRel
<1> HIDE DEF Missing
<1> QED BY <1>1, <1>4, <1>5, Zenon

\* g[k], for k up to m, is made from the value at an earlier place, back[k].
Upto(m, g, S, start, back, step) ==
  /\ g \in [0 .. m -> S]
  /\ g[0] = start
  /\ \A k \in 1 .. m : g[k] = step[k][g[back[k]]]

Follows(g, S, start, back, step) ==
  /\ g \in [Nat -> S]
  /\ g[0] = start
  /\ \A k \in Nat \ {0} : g[k] = step[k][g[back[k]]]

\* Such a function exists.
LEMMA Recursion ==
  ASSUME NEW S, NEW start \in S, NEW back \in [Nat -> Nat], NEW step \in [Nat -> [S -> S]],
         \A k \in Nat \ {0} : back[k] < k
  PROVE  \E g : Follows(g, S, start, back, step)
<1> DEFINE U(m, g) == Upto(m, g, S, start, back, step)
<1>1. ASSUME NEW m \in Nat PROVE \E g : U(m, g)
  <2> DEFINE Done == {k \in Nat : \E g : U(k, g)}
  <2>1. 0 \in Done
    <3> DEFINE g == [k \in 0 .. 0 |-> start]
    <3>1. g \in [0 .. 0 -> S] /\ g[0] = start /\ \A k \in 1 .. 0 : g[k] = step[k][g[back[k]]]
      OBVIOUS
    <3>2. U(0, g)
      BY <3>1 DEF Upto
    <3> QED BY <3>2
  <2>2. ASSUME NEW n \in Nat, n \in Done PROVE n + 1 \in Done
    <3>1. PICK g : U(n, g)
      BY <2>2
    <3>2. /\ g \in [0 .. n -> S] /\ g[0] = start
          /\ \A k \in 1 .. n : g[k] = step[k][g[back[k]]]
      BY <3>1 DEF Upto
    <3> DEFINE new == step[n + 1][g[back[n + 1]]]
               h == [k \in 0 .. (n + 1) |-> IF k <= n THEN g[k] ELSE new]
    <3>3. n + 1 \in Nat \ {0} /\ back[n + 1] \in 0 .. n
      <4>1. n + 1 \in Nat \ {0} /\ back[n + 1] \in Nat /\ back[n + 1] < n + 1
        OBVIOUS
      <4> QED BY <4>1
    <3>4. new \in S
      <4>1. g[back[n + 1]] \in S /\ step[n + 1] \in [S -> S]
        BY <3>2, <3>3
      <4> QED BY <4>1
    <3>5. h \in [0 .. (n + 1) -> S]
      <4> HIDE DEF new
      <4> QED BY <3>2, <3>4
    <3>6. \A k \in 0 .. n : h[k] = g[k]
      OBVIOUS
    <3>7. h[n + 1] = new
      OBVIOUS
    <3> HIDE DEF h
    <3>8. h[0] = start
      <4>1. 0 \in 0 .. n
        OBVIOUS
      <4> QED BY <3>2, <3>6, <4>1
    <3>9. ASSUME NEW k \in 1 .. (n + 1) PROVE h[k] = step[k][h[back[k]]]
      <4>1. CASE k = n + 1
        BY <3>3, <3>6, <3>7, <4>1, Zenon
      <4>2. CASE k # n + 1
        <5>1. k \in 1 .. n /\ k \in 0 .. n /\ k \in Nat \ {0}
          BY <4>2
        <5>2. back[k] \in Nat /\ back[k] < k
          BY <5>1
        <5>3. back[k] \in 0 .. n
          BY <5>1, <5>2
        <5> QED BY <3>2, <3>6, <5>1, <5>3, Zenon
      <4> QED BY <4>1, <4>2
    <3>10. U(n + 1, h)
      BY <3>5, <3>8, <3>9, Zenon DEF Upto
    <3> QED BY <3>10
  <2>3. Done \in SUBSET Nat
    OBVIOUS
  <2> HIDE DEF Done, U
  <2>4. m \in Done
    BY <2>1, <2>2, <2>3, Induction
  <2> QED BY <2>4 DEF Done
<1>2. ASSUME NEW m \in Nat, NEW n \in Nat, NEW g, NEW h, U(m, g), U(n, h)
      PROVE  \A k \in Nat : k <= m /\ k <= n => g[k] = h[k]
  <2>1. /\ g[0] = start /\ \A k \in 1 .. m : g[k] = step[k][g[back[k]]]
        /\ h[0] = start /\ \A k \in 1 .. n : h[k] = step[k][h[back[k]]]
    BY <1>2 DEF Upto
  <2> HIDE DEF U
  <2> DEFINE Same == {k \in Nat : \A j \in 0 .. k : j <= m /\ j <= n => g[j] = h[j]}
  <2>2. 0 \in Same
    BY <2>1
  <2>3. ASSUME NEW k \in Nat, k \in Same PROVE k + 1 \in Same
    <3> SUFFICES ASSUME NEW j \in 0 .. (k + 1), j <= m, j <= n PROVE g[j] = h[j]
      OBVIOUS
    <3>1. CASE j \in 0 .. k
      BY <2>3, <3>1
    <3>2. CASE j \notin 0 .. k
      <4>1. j = k + 1 /\ j \in 1 .. m /\ j \in 1 .. n /\ j \in Nat \ {0}
        BY <3>2
      <4>2. back[j] \in Nat /\ back[j] < j
        BY <4>1
      <4>3. back[j] \in 0 .. k /\ back[j] <= m /\ back[j] <= n
        BY <4>1, <4>2
      <4>4. g[back[j]] = h[back[j]]
        BY <2>3, <4>3
      <4> QED BY <2>1, <4>1, <4>4, Zenon
    <3> QED BY <3>1, <3>2
  <2>4. Same \in SUBSET Nat
    OBVIOUS
  <2>5. ASSUME NEW k \in Nat PROVE k \in Same
    <3> HIDE DEF Same
    <3> QED BY <2>2, <2>3, <2>4, Induction
  <2> QED BY <2>5
<1> DEFINE G(m) == CHOOSE g : U(m, g)
           f == [k \in Nat |-> G(k)[k]]
<1>3. \A m \in Nat : U(m, G(m))
  <2> HIDE DEF U
  <2> QED BY <1>1
<1>4. \A m \in Nat :
        /\ G(m) \in [0 .. m -> S] /\ G(m)[0] = start
        /\ \A k \in 1 .. m : G(m)[k] = step[k][G(m)[back[k]]]
  BY <1>3, Zenon DEF Upto
<1> HIDE DEF U, G
<1>5. f \in [Nat -> S] /\ \A k \in Nat : f[k] = G(k)[k]
  <2>1. ASSUME NEW k \in Nat PROVE G(k)[k] \in S
    <3>1. k \in 0 .. k
      OBVIOUS
    <3> QED BY <1>4, <3>1
  <2> QED BY <2>1
<1> HIDE DEF f
<1>6. f[0] = start
  BY <1>4, <1>5
<1>7. ASSUME NEW k \in Nat \ {0} PROVE f[k] = step[k][f[back[k]]]
  <2>1. k \in Nat /\ k \in 1 .. k /\ back[k] \in Nat /\ back[k] <= k /\ back[k] <= back[k]
    <3>1. back[k] \in Nat /\ back[k] < k
      OBVIOUS
    <3> QED BY <3>1
  <2>2. f[k] = step[k][G(k)[back[k]]]
    BY <1>4, <1>5, <2>1
  <2>3. U(k, G(k)) /\ U(back[k], G(back[k]))
    BY <1>3, <2>1
  <2>4. G(k)[back[k]] = G(back[k])[back[k]]
    <3> DEFINE g == G(k)
               h == G(back[k])
               n == back[k]
    <3>1. U(k, g) /\ U(n, h) /\ k \in Nat /\ n \in Nat /\ n <= k /\ n <= n
      BY <2>1, <2>3
    <3> HIDE DEF g, h, n
    <3>2. \A j \in Nat : j <= k /\ j <= n => g[j] = h[j]
      BY <1>2, <3>1
    <3>3. g[n] = h[n]
      BY <3>1, <3>2
    <3> QED BY <3>3 DEF g, h, n
  <2> QED BY <1>5, <2>1, <2>2, <2>4, Zenon
<1>8. Follows(f, S, start, back, step)
  BY <1>5, <1>6, <1>7, Zenon DEF Follows
<1> QED BY <1>8

-----------------------------------------------------------------------------
(***************************************************************************)
(* Numbers: the digits the loops make, and the numeral they should.        *)
(***************************************************************************)

LEMMA Divided ==
  ASSUME NEW n \in Nat, NEW d \in Nat \ {0}
  PROVE  /\ n \div d \in Nat /\ n % d \in 0 .. (d - 1)
         /\ n = d * (n \div d) + (n % d)
BY SMT

LEMMA QuotientIs ==
  ASSUME NEW d \in Nat \ {0}, NEW q \in Nat, NEW r \in 0 .. (d - 1)
  PROVE  (d * q + r) \div d = q
BY SMT

\* Dividing twice.
LEMMA DividedTwice ==
  ASSUME NEW n \in Nat, NEW b \in Nat \ {0}, NEW p \in Nat \ {0}
  PROVE  (n \div b) \div p = n \div (b * p)
<1> DEFINE q == n \div b
           r == n % b
           s == q \div p
           t == q % p
           d == b * p
           u == b * t + r
<1>1. q \in Nat /\ r \in 0 .. (b - 1) /\ n = b * q + r
  BY Divided
<1>2. s \in Nat /\ t \in 0 .. (p - 1) /\ q = p * s + t
  <2> HIDE DEF q
  <2> QED BY <1>1, Divided
<1> HIDE DEF q, r, s, t
<1>3. d \in Nat \ {0}
  BY SMT
<1>4. n = d * s + u
  <2>1. b * (p * s + t) = (b * p) * s + b * t
    BY <1>2, SMT
  <2> QED BY <1>1, <1>2, <2>1
<1>5. u \in 0 .. (d - 1)
  <2>1. b * t <= b * (p - 1)
    BY <1>2, SMT
  <2>2. b * (p - 1) = b * p - b
    BY SMT
  <2>3. b * t \in Nat
    BY <1>2, SMT
  <2> QED BY <1>1, <1>3, <2>1, <2>2, <2>3
<1> HIDE DEF d, u
<1>6. (d * s + u) \div d = s
  BY <1>2, <1>3, <1>5, QuotientIs
<1>7. n \div d = s
  BY <1>4, <1>6
<1> QED BY <1>7 DEF q, s, d

Bases == {10, 16}

PowerFollows(b) ==
  /\ Power(b)[0] = 1
  /\ \A k \in Nat \ {0} : Power(b)[k] = b * Power(b)[k - 1]
  /\ \A k \in Nat : Power(b)[k] \in Nat \ {0}

LEMMA PowerIs ==
  ASSUME NEW b \in Bases
  PROVE  PowerFollows(b)
<1> DEFINE P == Nat \ {0}
           Rounds(g) == g = [k \in Nat |-> IF k = 0 THEN 1 ELSE b * g[k - 1]]
           back == [k \in Nat |-> IF k = 0 THEN 0 ELSE k - 1]
           step == [k \in Nat |-> [r \in P |-> b * r]]
<1>1. Power(b) = CHOOSE g : Rounds(g)
  BY DEF Power
<1>2. \A r \in P : b * r \in P
  BY DEF Bases
<1>3. 1 \in P /\ back \in [Nat -> Nat] /\ \A k \in Nat \ {0} : back[k] < k /\ back[k] = k - 1
  OBVIOUS
<1> HIDE DEF P
<1>4. step \in [Nat -> [P -> P]] /\ \A k \in Nat, r \in P : step[k][r] = b * r
  BY <1>2
<1> HIDE DEF back, step
<1>5. PICK g : Follows(g, P, 1, back, step)
  BY <1>3, <1>4, Recursion, Zenon
<1>6. g \in [Nat -> P] /\ g[0] = 1 /\ \A k \in Nat \ {0} : g[k] = step[k][g[back[k]]]
  BY <1>5, Zenon DEF Follows
<1>7. ASSUME NEW k \in Nat PROVE g[k] = IF k = 0 THEN 1 ELSE b * g[k - 1]
  <2>1. CASE k = 0
    BY <1>6, <2>1
  <2>2. CASE k # 0
    <3>1. k \in Nat \ {0} /\ k - 1 \in Nat /\ back[k] = k - 1
      BY <1>3, <2>2
    <3>2. g[k - 1] \in P
      BY <1>6, <3>1
    <3> QED BY <1>4, <1>6, <2>2, <3>1, <3>2, Zenon
  <2> QED BY <2>1, <2>2
<1>8. Rounds(g)
  <2>1. g = [k \in Nat |-> g[k]]
    BY <1>6
  <2> QED BY <1>7, <2>1, Zenon
<1>9. Rounds(Power(b))
  BY <1>1, <1>8, Zenon
<1>10. \A k \in Nat : Power(b)[k] = IF k = 0 THEN 1 ELSE b * Power(b)[k - 1]
  BY <1>9, Zenon
<1> HIDE DEF Rounds
<1>11. Power(b)[0] = 1 /\ \A k \in Nat \ {0} : Power(b)[k] = b * Power(b)[k - 1]
  BY <1>10
<1>12. \A k \in Nat : Power(b)[k] \in P
  <2> DEFINE Typed == {k \in Nat : Power(b)[k] \in P}
  <2>1. 0 \in Typed
    BY <1>3, <1>11
  <2>2. ASSUME NEW k \in Nat, k \in Typed PROVE k + 1 \in Typed
    <3>1. k + 1 \in Nat \ {0} /\ (k + 1) - 1 = k
      OBVIOUS
    <3>2. Power(b)[k + 1] = b * Power(b)[k]
      BY <1>11, <3>1
    <3> QED BY <1>2, <2>2, <3>1, <3>2, Zenon
  <2>3. Typed \in SUBSET Nat
    OBVIOUS
  <2> HIDE DEF Typed
  <2>4. \A k \in Nat : k \in Typed
    BY <2>1, <2>2, <2>3, Induction
  <2> QED BY <2>4 DEF Typed
<1> QED BY <1>11, <1>12, Zenon DEF PowerFollows, P

LEMMA PowerGrows ==
  ASSUME NEW b \in Bases, NEW h \in Nat, NEW j \in Nat, h <= j
  PROVE  Power(b)[h] <= Power(b)[j]
<1> DEFINE P == Power(b)
           Grown == {k \in Nat : P[h] <= P[h + k]}
<1>1. (\A k \in Nat \ {0} : P[k] = b * P[k - 1]) /\ \A k \in Nat : P[k] \in Nat \ {0}
  BY PowerIs DEF PowerFollows
<1> HIDE DEF P
<1>2. 0 \in Grown
  BY <1>1
<1>3. ASSUME NEW k \in Nat, k \in Grown PROVE k + 1 \in Grown
  <2>1. h + (k + 1) \in Nat \ {0} /\ (h + (k + 1)) - 1 = h + k /\ h + k \in Nat
    OBVIOUS
  <2>2. P[h + (k + 1)] = b * P[h + k] /\ P[h + k] \in Nat /\ P[h] \in Nat /\ P[h] <= P[h + k]
    BY <1>1, <1>3, <2>1
  <2>3. P[h + k] <= b * P[h + k]
    BY <2>2 DEF Bases
  <2>4. P[h] <= P[h + (k + 1)]
    BY <2>2, <2>3 DEF Bases
  <2> QED BY <2>4
<1>4. Grown \in SUBSET Nat
  OBVIOUS
<1>5. j - h \in Nat /\ h + (j - h) = j
  OBVIOUS
<1>6. j - h \in Grown
  <2> HIDE DEF Grown
  <2> QED BY <1>2, <1>3, <1>4, <1>5, Induction
<1> QED BY <1>5, <1>6 DEF P

LEMMA PowerExceeds ==
  ASSUME NEW b \in Bases, NEW j \in Nat
  PROVE  j + 1 <= Power(b)[j]
<1> DEFINE P == Power(b)
           Grown == {k \in Nat : k + 1 <= P[k]}
<1>1. /\ P[0] = 1 /\ \A k \in Nat \ {0} : P[k] = b * P[k - 1]
      /\ \A k \in Nat : P[k] \in Nat \ {0}
  BY PowerIs DEF PowerFollows
<1> HIDE DEF P
<1>2. 0 \in Grown
  BY <1>1
<1>3. ASSUME NEW k \in Nat, k \in Grown PROVE k + 1 \in Grown
  <2>1. k + 1 \in Nat \ {0} /\ (k + 1) - 1 = k
    OBVIOUS
  <2>2. P[k + 1] = b * P[k] /\ P[k] \in Nat /\ k + 1 <= P[k]
    BY <1>1, <1>3, <2>1
  <2>3. (k + 1) + 1 <= P[k + 1]
    BY <2>2 DEF Bases
  <2> QED BY <2>3
<1>4. Grown \in SUBSET Nat
  OBVIOUS
<1>6. j \in Grown
  <2> HIDE DEF Grown
  <2> QED BY <1>2, <1>3, <1>4, Induction
<1> QED BY <1>6 DEF P

\* What the writer is handed is made of: STRING, with the characters of numbers and the
\* prefixes of the levels named, because the provers do not place a literal in STRING.
Characters ==
  STRING \cup {"0", "1", "2", "3", "4", "5", "6", "7", "8", "9",
               "A", "B", "C", "D", "E", "F", "-", "x"} \cup Levels

LEMMA DigitIs ==
  ASSUME NEW d \in 0 .. 15
  PROVE  DigitChar(d) = DigitChars[d + 1] /\ DigitChar(d) \in Characters
<1>1. DigitChar(d) = DigitChars[d + 1]
  BY DEF DigitChar
<1>2. DigitChars[d + 1] \in Characters
  BY DEF DigitChars, Characters
<1> QED BY <1>1, <1>2

DigitsFollow(b) ==
  /\ Digits(0, b) = <<>>
  /\ \A n \in Nat \ {0} : Digits(n, b) = <<DigitChar(n % b)>> \o Digits(n \div b, b)
  /\ \A n \in Nat : Digits(n, b) \in Seq(Characters)

LEMMA DigitsAre ==
  ASSUME NEW b \in Bases
  PROVE  DigitsFollow(b)
<1> DEFINE S == Seq(Characters)
           c(k) == <<DigitChar(k % b)>>
           Rounds(g) == g = [k \in Nat |-> IF k = 0 THEN <<>> ELSE c(k) \o g[k \div b]]
           D == CHOOSE g : Rounds(g)
           back == [k \in Nat |-> k \div b]
           step == [k \in Nat |-> [r \in S |-> c(k) \o r]]
<1>1. \A n : Digits(n, b) = D[n]
  BY DEF Digits
<1>2. ASSUME NEW k \in Nat PROVE k % b \in 0 .. 15 /\ k \div b \in Nat
  BY DEF Bases
<1>3. ASSUME NEW k \in Nat \ {0} PROVE k \div b < k
  BY DEF Bases
<1>4. ASSUME NEW k \in Nat PROVE c(k) \in S
  <2>1. DigitChar(k % b) \in Characters
    BY <1>2, DigitIs
  <2> QED BY <2>1
<1>5. <<>> \in S /\ \A r, t \in S : r \o t \in S
  OBVIOUS
<1> HIDE DEF S, c
<1>6. back \in [Nat -> Nat] /\ \A k \in Nat : back[k] = k \div b
  BY <1>2
<1>7. step \in [Nat -> [S -> S]] /\ \A k \in Nat, r \in S : step[k][r] = c(k) \o r
  BY <1>4, <1>5
<1> HIDE DEF back, step
<1>8. PICK g : Follows(g, S, <<>>, back, step)
  <2>1. \A k \in Nat \ {0} : back[k] < k
    BY <1>3, <1>6
  <2> QED BY <1>5, <1>6, <1>7, <2>1, Recursion, Zenon
<1>9. g \in [Nat -> S] /\ g[0] = <<>> /\ \A k \in Nat \ {0} : g[k] = step[k][g[back[k]]]
  BY <1>8, Zenon DEF Follows
<1>10. ASSUME NEW k \in Nat PROVE g[k] = IF k = 0 THEN <<>> ELSE c(k) \o g[k \div b]
  <2>1. CASE k = 0
    BY <1>9, <2>1
  <2>2. CASE k # 0
    <3>1. k \in Nat \ {0} /\ k \div b \in Nat /\ back[k] = k \div b
      BY <1>2, <1>6, <2>2
    <3>2. g[k \div b] \in S
      BY <1>9, <3>1
    <3> QED BY <1>7, <1>9, <2>2, <3>1, <3>2, Zenon
  <2> QED BY <2>1, <2>2
<1>11. Rounds(g)
  <2>1. g = [k \in Nat |-> g[k]]
    BY <1>9
  <2> QED BY <1>10, <2>1, Zenon
<1>12. Rounds(D)
  BY <1>11, Zenon
<1> HIDE DEF D
<1>13. \A k \in Nat : D[k] = IF k = 0 THEN <<>> ELSE c(k) \o D[k \div b]
  BY <1>12, Zenon
<1> HIDE DEF Rounds
<1>14. D[0] = <<>> /\ \A k \in Nat \ {0} : D[k] = c(k) \o D[k \div b]
  BY <1>13
<1>15. \A k \in Nat : D[k] \in S
  <2> DEFINE Typed == {k \in Nat : \A j \in 0 .. k : D[j] \in S}
  <2>1. 0 \in Typed
    BY <1>5, <1>14
  <2>2. ASSUME NEW k \in Nat, k \in Typed PROVE k + 1 \in Typed
    <3>1. ASSUME NEW j \in 0 .. (k + 1) PROVE D[j] \in S
      <4>1. CASE j \in 0 .. k
        BY <2>2, <4>1
      <4>2. CASE j \notin 0 .. k
        <5>1. j \in Nat \ {0} /\ j = k + 1
          BY <4>2
        <5>2. j \div b \in Nat /\ j \div b < j
          BY <1>2, <1>3, <5>1
        <5>3. j \div b \in 0 .. k
          BY <5>1, <5>2
        <5>4. D[j \div b] \in S /\ c(j) \in S
          BY <1>4, <2>2, <5>1, <5>3
        <5> QED BY <1>5, <1>14, <5>1, <5>4, Zenon
      <4> QED BY <4>1, <4>2
    <3> QED BY <3>1
  <2>3. Typed \in SUBSET Nat
    OBVIOUS
  <2>4. \A k \in Nat : k \in Typed
    <3> HIDE DEF Typed
    <3> QED BY <2>1, <2>2, <2>3, Induction
  <2> QED BY <2>4
<1> QED BY <1>1, <1>14, <1>15, Zenon DEF DigitsFollow, S, c

\* The digits of n >= 1 are as many as a numeral has, and each is the one of its place.
Right(n, b, s) ==
  /\ s \in Seq(Characters) /\ Len(s) \in Nat \ {0}
  /\ Power(b)[Len(s) - 1] <= n /\ n < Power(b)[Len(s)]
  /\ \A j \in 1 .. Len(s) : s[j] = DigitChar((n \div Power(b)[j - 1]) % b)

LEMMA RightForDigit ==
  ASSUME NEW b \in Bases, NEW n \in Nat \ {0}, n < b
  PROVE  Right(n, b, Digits(n, b))
<1> DEFINE c == DigitChar(n % b)
<1>1. n \div b = 0 /\ n % b \in 0 .. 15 /\ b \in Nat \ {0}
  BY DEF Bases
<1>2. c \in Characters
  BY <1>1, DigitIs
<1>3. Digits(n, b) = <<c>> \o <<>>
  BY <1>1, DigitsAre DEF DigitsFollow
<1>4. Power(b)[0] = 1 /\ Power(b)[1] = b
  <2>1. Power(b)[0] = 1 /\ Power(b)[1] = b * Power(b)[1 - 1]
    BY PowerIs DEF PowerFollows
  <2> QED BY <1>1, <2>1
<1>5. n \div Power(b)[0] = n
  BY <1>4
<1> HIDE DEF c
<1>6. <<c>> \o <<>> = <<c>> /\ <<c>> \in Seq(Characters) /\ Len(<<c>>) = 1
  BY <1>2
<1>7. ASSUME NEW j \in 1 .. 1 PROVE <<c>>[j] = DigitChar((n \div Power(b)[j - 1]) % b)
  <2>1. j = 1 /\ j - 1 = 0 /\ <<c>>[j] = c
    OBVIOUS
  <2> QED BY <1>5, <2>1 DEF c
<1>8. Right(n, b, <<c>>)
  <2>1. /\ Power(b)[Len(<<c>>) - 1] <= n /\ n < Power(b)[Len(<<c>>)]
    BY <1>4, <1>6
  <2>2. \A j \in 1 .. Len(<<c>>) : <<c>>[j] = DigitChar((n \div Power(b)[j - 1]) % b)
    BY <1>6, <1>7
  <2>3. Len(<<c>>) \in Nat \ {0}
    BY <1>6
  <2> QED BY <1>6, <2>1, <2>2, <2>3, Zenon DEF Right
<1> QED BY <1>3, <1>6, <1>8, Zenon

LEMMA RightForMore ==
  ASSUME NEW b \in Bases, NEW n \in Nat \ {0}, b <= n,
         Right(n \div b, b, Digits(n \div b, b))
  PROVE  Right(n, b, Digits(n, b))
<1> DEFINE q == n \div b
           c == DigitChar(n % b)
           t == Digits(q, b)
           s == <<c>> \o t
           P == Power(b)
<1>1. n % b \in 0 .. 15 /\ b \in Nat \ {0} /\ q \in Nat \ {0}
  BY DEF Bases
<1>2. b * q <= n /\ n < b * q + b
  BY DEF Bases
<1>3. c \in Characters
  BY <1>1, DigitIs
<1>4. Digits(n, b) = s
  BY DigitsAre DEF DigitsFollow
<1>5. Right(q, b, t)
  OBVIOUS
<1>6. /\ P[0] = 1 /\ \A k \in Nat \ {0} : P[k] = b * P[k - 1]
      /\ \A k \in Nat : P[k] \in Nat \ {0}
  BY PowerIs DEF PowerFollows
<1>7. ASSUME NEW p \in Nat \ {0} PROVE q \div p = n \div (b * p)
  BY <1>1, DividedTwice
<1> HIDE DEF t
<1> DEFINE l == Len(t)
<1>8. /\ t \in Seq(Characters) /\ l \in Nat \ {0} /\ P[l - 1] <= q /\ q < P[l]
      /\ \A j \in 1 .. l : t[j] = DigitChar((q \div P[j - 1]) % b)
  BY <1>5, Zenon DEF Right
<1>9. /\ s \in Seq(Characters) /\ Len(s) = l + 1 /\ s[1] = c
      /\ \A j \in 1 .. l : s[j + 1] = t[j]
  <2> HIDE DEF c
  <2> QED BY <1>3, <1>8
<1> HIDE DEF s, P, q, l
<1>10. P[l] <= n /\ n < P[l + 1]
  <2>1. P[l] = b * P[l - 1] /\ P[l - 1] \in Nat /\ P[l + 1] = b * P[l] /\ P[l] \in Nat
    <3>1. l - 1 \in Nat /\ l + 1 \in Nat \ {0} /\ (l + 1) - 1 = l /\ l \in Nat
      BY <1>8
    <3> QED BY <1>6, <1>8, <3>1
  <2>2. ASSUME NEW u \in Nat, NEW v \in Nat, u <= q, q + 1 <= v
        PROVE  b * u <= n /\ n < b * v
    BY <1>1, <1>2, <2>2 DEF Bases
  <2>3. q + 1 <= P[l]
    BY <1>1, <1>8, <2>1
  <2> QED BY <1>8, <2>1, <2>2, <2>3
<1>11. ASSUME NEW j \in 1 .. (l + 1)
       PROVE  s[j] = DigitChar((n \div P[j - 1]) % b)
  <2>1. CASE j = 1
    <3>1. P[j - 1] = 1 /\ n \div 1 = n
      BY <1>6, <2>1
    <3> QED BY <1>9, <2>1, <3>1
  <2>2. CASE j # 1
    <3>1. /\ j - 1 \in 1 .. l /\ (j - 1) + 1 = j /\ j - 1 \in Nat \ {0} /\ (j - 1) - 1 \in Nat
      BY <1>8, <2>2
    <3>2. s[j] = DigitChar((q \div P[(j - 1) - 1]) % b)
      BY <1>8, <1>9, <3>1
    <3>3. q \div P[(j - 1) - 1] = n \div P[j - 1]
      BY <1>6, <1>7, <3>1
    <3> QED BY <3>2, <3>3
  <2> QED BY <2>1, <2>2
<1>12. Right(n, b, s)
  <2>1. Len(s) \in Nat \ {0} /\ Len(s) - 1 = l
    BY <1>8, <1>9
  <2>2. P[Len(s) - 1] <= n /\ n < P[Len(s)]
    BY <1>9, <1>10, <2>1
  <2>3. \A j \in 1 .. Len(s) : s[j] = DigitChar((n \div P[j - 1]) % b)
    BY <1>9, <1>11
  <2> QED BY <1>9, <2>1, <2>2, <2>3, Zenon DEF Right, P
<1> QED BY <1>4, <1>12

LEMMA DigitsRight ==
  ASSUME NEW b \in Bases, NEW n \in Nat \ {0}
  PROVE  Right(n, b, Digits(n, b))
<1> DEFINE Done == {k \in Nat : \A j \in 1 .. k : Right(j, b, Digits(j, b))}
<1>1. 0 \in Done
  OBVIOUS
<1>2. ASSUME NEW k \in Nat, k \in Done PROVE k + 1 \in Done
  <2>1. ASSUME NEW j \in 1 .. (k + 1) PROVE Right(j, b, Digits(j, b))
    <3>1. CASE j \in 1 .. k
      BY <1>2, <3>1
    <3>2. CASE j \notin 1 .. k /\ j < b
      <4>1. j \in Nat \ {0}
        OBVIOUS
      <4> QED BY <3>2, <4>1, RightForDigit, Zenon
    <3>3. CASE j \notin 1 .. k /\ ~(j < b)
      <4>1. j \in Nat \ {0} /\ b <= j /\ j = k + 1
        BY <3>3 DEF Bases
      <4>2. j \div b \in 1 .. k
        BY <4>1 DEF Bases
      <4>3. Right(j \div b, b, Digits(j \div b, b))
        BY <1>2, <4>2
      <4> QED BY <4>1, <4>3, RightForMore, Zenon
    <3> QED BY <3>1, <3>2, <3>3
  <2> QED BY <2>1
<1>3. Done \in SUBSET Nat
  OBVIOUS
<1>4. n \in Done
  <2> HIDE DEF Done
  <2> QED BY <1>1, <1>2, <1>3, Induction
<1> QED BY <1>4

\* A number has one count of digits.
LEMMA NumDigitsIs ==
  ASSUME NEW b \in Bases, NEW n \in Nat, NEW m \in Nat \ {0},
         n < Power(b)[m], m = 1 \/ Power(b)[m - 1] <= n
  PROVE  NumDigits(n, b) = m
<1> DEFINE P == Power(b)
           Counts(k) == n < P[k] /\ (k = 1 \/ P[k - 1] <= n)
<1>1. \A k \in Nat : P[k] \in Nat \ {0}
  BY PowerIs DEF PowerFollows
<1>2. m \in 1 .. (n + 1) /\ Counts(m)
  <2>1. CASE m = 1
    BY <2>1
  <2>2. CASE m # 1
    <3>1. m - 1 \in Nat /\ (m - 1) + 1 = m
      OBVIOUS
    <3>2. m <= P[m - 1]
      BY <3>1, PowerExceeds
    <3>3. P[m - 1] <= n /\ P[m - 1] \in Nat
      BY <1>1, <2>2, <3>1
    <3>4. m <= n
      BY <3>2, <3>3
    <3> QED BY <3>4
  <2> QED BY <2>1, <2>2
<1>3. ASSUME NEW k \in 1 .. (n + 1), Counts(k) PROVE k = m
  <2>1. CASE k < m
    <3>1. k \in Nat /\ m - 1 \in Nat /\ k <= m - 1 /\ m # 1
      BY <2>1
    <3>2. P[k] <= P[m - 1]
      BY <3>1, PowerGrows, Zenon
    <3>3. P[k] \in Nat /\ P[m - 1] \in Nat /\ n < P[k] /\ P[m - 1] <= n
      BY <1>1, <1>2, <1>3, <3>1
    <3> HIDE DEF P
    <3> QED BY <3>2, <3>3
  <2>2. CASE m < k
    <3>1. k \in Nat /\ k - 1 \in Nat /\ m <= k - 1 /\ k # 1
      BY <2>2
    <3>2. P[m] <= P[k - 1]
      BY <3>1, PowerGrows, Zenon
    <3>3. P[m] \in Nat /\ P[k - 1] \in Nat /\ n < P[m] /\ P[k - 1] <= n
      BY <1>1, <1>2, <1>3, <3>1
    <3> HIDE DEF P
    <3> QED BY <3>2, <3>3
  <2> QED BY <2>1, <2>2
<1>4. NumDigits(n, b) = CHOOSE k \in 1 .. (n + 1) : Counts(k)
  BY DEF NumDigits
<1> HIDE DEF Counts
<1> QED BY <1>2, <1>3, <1>4

\* The digits of a number, turned around, are its numeral.
LEMMA NumeralIsReversed ==
  ASSUME NEW b \in Bases, NEW n \in Nat \ {0}
  PROVE  Reverse(Digits(n, b)) = Numeral(n, b)
<1> DEFINE s == Digits(n, b)
           m == Len(s)
           P == Power(b)
<1>1. /\ m \in Nat \ {0} /\ P[m - 1] <= n /\ n < P[m]
      /\ \A j \in 1 .. m : s[j] = DigitChar((n \div P[j - 1]) % b)
  BY DigitsRight, Zenon DEF Right
<1>2. NumDigits(n, b) = m
  BY <1>1, NumDigitsIs
<1>3. \A k \in Nat : P[k] \in Nat \ {0}
  BY PowerIs DEF PowerFollows
<1> HIDE DEF m, s
<1>4. ASSUME NEW k \in 1 .. m
      PROVE  s[(m - k) + 1] = DigitChars[1 + ((n \div P[m - k]) % b)]
  <2>1. (m - k) + 1 \in 1 .. m /\ ((m - k) + 1) - 1 = m - k /\ m - k \in Nat
    BY <1>1
  <2>2. s[(m - k) + 1] = DigitChar((n \div P[m - k]) % b)
    BY <1>1, <2>1
  <2>3. P[m - k] \in Nat \ {0}
    BY <1>3, <2>1
  <2> HIDE DEF P
  <2>4. n \div P[m - k] \in Nat
    BY <2>3, Divided
  <2>5. (n \div P[m - k]) % b \in 0 .. 15
    BY <2>4 DEF Bases
  <2>6. DigitChar((n \div P[m - k]) % b) = DigitChars[((n \div P[m - k]) % b) + 1]
    BY <2>5, DigitIs
  <2>7. ((n \div P[m - k]) % b) + 1 = 1 + ((n \div P[m - k]) % b)
    BY <2>5
  <2> QED BY <2>2, <2>6, <2>7, Zenon
<1>5. Reverse(s) = [k \in 1 .. m |-> s[(m - k) + 1]]
  BY DEF Reverse, m
<1>6. Numeral(n, b) = [k \in 1 .. m |-> DigitChars[1 + ((n \div P[m - k]) % b)]]
  BY <1>2 DEF Numeral
<1> HIDE DEF P
<1>7. Reverse(s) = Numeral(n, b)
  BY <1>4, <1>5, <1>6, Zenon
<1> QED BY <1>7 DEF s

LEMMA ReverseType ==
  ASSUME NEW s \in Seq(Characters)
  PROVE  /\ Reverse(s) \in Seq(Characters) /\ Len(Reverse(s)) = Len(s)
         /\ \A k \in 1 .. Len(s) : Reverse(s)[k] = s[(Len(s) - k) + 1]
<1>1. Reverse(s) = [k \in 1 .. Len(s) |-> s[(Len(s) - k) + 1]] /\ Len(s) \in Nat
  BY DEF Reverse
<1>2. \A k \in 1 .. Len(s) : s[(Len(s) - k) + 1] \in Characters
  BY <1>1
<1>3. Reverse(s) \in [1 .. Len(s) -> Characters]
  BY <1>1, <1>2
<1>4. Reverse(s) \in Seq(Characters)
  BY <1>1, <1>3, SeqDef
<1>5. Len(Reverse(s)) = Len(s)
  BY <1>1, <1>3
<1> QED BY <1>1, <1>4, <1>5

Turned(s, t) == Reverse(s \o t) = Reverse(t) \o Reverse(s)

LEMMA ReverseConcat ==
  ASSUME NEW s \in Seq(Characters), NEW t \in Seq(Characters)
  PROVE  Turned(s, t)
<1> DEFINE l == Len(s)
           m == Len(t)
           u == s \o t
           a == Reverse(s)
           b == Reverse(t)
           r == Reverse(u)
           q == b \o a
<1>1. /\ l \in Nat /\ m \in Nat /\ u \in Seq(Characters) /\ Len(u) = l + m
      /\ \A k \in 1 .. l : u[k] = s[k]
      /\ \A k \in (l + 1) .. (l + m) : u[k] = t[k - l]
  OBVIOUS
<1>2. /\ a \in Seq(Characters) /\ Len(a) = l
      /\ \A k \in 1 .. l : a[k] = s[(l - k) + 1]
  BY ReverseType
<1>3. /\ b \in Seq(Characters) /\ Len(b) = m
      /\ \A k \in 1 .. m : b[k] = t[(m - k) + 1]
  BY ReverseType
<1> HIDE DEF l, m, u
<1>4. /\ r \in Seq(Characters) /\ Len(r) = l + m
      /\ \A k \in 1 .. (l + m) : r[k] = u[((l + m) - k) + 1]
  <2>1. /\ r \in Seq(Characters) /\ Len(r) = Len(u)
        /\ \A k \in 1 .. Len(u) : r[k] = u[(Len(u) - k) + 1]
    BY <1>1, ReverseType, Zenon
  <2> QED BY <1>1, <2>1
<1> HIDE DEF a, b, r
<1>5. /\ q \in Seq(Characters) /\ Len(q) = m + l
      /\ \A k \in 1 .. m : q[k] = b[k]
      /\ \A k \in (m + 1) .. (m + l) : q[k] = a[k - m]
  <2>1. a \in Seq(Characters) /\ b \in Seq(Characters) /\ Len(a) = l /\ Len(b) = m
    BY <1>2, <1>3
  <2>2. Len(b \o a) = Len(b) + Len(a) /\ b \o a \in Seq(Characters)
    BY <2>1
  <2>3. \A k \in 1 .. Len(b) : (b \o a)[k] = b[k]
    BY <2>1
  <2>4. \A k \in (Len(b) + 1) .. (Len(b) + Len(a)) : (b \o a)[k] = a[k - Len(b)]
    BY <2>1
  <2> QED BY <2>1, <2>2, <2>3, <2>4
<1> HIDE DEF q
<1>6. ASSUME NEW k \in 1 .. (l + m) PROVE r[k] = q[k]
  <2> DEFINE j == ((l + m) - k) + 1
  <2>1. r[k] = u[j]
    BY <1>4
  <2>2. CASE k <= m
    <3>1. k \in 1 .. m /\ j \in (l + 1) .. (l + m) /\ j - l = (m - k) + 1
      BY <1>1, <2>2
    <3> HIDE DEF j
    <3> QED BY <1>1, <1>3, <1>5, <2>1, <3>1
  <2>3. CASE ~(k <= m)
    <3>1. /\ k \in (m + 1) .. (m + l) /\ j \in 1 .. l
          /\ k - m \in 1 .. l /\ (l - (k - m)) + 1 = j
      BY <1>1, <2>3
    <3> HIDE DEF j
    <3>2. u[j] = s[j]
      BY <1>1, <3>1
    <3>3. q[k] = a[k - m]
      BY <1>5, <3>1
    <3>4. a[k - m] = s[j]
      BY <1>2, <3>1
    <3> QED BY <2>1, <3>2, <3>3, <3>4
  <2> QED BY <2>2, <2>3
<1>7. r = q
  <2>1. Len(r) = Len(q)
    BY <1>1, <1>4, <1>5
  <2>2. \A k \in 1 .. Len(r) : r[k] = q[k]
    BY <1>4, <1>6
  <2> QED BY <1>4, <1>5, <2>1, <2>2, SeqEqual, Zenon
<1> QED BY <1>7 DEF Turned, r, q, u, a, b

\* The decimal digits the code makes of n.
Decimal(n) == IF n = 0 THEN <<>> ELSE Numeral(n, 10)

LEMMA DecimalShown ==
  ASSUME NEW n \in Nat
  PROVE  /\ Reverse(Digits(n, 10)) = Decimal(n)
         /\ Digits(n, 10) \in Seq(Characters) /\ Decimal(n) \in Seq(Characters)
<1>1. 10 \in Bases
  BY DEF Bases
<1>2. DigitsFollow(10)
  BY <1>1, DigitsAre
<1>3. Digits(n, 10) \in Seq(Characters)
  BY <1>2, Zenon DEF DigitsFollow
<1>4. Reverse(Digits(n, 10)) \in Seq(Characters)
  BY <1>3, ReverseType, Zenon
<1>5. CASE n = 0
  <2>1. Digits(n, 10) = <<>>
    BY <1>2, <1>5, Zenon DEF DigitsFollow
  <2>2. Len(Reverse(Digits(n, 10))) = 0
    <3>1. Len(Reverse(Digits(n, 10))) = Len(Digits(n, 10))
      BY <1>3, ReverseType, Zenon
    <3> QED BY <2>1, <3>1
  <2>3. Reverse(Digits(n, 10)) = <<>>
    BY <1>4, <2>2, EmptySeq
  <2>4. Decimal(n) = <<>>
    BY <1>5 DEF Decimal
  <2> QED BY <1>3, <1>4, <2>3, <2>4
<1>6. CASE n # 0
  <2>1. Decimal(n) = Numeral(n, 10)
    BY <1>6 DEF Decimal
  <2>2. n \in Nat \ {0}
    BY <1>6
  <2>3. Reverse(Digits(n, 10)) = Numeral(n, 10)
    BY <1>1, <2>2, NumeralIsReversed, Zenon
  <2> QED BY <1>3, <1>4, <2>1, <2>3
<1> QED BY <1>5, <1>6

\* What GetValue makes of a number.
LEMMA Converted ==
  ASSUME NEW v \in Int
  PROVE  ToUInt(v) \in Nat /\ ToInt(v) \in Int
<1>1. UIntMod \in Nat \ {0} /\ IntMax \in Nat
  BY LoggerAssumption DEF UIntMod
<1> HIDE DEF UIntMod
<1>2. v % UIntMod \in Nat
  BY <1>1, SMT
<1> QED BY <1>1, <1>2 DEF ToUInt, ToInt

LEMMA ZeroConverted ==
  ASSUME NEW v \in Int
  PROVE  ToInt(v) = 0 <=> ToUInt(v) = 0
<1> DEFINE m == UIntMod
           u == v % m
<1>1. m \in Nat \ {0} /\ IntMax \in Nat
  BY LoggerAssumption DEF UIntMod
<1>2. ToUInt(v) = u /\ ToInt(v) = IF u > IntMax THEN u - m ELSE u
  BY DEF ToUInt, ToInt
<1> HIDE DEF m
<1>3. u \in 0 .. (m - 1)
  BY <1>1, SMT
<1> HIDE DEF u
<1> QED BY <1>1, <1>2, <1>3

\* What is put out, in terms of what the code makes.
LEMMA PrintedIs ==
  ASSUME NEW c, NEW v, c \in Numbers => v \in Int
  PROVE  /\ c = "d" => Printed(c, v) = Sign(ToInt(v)) \o
                           Decimal(IF ToInt(v) < 0 THEN -ToInt(v) ELSE ToInt(v))
         /\ c = "u" => Printed(c, v) = Decimal(ToUInt(v))
         /\ c \notin {"d", "u"} => Printed(c, v) = Shown(c, v)
<1> DEFINE n == ToInt(v)
           a == IF n < 0 THEN -n ELSE n
           e == Sign(n)
<1>1. CASE c = "d"
  <2>1. v \in Int
    BY <1>1 DEF Numbers
  <2>2. Shown(c, v) = e \o Numeral(a, 10)
    BY <1>1 DEF Shown
  <2>3. IsOmitted(c, v) <=> n = 0
    BY <1>1, <2>1, ZeroConverted DEF IsOmitted
  <2>4. n \in Int
    BY <2>1, Converted
  <2>5. CASE n = 0
    <3>1. Decimal(a) = <<>> /\ e = <<>>
      BY <2>5 DEF Decimal, Sign
    <3>2. e \o Decimal(a) = <<>>
      <4>1. <<>> \in Seq(Characters)
        OBVIOUS
      <4> QED BY <3>1, <4>1, ConcatEmptySeq, Zenon
    <3>3. Printed(c, v) = <<>>
      BY <2>3, <2>5, Zenon DEF Printed
    <3> QED BY <1>1, <3>2, <3>3
  <2>6. CASE n # 0
    <3>1. Decimal(a) = Numeral(a, 10)
      <4>1. a # 0
        <5> HIDE DEF n
        <5> QED BY <2>4, <2>6
      <4> HIDE DEF a
      <4> QED BY <4>1 DEF Decimal
    <3>2. Printed(c, v) = Shown(c, v)
      BY <2>3, <2>6, Zenon DEF Printed
    <3> HIDE DEF a, e
    <3> QED BY <1>1, <2>2, <3>1, <3>2, Zenon DEF a, e, n
  <2> QED BY <2>5, <2>6
<1>2. CASE c = "u"
  <2>1. Shown(c, v) = Numeral(ToUInt(v), 10)
    BY <1>2 DEF Shown
  <2>2. IsOmitted(c, v) <=> ToUInt(v) = 0
    BY <1>2 DEF IsOmitted
  <2>3. Printed(c, v) = Decimal(ToUInt(v))
    BY <2>1, <2>2, Zenon DEF Printed, Decimal
  <2> QED BY <1>2, <2>3
<1>3. CASE c \notin {"d", "u"}
  BY <1>3 DEF Printed, IsOmitted
<1> QED BY <1>1, <1>2, <1>3

LEMMA IntShown ==
  ASSUME NEW v \in Int, ToInt(v) # IntMin, NEW s \in SetLogBuffer(ToInt(v))
  PROVE  s = Printed("d", v) /\ s \in Seq(Characters)
<1> DEFINE n == ToInt(v)
           a == IF n < 0 THEN -n ELSE n
           d == Digits(a, 10)
<1>1. n \in Int
  BY Converted
<1>2. Printed("d", v) = Sign(n) \o Decimal(a)
  BY PrintedIs
<1>3. Magnitudes(n) = {d}
  BY DEF Magnitudes
<1>4. s = Reverse(d \o Sign(n))
  BY <1>3 DEF SetLogBuffer, LogBufferReverse
<1> HIDE DEF n
<1>5. a \in Nat
  BY <1>1
<1> HIDE DEF a
<1>6. Reverse(d) = Decimal(a) /\ d \in Seq(Characters) /\ Decimal(a) \in Seq(Characters)
  BY <1>5, DecimalShown
<1> HIDE DEF d
<1>7. Sign(n) \in Seq(Characters) /\ Reverse(Sign(n)) = Sign(n)
  <2>1. CASE n < 0
    <3>1. Sign(n) = <<"-">>
      BY <2>1 DEF Sign
    <3>2. "-" \in Characters
      BY DEF Characters
    <3> DEFINE t == <<"-">>
    <3>3. t \in Seq(Characters) /\ Len(t) = 1
      BY <3>2
    <3> HIDE DEF t
    <3>4. /\ Reverse(t) \in Seq(Characters) /\ Len(Reverse(t)) = 1
          /\ \A k \in 1 .. 1 : Reverse(t)[k] = t[(1 - k) + 1]
      BY <3>3, ReverseType
    <3>5. \A k \in 1 .. 1 : Reverse(t)[k] = t[k]
      BY <3>4
    <3>6. Reverse(t) = t
      BY <3>3, <3>4, <3>5, SeqEqual
    <3> QED BY <3>1, <3>3, <3>6 DEF t
  <2>2. CASE ~(n < 0)
    <3>1. Sign(n) = <<>>
      BY <2>2 DEF Sign
    <3>2. <<>> \in Seq(Characters) /\ Len(<<>>) = 0
      OBVIOUS
    <3>3. Reverse(<<>>) \in Seq(Characters) /\ Len(Reverse(<<>>)) = 0
      BY <3>2, ReverseType
    <3>4. Reverse(<<>>) = <<>>
      BY <3>3, EmptySeq
    <3> QED BY <3>1, <3>2, <3>4
  <2> QED BY <2>1, <2>2
<1>8. Turned(d, Sign(n))
  BY <1>6, <1>7, ReverseConcat, Zenon
<1>9. s = Sign(n) \o Decimal(a)
  BY <1>4, <1>6, <1>7, <1>8, Zenon DEF Turned
<1>10. Sign(n) \o Decimal(a) \in Seq(Characters)
  BY <1>6, <1>7
<1> QED BY <1>2, <1>9, <1>10, Zenon

LEMMA UnsignedShown ==
  ASSUME NEW v \in Int
  PROVE  SetLogBufferUnsigned(ToUInt(v)) = Printed("u", v) /\ Printed("u", v) \in Seq(Characters)
<1>1. ToUInt(v) \in Nat
  BY Converted
<1>2. Printed("u", v) = Decimal(ToUInt(v))
  BY PrintedIs
<1> QED BY <1>1, <1>2, DecimalShown DEF SetLogBufferUnsigned, LogBufferReverse

LEMMA HexShown ==
  ASSUME NEW v \in Int, NEW c \in {"x", "X"}
  PROVE  SetLogBufferHex(ToUInt(v)) = Printed(c, v) /\ Printed(c, v) \in Seq(Characters)
<1> DEFINE n == ToUInt(v)
           d == Digits(n, 16)
           x == <<"x", "0">>
           y == <<"0", "x">>
<1>1. n \in Nat
  BY Converted
<1>2. Printed(c, v) = y \o Numeral(n, 16)
  <2>1. Shown(c, v) = y \o Numeral(n, 16)
    BY DEF Shown
  <2>2. Printed(c, v) = Shown(c, v)
    BY PrintedIs
  <2> QED BY <2>1, <2>2
<1> HIDE DEF n
<1>3. 16 \in Bases /\ DigitsFollow(16)
  BY DigitsAre DEF Bases
<1>4. x \in Seq(Characters) /\ y \in Seq(Characters) /\ Reverse(x) = y
  <2>1. "x" \in Characters /\ "0" \in Characters
    BY DEF Characters
  <2>2. ASSUME NEW e \in Characters, NEW f \in Characters
        PROVE  /\ <<e, f>> \in Seq(Characters) /\ <<f, e>> \in Seq(Characters)
               /\ Reverse(<<e, f>>) = <<f, e>>
    <3>1. <<e, f>> \in [1 .. 2 -> Characters] /\ <<f, e>> \in [1 .. 2 -> Characters]
      OBVIOUS
    <3>2. <<e, f>> \in Seq(Characters) /\ <<f, e>> \in Seq(Characters)
      BY <3>1, SeqDef
    <3>3. Len(<<e, f>>) = 2 /\ Len(<<f, e>>) = 2
      OBVIOUS
    <3>4. /\ Reverse(<<e, f>>) \in Seq(Characters) /\ Len(Reverse(<<e, f>>)) = 2
          /\ \A k \in 1 .. 2 : Reverse(<<e, f>>)[k] = <<e, f>>[(2 - k) + 1]
      BY <3>2, <3>3, ReverseType
    <3>5. \A k \in 1 .. 2 : Reverse(<<e, f>>)[k] = <<f, e>>[k]
      BY <3>4
    <3>6. Reverse(<<e, f>>) = <<f, e>>
      BY <3>2, <3>3, <3>4, <3>5, SeqEqual
    <3> QED BY <3>2, <3>6
  <2> QED BY <2>1, <2>2
<1>5. CASE n = 0
  <2> DEFINE z == <<"0">>
  <2>1. SetLogBufferHex(n) = <<"0", "x", "0">>
    BY <1>5 DEF SetLogBufferHex
  <2>2. Power(16)[0] = 1 /\ Power(16)[1] = 16
    <3>1. Power(16)[0] = 1 /\ Power(16)[1] = 16 * Power(16)[1 - 1]
      BY <1>3, PowerIs DEF PowerFollows
    <3> QED BY <3>1
  <2>3. NumDigits(n, 16) = 1
    BY <1>1, <1>3, <1>5, <2>2, NumDigitsIs
  <2>4. Numeral(n, 16) = [k \in 1 .. 1 |-> DigitChars[1 + ((n \div Power(16)[1 - k]) % 16)]]
    BY <2>3 DEF Numeral
  <2>5. ASSUME NEW k \in 1 .. 1 PROVE DigitChars[1 + ((n \div Power(16)[1 - k]) % 16)] = "0"
    <3>1. 1 - k = 0 /\ (n \div 1) % 16 = 0
      BY <1>5
    <3>2. (n \div Power(16)[1 - k]) % 16 = 0
      BY <2>2, <3>1
    <3> QED BY <3>2 DEF DigitChars
  <2>6. Numeral(n, 16) = [k \in 1 .. 1 |-> "0"]
    BY <2>4, <2>5, Zenon
  <2>7. Numeral(n, 16) = z
    BY <2>6
  <2>8. y \o z = <<"0", "x", "0">>
    <3>1. ASSUME NEW e \in Characters, NEW f \in Characters, NEW g \in Characters
          PROVE  <<e, f>> \o <<g>> = <<e, f, g>>
      <4> DEFINE r == <<e, f>> \o <<g>>
                 t == <<e, f, g>>
      <4>1. <<e, f>> \in [1 .. 2 -> Characters] /\ t \in [1 .. 3 -> Characters]
        OBVIOUS
      <4>2. <<e, f>> \in Seq(Characters) /\ t \in Seq(Characters) /\ <<g>> \in Seq(Characters)
        BY <4>1, SeqDef
      <4>3. r \in Seq(Characters) /\ Len(r) = 3 /\ r[1] = e /\ r[2] = f /\ r[3] = g
        BY <4>2
      <4>4. Len(t) = 3 /\ t[1] = e /\ t[2] = f /\ t[3] = g
        OBVIOUS
      <4> HIDE DEF r, t
      <4>5. \A k \in 1 .. Len(r) : r[k] = t[k]
        BY <4>3, <4>4
      <4>6. r = t
        BY <4>2, <4>3, <4>4, <4>5, SeqEqual
      <4> QED BY <4>6 DEF r, t
    <3>2. "x" \in Characters /\ "0" \in Characters
      BY DEF Characters
    <3> QED BY <3>1, <3>2, Zenon
  <2>9. z \in Seq(Characters)
    <3>1. "0" \in Characters
      BY DEF Characters
    <3> QED BY <3>1
  <2>10. y \o z \in Seq(Characters)
    <3> HIDE DEF y, z
    <3> QED BY <1>4, <2>9
  <2> QED BY <1>2, <2>1, <2>7, <2>8, <2>10 DEF n
<1>6. CASE n # 0
  <2>1. SetLogBufferHex(n) = Reverse(d \o x)
    BY <1>6 DEF SetLogBufferHex, LogBufferReverse
  <2>2. n \in Nat \ {0}
    BY <1>1, <1>6
  <2>3. d \in Seq(Characters)
    BY <1>1, <1>3, Zenon DEF DigitsFollow
  <2>4. Reverse(d) = Numeral(n, 16)
    BY <1>3, <2>2, NumeralIsReversed, Zenon
  <2>5. Reverse(d) \in Seq(Characters)
    BY <2>3, ReverseType, Zenon
  <2> HIDE DEF d, x, y
  <2>6. Turned(d, x)
    BY <1>4, <2>3, ReverseConcat, Zenon
  <2>7. SetLogBufferHex(n) = y \o Numeral(n, 16)
    BY <1>4, <2>1, <2>4, <2>6, Zenon DEF Turned
  <2>8. y \o Numeral(n, 16) \in Seq(Characters)
    BY <1>4, <2>4, <2>5
  <2> QED BY <1>2, <2>7, <2>8 DEF n
<1> QED BY <1>5, <1>6

-----------------------------------------------------------------------------
(***************************************************************************)
(* What a format stands for.                                               *)
(***************************************************************************)

\* g is the states of a loop of n rounds, each of which takes a state of S to the next.
Runs(g, n, S, start, round) ==
  /\ g \in [0 .. n -> S]
  /\ g[0] = start
  /\ \A k \in 1 .. n : g[k] = round[k][g[k - 1]]

LEMMA Loop ==
  ASSUME NEW n \in Nat, NEW S, NEW start \in S, NEW round \in [1 .. n -> [S -> S]]
  PROVE  \E g : Runs(g, n, S, start, round)
<1> DEFINE back == [k \in Nat |-> IF k = 0 THEN 0 ELSE k - 1]
           same == [r \in S |-> r]
           step == [k \in Nat |-> IF k \in 1 .. n THEN round[k] ELSE same]
<1>1. same \in [S -> S]
  OBVIOUS
<1>2. back \in [Nat -> Nat] /\ \A k \in Nat \ {0} : back[k] < k /\ back[k] = k - 1
  OBVIOUS
<1> HIDE DEF same, back
<1>3. step \in [Nat -> [S -> S]] /\ \A k \in 1 .. n : step[k] = round[k]
  BY <1>1
<1> HIDE DEF step
<1>4. PICK h : Follows(h, S, start, back, step)
  BY <1>2, <1>3, Recursion, Zenon
<1>5. h \in [Nat -> S] /\ h[0] = start /\ \A k \in Nat \ {0} : h[k] = step[k][h[back[k]]]
  BY <1>4, Zenon DEF Follows
<1> DEFINE g == [k \in 0 .. n |-> h[k]]
<1>6. g \in [0 .. n -> S] /\ g[0] = start /\ \A k \in 0 .. n : g[k] = h[k]
  BY <1>5
<1> HIDE DEF g
<1>7. ASSUME NEW k \in 1 .. n PROVE g[k] = round[k][g[k - 1]]
  <2>1. k \in 0 .. n /\ k - 1 \in 0 .. n /\ k \in Nat \ {0} /\ back[k] = k - 1
    BY <1>2
  <2>2. g[k] = h[k] /\ g[k - 1] = h[k - 1]
    BY <1>6, <2>1
  <2>3. h[k] = step[k][h[k - 1]]
    BY <1>5, <2>1, Zenon
  <2>4. step[k] = round[k]
    BY <1>3
  <2> QED BY <2>2, <2>3, <2>4, Zenon
<1>8. Runs(g, n, S, start, round)
  BY <1>6, <1>7, Zenon DEF Runs
<1> QED BY <1>8

Roles == Specifiers \cup {"none", "unknown", "char", "second"}

RoleFollows(f) ==
  /\ Role(f)[0] = "none"
  /\ \A k \in 1 .. Len(f) : Role(f)[k] = NextRole(f, k, Role(f)[k - 1])
  /\ \A k \in 0 .. Len(f) : Role(f)[k] \in Roles

LEMMA RoleIs ==
  ASSUME NEW f, Len(f) \in Nat
  PROVE  RoleFollows(f)
<1> DEFINE n == Len(f)
           Rounds(g) == g = [k \in 0 .. n |-> IF k = 0 THEN "none" ELSE NextRole(f, k, g[k - 1])]
           round == [k \in 1 .. n |-> [r \in Roles |-> NextRole(f, k, r)]]
<1>0. ASSUME NEW k, NEW r PROVE NextRole(f, k, r) \in Roles
  BY DEF NextRole, Roles
<1>1. n \in Nat
  OBVIOUS
<1>2. Role(f) = CHOOSE g : Rounds(g)
  BY DEF Role
<1>3. round \in [1 .. n -> [Roles -> Roles]]
  BY <1>0
<1>4. \A k \in 1 .. n, r \in Roles : round[k][r] = NextRole(f, k, r)
  OBVIOUS
<1> HIDE DEF n, round
<1>5. "none" \in Roles
  BY DEF Roles
<1>6. PICK g : Runs(g, n, Roles, "none", round)
  BY <1>1, <1>3, <1>5, Loop, Zenon
<1>7. g \in [0 .. n -> Roles] /\ g[0] = "none" /\ \A k \in 1 .. n : g[k] = round[k][g[k - 1]]
  BY <1>6, Zenon DEF Runs
<1>8. ASSUME NEW k \in 0 .. n
      PROVE  g[k] = IF k = 0 THEN "none" ELSE NextRole(f, k, g[k - 1])
  <2>1. CASE k = 0
    BY <1>7, <2>1
  <2>2. CASE k # 0
    <3>1. k \in 1 .. n /\ k - 1 \in 0 .. n
      BY <1>1, <2>2
    <3>2. g[k - 1] \in Roles
      BY <1>7, <3>1
    <3> QED BY <1>4, <1>7, <2>2, <3>1, <3>2
  <2> QED BY <2>1, <2>2
<1>9. Rounds(g)
  <2>1. g = [k \in 0 .. n |-> g[k]]
    BY <1>7
  <2> QED BY <1>8, <2>1, Zenon
<1>10. Rounds(Role(f))
  BY <1>2, <1>9, Zenon
<1>11. \A k \in 0 .. n :
          Role(f)[k] = IF k = 0 THEN "none" ELSE NextRole(f, k, Role(f)[k - 1])
  BY <1>10, Zenon
<1> HIDE DEF Rounds
<1>12. Role(f)[0] = "none"
  BY <1>1, <1>11
<1>13. \A k \in 1 .. n : Role(f)[k] = NextRole(f, k, Role(f)[k - 1])
  <2>1. \A k \in 1 .. n : k \in 0 .. n /\ k # 0
    BY <1>1
  <2> QED BY <1>11, <2>1, Zenon
<1>14. \A k \in 0 .. n : Role(f)[k] \in Roles
  BY <1>0, <1>5, <1>11, Zenon
<1> QED BY <1>12, <1>13, <1>14, Zenon DEF RoleFollows, n

TakenFollows(f) ==
  /\ Taken(f)[0] = 0
  /\ \A k \in 1 .. Len(f) :
       Taken(f)[k] = Taken(f)[k - 1] + (IF Role(f)[k] \in Specifiers THEN 1 ELSE 0)
  /\ \A k \in 0 .. Len(f) : Taken(f)[k] \in Nat

LEMMA TakenIs ==
  ASSUME NEW f, Len(f) \in Nat
  PROVE  TakenFollows(f)
<1> DEFINE n == Len(f)
           New(k) == IF Role(f)[k] \in Specifiers THEN 1 ELSE 0
           Rounds(g) == g = [k \in 0 .. n |-> IF k = 0 THEN 0 ELSE g[k - 1] + New(k)]
           round == [k \in 1 .. n |-> [r \in Nat |-> r + New(k)]]
<1>0. ASSUME NEW k PROVE New(k) \in Nat
  OBVIOUS
<1>1. n \in Nat
  OBVIOUS
<1>2. Taken(f) = CHOOSE g : Rounds(g)
  BY DEF Taken
<1> HIDE DEF New
<1>3. round \in [1 .. n -> [Nat -> Nat]]
  BY <1>0
<1>4. \A k \in 1 .. n, r \in Nat : round[k][r] = r + New(k)
  OBVIOUS
<1> HIDE DEF n, round
<1>5. 0 \in Nat
  OBVIOUS
<1>6. PICK g : Runs(g, n, Nat, 0, round)
  BY <1>1, <1>3, <1>5, Loop, Zenon
<1>7. g \in [0 .. n -> Nat] /\ g[0] = 0 /\ \A k \in 1 .. n : g[k] = round[k][g[k - 1]]
  BY <1>6, Zenon DEF Runs
<1>8. ASSUME NEW k \in 0 .. n
      PROVE  g[k] = IF k = 0 THEN 0 ELSE g[k - 1] + New(k)
  <2>1. CASE k = 0
    BY <1>7, <2>1
  <2>2. CASE k # 0
    <3>1. k \in 1 .. n /\ k - 1 \in 0 .. n
      BY <1>1, <2>2
    <3>2. g[k - 1] \in Nat
      BY <1>7, <3>1
    <3> QED BY <1>4, <1>7, <2>2, <3>1, <3>2, Zenon
  <2> QED BY <2>1, <2>2
<1>9. Rounds(g)
  <2>1. g = [k \in 0 .. n |-> g[k]]
    BY <1>7
  <2> QED BY <1>8, <2>1, Zenon
<1>10. Rounds(Taken(f))
  BY <1>2, <1>9, Zenon
<1>11. \A k \in 0 .. n :
          Taken(f)[k] = IF k = 0 THEN 0 ELSE Taken(f)[k - 1] + New(k)
  BY <1>10, Zenon
<1> HIDE DEF Rounds
<1>12. Taken(f)[0] = 0
  BY <1>1, <1>11
<1>13. \A k \in 1 .. n : Taken(f)[k] = Taken(f)[k - 1] + New(k)
  <2>1. \A k \in 1 .. n : k \in 0 .. n /\ k # 0
    BY <1>1
  <2> QED BY <1>11, <2>1, Zenon
<1>14. \A k \in 0 .. n : Taken(f)[k] \in Nat
  <2> DEFINE Typed == {k \in Nat : k <= n => Taken(f)[k] \in Nat}
  <2>1. 0 \in Typed
    BY <1>12
  <2>2. ASSUME NEW k \in Nat, k \in Typed PROVE k + 1 \in Typed
    <3> SUFFICES ASSUME k + 1 <= n PROVE Taken(f)[k + 1] \in Nat
      OBVIOUS
    <3>1. k + 1 \in 1 .. n /\ (k + 1) - 1 = k /\ k <= n
      BY <1>1
    <3>2. Taken(f)[k] \in Nat
      BY <2>2, <3>1
    <3>3. Taken(f)[k + 1] = Taken(f)[k] + New(k + 1)
      BY <1>13, <3>1
    <3> QED BY <1>0, <3>2, <3>3
  <2>3. Typed \in SUBSET Nat
    OBVIOUS
  <2>4. \A k \in Nat : k \in Typed
    <3> HIDE DEF Typed
    <3> QED BY <2>1, <2>2, <2>3, Induction
  <2> QED BY <1>1, <2>4
<1> QED BY <1>12, <1>13, <1>14, Zenon DEF TakenFollows, n, New

\* What is counted so far is never more than what is counted in all.
LEMMA TakenGrows ==
  ASSUME NEW f, Len(f) \in Nat, NEW k \in 0 .. Len(f)
  PROVE  Taken(f)[k] <= Taken(f)[Len(f)]
<1> DEFINE n == Len(f)
           Reached == {m \in Nat : k + m <= n => Taken(f)[k] <= Taken(f)[k + m]}
<1>1. TakenFollows(f)
  BY TakenIs, Zenon
<1>2. /\ \A j \in 1 .. n :
           Taken(f)[j] = Taken(f)[j - 1] + (IF Role(f)[j] \in Specifiers THEN 1 ELSE 0)
      /\ \A j \in 0 .. n : Taken(f)[j] \in Nat
  BY <1>1, Zenon DEF TakenFollows
<1>3. n \in Nat
  OBVIOUS
<1> HIDE DEF n
<1>4. 0 \in Reached
  BY <1>2, <1>3
<1>5. ASSUME NEW m \in Nat, m \in Reached PROVE m + 1 \in Reached
  <2> SUFFICES ASSUME k + (m + 1) <= n PROVE Taken(f)[k] <= Taken(f)[k + (m + 1)]
    OBVIOUS
  <2>1. /\ k + (m + 1) \in 1 .. n /\ (k + (m + 1)) - 1 = k + m /\ k + m \in 0 .. n
        /\ k + m <= n /\ k \in 0 .. n
    BY <1>3 DEF n
  <2>2. /\ Taken(f)[k] \in Nat /\ Taken(f)[k + m] \in Nat
        /\ Taken(f)[k] <= Taken(f)[k + m]
    BY <1>2, <1>5, <2>1
  <2>3. Taken(f)[k + (m + 1)]
          = Taken(f)[k + m] + (IF Role(f)[k + (m + 1)] \in Specifiers THEN 1 ELSE 0)
    BY <1>2, <2>1
  <2> QED BY <2>2, <2>3
<1>6. Reached \in SUBSET Nat
  OBVIOUS
<1>7. \A m \in Nat : m \in Reached
  <2> HIDE DEF Reached
  <2> QED BY <1>4, <1>5, <1>6, Induction
<1>8. n - k \in Nat /\ k + (n - k) = n
  BY <1>3 DEF n
<1>9. n - k \in Reached
  BY <1>7, <1>8
<1> QED BY <1>3, <1>8, <1>9 DEF n

\* An argument that Arg can be made from.
IsArgument(x) ==
  \/ x.type \in {"kInt", "kUInt"} /\ x.value \in Int
  \/ x.type = "kChar" /\ x.value \in Characters
  \/ x.type = "kStr" /\ x.value \in Seq(Characters)

\* a has an argument for each specifier of f, one it can show.
Fitting(f, a) ==
  /\ f \in Seq(Characters)
  /\ a \in [1 .. Taken(f)[Len(f)] -> Args(f)]
  /\ \A x \in Args(f) : IsArgument(x)
  /\ \A k \in 1 .. Len(f) :
       Role(f)[k] \in Specifiers => Suits(Role(f)[k], a[Taken(f)[k]])

TextFollows(f, a) ==
  /\ TextUpTo(f, a)[0] = <<>>
  /\ \A k \in 1 .. Len(f) : TextUpTo(f, a)[k] = TextUpTo(f, a)[k - 1] \o Piece(f, a, k)
  /\ \A k \in 0 .. Len(f) : TextUpTo(f, a)[k] \in Seq(Characters)

LEMMA ShownType ==
  ASSUME NEW c \in Specifiers, NEW x, IsArgument(x), Suits(c, x)
  PROVE  Printed(c, x.value) \in Seq(Characters)
<1>1. c \in {"d", "u", "x", "X", "c", "s"}
  BY DEF Specifiers, Numbers
<1>2. ASSUME c \in Numbers PROVE x.value \in Int
  <2>1. x.type \in {"kInt", "kUInt"}
    BY <1>2 DEF Suits, Numbers
  <2> QED BY <2>1 DEF IsArgument
<1>3. CASE c = "d"
  <2> DEFINE n == ToInt(x.value)
             m == IF n < 0 THEN -n ELSE n
  <2>1. n \in Int
    BY <1>2, <1>3, Converted DEF Numbers
  <2>2. Printed(c, x.value) = Sign(n) \o Decimal(m)
    BY <1>2, <1>3, PrintedIs
  <2> HIDE DEF n
  <2>3. m \in Nat
    BY <2>1
  <2> HIDE DEF m
  <2>4. Decimal(m) \in Seq(Characters)
    BY <2>3, DecimalShown
  <2>5. "-" \in Characters
    BY DEF Characters
  <2>6. Sign(n) \in Seq(Characters)
    BY <2>5 DEF Sign
  <2> QED BY <2>2, <2>4, <2>6
<1>4. CASE c = "u"
  BY <1>2, <1>4, UnsignedShown DEF Numbers
<1>5. CASE c \in {"x", "X"}
  BY <1>2, <1>5, HexShown DEF Numbers
<1>6. CASE c = "c"
  <2>1. x.value \in Characters
    BY <1>6 DEF Suits, IsArgument, Numbers
  <2>2. Printed(c, x.value) = <<x.value>>
    BY <1>6 DEF Printed, IsOmitted, Shown
  <2> QED BY <2>1, <2>2
<1>7. CASE c = "s"
  <2>1. x.value \in Seq(Characters)
    BY <1>7 DEF Suits, IsArgument, Numbers
  <2>2. Printed(c, x.value) = x.value
    BY <1>7 DEF Printed, IsOmitted, Shown
  <2> QED BY <2>1, <2>2
<1> QED BY <1>1, <1>3, <1>4, <1>5, <1>6, <1>7

\* The argument that a specifier of f takes.
LEMMA ArgumentIs ==
  ASSUME NEW f, NEW a, Fitting(f, a), NEW k \in 1 .. Len(f), Role(f)[k] \in Specifiers
  PROVE  /\ Taken(f)[k] \in 1 .. Taken(f)[Len(f)]
         /\ IsArgument(a[Taken(f)[k]]) /\ Suits(Role(f)[k], a[Taken(f)[k]])
<1>1. Len(f) \in Nat
  BY DEF Fitting
<1>2. Taken(f)[k] \in 1 .. Taken(f)[Len(f)]
  <2>1. TakenFollows(f)
    BY <1>1, TakenIs, Zenon
  <2>2. Taken(f)[k] = Taken(f)[k - 1] + 1 /\ Taken(f)[k - 1] \in Nat /\ Taken(f)[k] \in Nat
    BY <1>1, <2>1 DEF TakenFollows
  <2>3. k \in 0 .. Len(f) /\ Len(f) \in 0 .. Len(f)
    BY <1>1
  <2>4. Taken(f)[k] <= Taken(f)[Len(f)]
    BY <1>1, <2>3, TakenGrows, Zenon
  <2>5. Taken(f)[Len(f)] \in Nat
    BY <2>1, <2>3, Zenon DEF TakenFollows
  <2> QED BY <2>2, <2>4, <2>5
<1>3. a[Taken(f)[k]] \in Args(f)
  BY <1>2 DEF Fitting
<1>4. IsArgument(a[Taken(f)[k]])
  BY <1>3, Zenon DEF Fitting
<1>5. Suits(Role(f)[k], a[Taken(f)[k]])
  BY Zenon DEF Fitting
<1> QED BY <1>2, <1>4, <1>5

LEMMA PieceType ==
  ASSUME NEW f, NEW a, Fitting(f, a), NEW k \in 1 .. Len(f)
  PROVE  Piece(f, a, k) \in Seq(Characters)
<1>1. Len(f) \in Nat /\ f[k] \in Characters
  BY DEF Fitting
<1>2. CASE Role(f)[k] = "char"
  <2>1. Piece(f, a, k) = <<f[k]>>
    BY <1>2 DEF Piece, Specifiers, Numbers
  <2> QED BY <1>1, <2>1
<1>3. CASE Role(f)[k] \in Specifiers
  <2>1. Piece(f, a, k) = Printed(Role(f)[k], a[Taken(f)[k]].value)
    BY <1>3 DEF Piece, Specifiers, Numbers
  <2>2. IsArgument(a[Taken(f)[k]]) /\ Suits(Role(f)[k], a[Taken(f)[k]])
    BY <1>3, ArgumentIs, Zenon
  <2> QED BY <1>3, <2>1, <2>2, ShownType, Zenon
<1>4. CASE Role(f)[k] \notin Specifiers /\ Role(f)[k] # "char"
  <2>1. Piece(f, a, k) = <<>>
    BY <1>4 DEF Piece
  <2> QED BY <2>1
<1> QED BY <1>2, <1>3, <1>4

LEMMA TextIs ==
  ASSUME NEW f, NEW a, Fitting(f, a)
  PROVE  TextFollows(f, a)
<1> DEFINE n == Len(f)
           T == Seq(Characters)
           New(k) == Piece(f, a, k)
           Rounds(g) == g = [k \in 0 .. n |-> IF k = 0 THEN <<>> ELSE g[k - 1] \o New(k)]
           round == [k \in 1 .. n |-> [r \in T |-> r \o New(k)]]
<1>0. \A k \in 1 .. n : New(k) \in T
  BY PieceType
<1>1. n \in Nat
  BY DEF Fitting
<1>2. TextUpTo(f, a) = CHOOSE g : Rounds(g)
  BY DEF TextUpTo
<1>3. <<>> \in T /\ \A s, t \in T : s \o t \in T
  OBVIOUS
<1> HIDE DEF New, T
<1>4. round \in [1 .. n -> [T -> T]]
  BY <1>0, <1>3
<1>5. \A k \in 1 .. n, r \in T : round[k][r] = r \o New(k)
  OBVIOUS
<1> HIDE DEF n, round
<1>6. PICK g : Runs(g, n, T, <<>>, round)
  BY <1>1, <1>3, <1>4, Loop, Zenon
<1>7. g \in [0 .. n -> T] /\ g[0] = <<>> /\ \A k \in 1 .. n : g[k] = round[k][g[k - 1]]
  BY <1>6, Zenon DEF Runs
<1>8. ASSUME NEW k \in 0 .. n
      PROVE  g[k] = IF k = 0 THEN <<>> ELSE g[k - 1] \o New(k)
  <2>1. CASE k = 0
    BY <1>7, <2>1
  <2>2. CASE k # 0
    <3>1. k \in 1 .. n /\ k - 1 \in 0 .. n
      BY <1>1, <2>2
    <3>2. g[k - 1] \in T
      BY <1>7, <3>1
    <3> QED BY <1>5, <1>7, <2>2, <3>1, <3>2, Zenon
  <2> QED BY <2>1, <2>2
<1>9. Rounds(g)
  <2>1. g = [k \in 0 .. n |-> g[k]]
    BY <1>7
  <2> QED BY <1>8, <2>1, Zenon
<1>10. Rounds(TextUpTo(f, a))
  BY <1>2, <1>9, Zenon
<1>11. \A k \in 0 .. n :
          TextUpTo(f, a)[k] = IF k = 0 THEN <<>> ELSE TextUpTo(f, a)[k - 1] \o New(k)
  BY <1>10, Zenon
<1> HIDE DEF Rounds
<1>12. TextUpTo(f, a)[0] = <<>>
  <2>1. 0 \in 0 .. n
    BY <1>1
  <2> QED BY <1>11, <2>1, Zenon
<1>13. \A k \in 1 .. n : TextUpTo(f, a)[k] = TextUpTo(f, a)[k - 1] \o New(k)
  <2>1. \A k \in 1 .. n : k \in 0 .. n /\ k # 0
    BY <1>1
  <2> QED BY <1>11, <2>1, Zenon
<1>14. \A k \in 0 .. n : TextUpTo(f, a)[k] \in T
  <2> DEFINE Typed == {k \in Nat : k <= n => TextUpTo(f, a)[k] \in T}
  <2>1. 0 \in Typed
    BY <1>3, <1>12
  <2>2. ASSUME NEW k \in Nat, k \in Typed PROVE k + 1 \in Typed
    <3> SUFFICES ASSUME k + 1 <= n PROVE TextUpTo(f, a)[k + 1] \in T
      OBVIOUS
    <3>1. k + 1 \in 1 .. n /\ (k + 1) - 1 = k /\ k <= n
      BY <1>1
    <3>2. TextUpTo(f, a)[k] \in T
      BY <2>2, <3>1
    <3>3. TextUpTo(f, a)[k + 1] = TextUpTo(f, a)[k] \o New(k + 1)
      BY <1>13, <3>1
    <3> QED BY <1>0, <1>3, <3>1, <3>2, <3>3, Zenon
  <2>3. Typed \in SUBSET Nat
    OBVIOUS
  <2>4. \A k \in Nat : k \in Typed
    <3> HIDE DEF Typed
    <3> QED BY <2>1, <2>2, <2>3, Induction
  <2> QED BY <1>1, <2>4
<1> QED BY <1>12, <1>13, <1>14, Zenon DEF TextFollows, n, New, T

-----------------------------------------------------------------------------
(***************************************************************************)
(* Log and Printf.                                                         *)
(***************************************************************************)

\* No %d is given the least int.
NoLeast == \A k \in 1 .. Len(fmt) :
  Role(fmt)[k] = "d" => ToInt(args[Taken(fmt)[k]].value) # IntMin

\* Where Printf stands, at the beginning of a literal or of a specification: it has
\* taken the arguments, and shown the text, of what lies before i.
Stands(k) ==
  /\ k \in 0 .. Len(fmt)
  /\ Role(fmt)[k] \notin Specifiers \cup {"unknown"}
  /\ arg_index = Taken(fmt)[k]
  /\ NoLeast => out = <<level>> \o TextUpTo(fmt, args)[k]

PrintfInv ==
  /\ level \in Levels
  /\ fmt \in Seq(Characters \ {"NUL"})
  /\ Fitting(fmt, args)
  /\ pc \in {"log", "printf", "returned", "beyond"}
  /\ (pc = "log") => i = 0 /\ arg_index = 0
  /\ (pc \in {"printf", "returned"}) => Stands(i)
  /\ (pc = "returned") => i = Len(fmt)
  /\ (pc = "beyond") =>
       /\ i = Len(fmt) + 1 /\ Len(fmt) # 0 /\ fmt[Len(fmt)] = "%"
       /\ arg_index = Taken(fmt)[Len(fmt)]

LEMMA PrintfTypes ==
  ASSUME PrintfInv
  PROVE  /\ Len(fmt) \in Nat /\ fmt \in Seq(Characters)
         /\ \A k \in 1 .. Len(fmt) : fmt[k] \in Characters \ {"NUL"}
         /\ RoleFollows(fmt) /\ TakenFollows(fmt) /\ TextFollows(fmt, args)
<1>1. fmt \in Seq(Characters \ {"NUL"}) /\ Len(fmt) \in Nat /\ Fitting(fmt, args)
  BY DEF PrintfInv
<1>2. \A k \in 1 .. Len(fmt) : fmt[k] \in Characters \ {"NUL"}
  BY <1>1
<1>3. fmt \in Seq(Characters)
  BY <1>1, Zenon DEF Fitting
<1>4. RoleFollows(fmt) /\ TakenFollows(fmt) /\ TextFollows(fmt, args)
  BY <1>1, RoleIs, TakenIs, TextIs, Zenon
<1> QED BY <1>1, <1>2, <1>3, <1>4

\* One more piece of the text.
Extended(text, piece) == <<level>> \o (text \o piece) = (<<level>> \o text) \o piece

LEMMA Extends ==
  ASSUME level \in Levels, NEW text \in Seq(Characters), NEW piece \in Seq(Characters)
  PROVE  Extended(text, piece)
<1>1. level \in Characters
  BY DEF Characters
<1> DEFINE s == <<level>>
<1>2. s \in Seq(Characters)
  BY <1>1
<1> HIDE DEF s
<1>3. s \o (text \o piece) = (s \o text) \o piece
  BY <1>2, ConcatAssociative
<1> QED BY <1>3 DEF Extended, s

\* Log hands on the level, with nothing of the format shown.
LEMMA LogKeeps == PrintfInv /\ Log => PrintfInv'
<1> SUFFICES ASSUME PrintfInv, Log PROVE PrintfInv'
  OBVIOUS
<1>1. /\ pc' = "printf" /\ out' = <<level>> /\ i = 0 /\ arg_index = 0
      /\ UNCHANGED <<level, fmt, args, i, arg_index>>
  BY DEF PrintfInv, Log
<1>2. RoleFollows(fmt) /\ TakenFollows(fmt) /\ TextFollows(fmt, args) /\ Len(fmt) \in Nat
  BY PrintfTypes
<1>3. Role(fmt)[0] = "none" /\ Taken(fmt)[0] = 0 /\ TextUpTo(fmt, args)[0] = <<>>
  BY <1>2 DEF RoleFollows, TakenFollows, TextFollows
<1>4. <<level>> \o <<>> = <<level>>
  <2>1. level \in Characters
    BY DEF PrintfInv, Characters
  <2>2. <<level>> \in Seq(Characters)
    BY <2>1
  <2> QED BY <2>2, ConcatEmptySeq, Zenon
<1>5. "none" \notin Specifiers \cup {"unknown"}
  BY DEF Specifiers, Numbers
<1>6. Stands(i)'
  <2>1. out' = <<level>> \o TextUpTo(fmt, args)[0]
    BY <1>1, <1>3, <1>4
  <2>2. 0 \in 0 .. Len(fmt)
    BY <1>2
  <2> QED BY <1>1, <1>3, <1>5, <2>1, <2>2 DEF Stands
<1> QED BY <1>1, <1>6 DEF PrintfInv

\* A character that is printed, or the return at the end.
LEMMA PrintLiteralKeeps == PrintfInv /\ PrintLiteral => PrintfInv'
<1> SUFFICES ASSUME PrintfInv, PrintLiteral PROVE PrintfInv'
  OBVIOUS
<1> DEFINE n == Len(fmt)
           T == TextUpTo(fmt, args)
<1>1. /\ pc = "printf" /\ At(i) # "%" /\ Stands(i) /\ Fitting(fmt, args)
      /\ level \in Levels /\ UNCHANGED <<level, fmt, args, arg_index>>
  BY DEF PrintfInv, PrintLiteral
<1>2. /\ n \in Nat /\ RoleFollows(fmt) /\ TakenFollows(fmt) /\ TextFollows(fmt, args)
      /\ \A k \in 1 .. n : fmt[k] \in Characters \ {"NUL"}
  BY PrintfTypes
<1>3. i \in 0 .. n /\ Role(fmt)[i] \notin Specifiers \cup {"unknown"}
  BY <1>1 DEF Stands
<1>4. CASE At(i) = "NUL"
  <2>1. i = n
    <3>1. CASE i # n
      <4>1. i + 1 \in 1 .. n /\ At(i) = fmt[i + 1]
        BY <1>2, <1>3, <3>1 DEF At
      <4> QED BY <1>2, <1>4, <4>1
    <3> QED BY <3>1
  <2>2. pc' = "returned" /\ UNCHANGED <<i, out>>
    BY <1>4 DEF PrintLiteral
  <2>3. Stands(i)'
    BY <1>1, <2>2 DEF Stands, NoLeast
  <2> QED BY <1>1, <2>1, <2>2, <2>3 DEF PrintfInv
<1>5. CASE At(i) # "NUL"
  <2>1. pc' = "printf" /\ i' = i + 1 /\ out' = Append(out, At(i))
    BY <1>1, <1>5 DEF PrintLiteral
  <2>2. i # n /\ At(i) = fmt[i + 1]
    BY <1>5 DEF At
  <2>3. i + 1 \in 1 .. n /\ (i + 1) - 1 = i /\ i + 1 \in 0 .. n
    BY <1>2, <1>3, <2>2
  <2>4. fmt[i + 1] # "%" /\ fmt[i + 1] \in Characters
    BY <1>1, <1>2, <2>2, <2>3
  <2>5. Role(fmt)[i + 1] = "char"
    <3>1. Role(fmt)[i + 1] = NextRole(fmt, i + 1, Role(fmt)[i])
      BY <1>2, <2>3 DEF RoleFollows
    <3> QED BY <1>3, <2>4, <3>1 DEF NextRole
  <2>6. "char" \notin Specifiers \cup {"unknown"}
    BY DEF Specifiers, Numbers
  <2>7. Taken(fmt)[i + 1] = Taken(fmt)[i]
    <3>1. Taken(fmt)[i + 1] = Taken(fmt)[i] + 0 /\ Taken(fmt)[i] \in Nat
      BY <1>2, <1>3, <2>3, <2>5, <2>6 DEF TakenFollows
    <3> QED BY <3>1
  <2>8. T[i + 1] = T[i] \o <<fmt[i + 1]>> /\ T[i] \in Seq(Characters)
    <3>1. Piece(fmt, args, i + 1) = <<fmt[i + 1]>>
      BY <2>5, <2>6 DEF Piece
    <3>2. T[i + 1] = T[i] \o Piece(fmt, args, i + 1) /\ T[i] \in Seq(Characters)
      BY <1>2, <1>3, <2>3 DEF TextFollows
    <3> QED BY <3>1, <3>2
  <2>9. ASSUME NoLeast PROVE out' = <<level>> \o T[i + 1]
    <3>1. out = <<level>> \o T[i]
      BY <1>1, <2>9 DEF Stands
    <3> DEFINE c == fmt[i + 1]
               t == T[i]
    <3>2. out' = Append(<<level>> \o t, c)
      BY <2>1, <2>2, <3>1
    <3>3. c \in Characters /\ t \in Seq(Characters) /\ level \in Characters
      BY <1>1, <2>4, <2>8 DEF Characters
    <3> HIDE DEF c, t
    <3>4. <<c>> \in Seq(Characters) /\ <<level>> \o t \in Seq(Characters)
      BY <3>3
    <3>5. Append(<<level>> \o t, c) = (<<level>> \o t) \o <<c>>
      BY <3>3, <3>4, AppendIsConcat
    <3>6. Extended(t, <<c>>)
      BY <1>1, <3>3, <3>4, Extends, Zenon
    <3>7. out' = <<level>> \o (t \o <<c>>)
      BY <3>2, <3>5, <3>6, Zenon DEF Extended
    <3> QED BY <2>8, <3>7 DEF c, t
  <2>10. Stands(i)'
    <3>1. (NoLeast)' => NoLeast
      BY <1>1 DEF NoLeast
    <3> QED BY <1>1, <2>1, <2>3, <2>5, <2>6, <2>7, <2>9, <3>1 DEF Stands
  <2> QED BY <1>1, <2>1, <2>10 DEF PrintfInv
<1> QED BY <1>4, <1>5

\* What a specifier shows.
LEMMA ArgShown ==
  ASSUME NEW c \in Specifiers, PrintArg(c), IsArgument(args[arg_index + 1]),
         Suits(c, args[arg_index + 1]),
         c = "d" => ToInt(args[arg_index + 1].value) # IntMin
  PROVE  out' = out \o Printed(c, args[arg_index + 1].value)
<1> DEFINE v == args[arg_index + 1].value
<1>1. c \in {"d", "u", "x", "X", "c", "s"} /\ Value = v
  BY DEF Specifiers, Numbers, Value
<1>2. ASSUME c \in Numbers PROVE v \in Int
  <2>1. args[arg_index + 1].type \in {"kInt", "kUInt"}
    BY <1>2 DEF Suits, Numbers
  <2> QED BY <2>1 DEF IsArgument
<1> HIDE DEF v
<1>3. CASE c = "d"
  <2>1. PICK s \in SetLogBuffer(ToInt(v)) : PrintNumber(s)
    BY <1>1, <1>3 DEF PrintArg
  <2>2. v \in Int /\ ToInt(v) # IntMin
    BY <1>2, <1>3 DEF Numbers, v
  <2>3. s = Printed("d", v)
    BY <2>2, IntShown
  <2> QED BY <1>3, <2>1, <2>3 DEF PrintNumber, v
<1>4. CASE c = "u"
  <2>1. PrintNumber(SetLogBufferUnsigned(ToUInt(v))) /\ v \in Int
    BY <1>1, <1>2, <1>4 DEF PrintArg, Numbers
  <2>2. SetLogBufferUnsigned(ToUInt(v)) = Printed("u", v)
    BY <2>1, UnsignedShown
  <2> QED BY <1>4, <2>1, <2>2 DEF PrintNumber, v
<1>5. CASE c \in {"x", "X"}
  <2>1. PrintNumber(SetLogBufferHex(ToUInt(v))) /\ v \in Int
    BY <1>1, <1>2, <1>5 DEF PrintArg, Numbers
  <2>2. SetLogBufferHex(ToUInt(v)) = Printed(c, v)
    BY <1>5, <2>1, HexShown
  <2> QED BY <2>1, <2>2 DEF PrintNumber, v
<1>6. CASE c = "c"
  <2>1. out' = Append(out, v)
    BY <1>1, <1>6 DEF PrintArg
  <2>2. Printed(c, v) = <<v>>
    BY <1>6 DEF Printed, IsOmitted, Shown
  <2> QED BY <2>1, <2>2 DEF v
<1>7. CASE c = "s"
  <2>1. out' = out \o v
    BY <1>1, <1>7 DEF PrintArg
  <2>2. Printed(c, v) = v
    BY <1>7 DEF Printed, IsOmitted, Shown
  <2> QED BY <2>1, <2>2 DEF v
<1> QED BY <1>1, <1>3, <1>4, <1>5, <1>6, <1>7

\* Behind a position of the format that shows only part of the text.
LEMMA NothingShown ==
  ASSUME PrintfInv, NEW k \in 1 .. Len(fmt), Role(fmt)[k] \in {"second", "unknown"}
  PROVE  /\ Taken(fmt)[k] = Taken(fmt)[k - 1]
         /\ TextUpTo(fmt, args)[k] = TextUpTo(fmt, args)[k - 1]
<1> DEFINE T == TextUpTo(fmt, args)
<1>1. Len(fmt) \in Nat /\ TakenFollows(fmt) /\ TextFollows(fmt, args)
  BY PrintfTypes
<1>2. Role(fmt)[k] \notin Specifiers /\ Role(fmt)[k] # "char"
  BY DEF Specifiers, Numbers
<1>3. k - 1 \in 0 .. Len(fmt)
  BY <1>1
<1>4. Taken(fmt)[k] = Taken(fmt)[k - 1] + 0 /\ Taken(fmt)[k - 1] \in Nat
  BY <1>1, <1>2, <1>3 DEF TakenFollows
<1>5. T[k] = T[k - 1] \o <<>> /\ T[k - 1] \in Seq(Characters)
  <2>1. Piece(fmt, args, k) = <<>>
    BY <1>2 DEF Piece
  <2>2. T[k] = T[k - 1] \o Piece(fmt, args, k) /\ T[k - 1] \in Seq(Characters)
    BY <1>1, <1>3 DEF TextFollows
  <2> QED BY <2>1, <2>2
<1>6. T[k] = T[k - 1]
  BY <1>5, ConcatEmptySeq
<1> QED BY <1>4, <1>6

\* A specification: its % and the character behind it.
LEMMA FormatKeeps == PrintfInv /\ Format => PrintfInv'
<1> SUFFICES ASSUME PrintfInv, Format PROVE PrintfInv'
  OBVIOUS
<1> DEFINE n == Len(fmt)
           T == TextUpTo(fmt, args)
           c == At(i + 1)
<1>1. /\ pc = "printf" /\ At(i) = "%" /\ Stands(i) /\ Fitting(fmt, args)
      /\ fmt \in Seq(Characters \ {"NUL"}) /\ level \in Levels
      /\ i' = i + 2 /\ pc' = (IF i' > n THEN "beyond" ELSE "printf")
      /\ UNCHANGED <<level, fmt, args>>
  BY DEF PrintfInv, Format, AfterSpecifier
<1>2. /\ n \in Nat /\ RoleFollows(fmt) /\ TakenFollows(fmt) /\ TextFollows(fmt, args)
      /\ \A k \in 1 .. n : fmt[k] \in Characters \ {"NUL"}
  BY PrintfTypes
<1>3. i \in 0 .. n /\ Role(fmt)[i] \notin Specifiers \cup {"unknown"}
  BY <1>1 DEF Stands
<1>4. i + 1 \in 1 .. n /\ (i + 1) - 1 = i /\ fmt[i + 1] = "%"
  <2>1. i # n /\ fmt[i + 1] = "%"
    BY <1>1 DEF At
  <2> QED BY <1>2, <1>3, <2>1
<1>5. Role(fmt)[i + 1] = NextRole(fmt, i + 1, Role(fmt)[i])
  BY <1>2, <1>4 DEF RoleFollows
<1>6. (NoLeast)' => NoLeast
  BY <1>1 DEF NoLeast
<1>7. ASSUME i + 1 # n
      PROVE  /\ i + 2 \in 1 .. n /\ (i + 2) - 1 = i + 1 /\ i + 2 \in 0 .. n
             /\ c = fmt[i + 2] /\ pc' = "printf"
  <2>1. i + 2 \in 1 .. n /\ (i + 2) - 1 = i + 1 /\ i + 2 \in 0 .. n /\ (i + 1) + 1 = i + 2
    BY <1>2, <1>4, <1>7
  <2>2. c = fmt[i + 2]
    BY <1>7, <2>1 DEF At
  <2>3. ~(i + 2 > n)
    BY <1>2, <2>1
  <2> QED BY <1>1, <2>1, <2>2, <2>3
<1>8. ASSUME i + 1 # n, Role(fmt)[i + 1] \in Specifiers \cup {"unknown"}
      PROVE  /\ Role(fmt)[i + 2] \notin Specifiers \cup {"unknown"}
             /\ Taken(fmt)[i + 2] = Taken(fmt)[i + 1] /\ T[i + 2] = T[i + 1]
  <2>1. Role(fmt)[i + 2] = "second"
    <3>1. Role(fmt)[i + 2] = NextRole(fmt, i + 2, Role(fmt)[i + 1])
      BY <1>2, <1>7, <1>8 DEF RoleFollows
    <3> QED BY <1>8, <3>1 DEF NextRole
  <2>2. i + 2 \in 1 .. n /\ (i + 2) - 1 = i + 1
    BY <1>7, <1>8
  <2>3. Taken(fmt)[i + 2] = Taken(fmt)[(i + 2) - 1] /\ T[i + 2] = T[(i + 2) - 1]
    BY <2>1, <2>2, NothingShown
  <2>4. "second" \notin Specifiers \cup {"unknown"}
    BY DEF Specifiers, Numbers
  <2> QED BY <2>1, <2>2, <2>3, <2>4
<1>9. CASE c \in Specifiers
  <2>1. i + 1 # n
    <3>1. (i + 1 = n) => c = "NUL"
      BY DEF At
    <3> QED BY <1>9, <3>1 DEF Specifiers, Numbers
  <2>2. /\ i + 2 \in 1 .. n /\ (i + 2) - 1 = i + 1 /\ i + 2 \in 0 .. n
        /\ c = fmt[i + 2] /\ pc' = "printf"
    BY <1>7, <2>1
  <2>3. Role(fmt)[i + 1] = c
    <3>1. i + 1 < n /\ fmt[(i + 1) + 1] \in Specifiers /\ fmt[(i + 1) + 1] = c
      BY <1>2, <1>4, <1>9, <2>1, <2>2
    <3> QED BY <1>3, <1>4, <1>5, <3>1 DEF NextRole
  <2>4. PrintArg(c) /\ arg_index' = arg_index + 1
    BY <1>9 DEF Format, NextArg
  <2>5. Taken(fmt)[i + 1] = arg_index + 1
    <3>1. Taken(fmt)[i + 1] = Taken(fmt)[i] + 1
      BY <1>2, <1>4, <1>9, <2>3 DEF TakenFollows
    <3> QED BY <1>1, <3>1 DEF Stands
  <2> DEFINE a == args[arg_index + 1]
             s == Printed(c, a.value)
  <2>6. IsArgument(a) /\ Suits(c, a)
    <3>1. IsArgument(args[Taken(fmt)[i + 1]]) /\ Suits(c, args[Taken(fmt)[i + 1]])
      <4>1. Role(fmt)[i + 1] \in Specifiers
        BY <1>9, <2>3
      <4>2. /\ IsArgument(args[Taken(fmt)[i + 1]])
            /\ Suits(Role(fmt)[i + 1], args[Taken(fmt)[i + 1]])
        BY <1>1, <1>4, <4>1, ArgumentIs, Zenon
      <4> QED BY <2>3, <4>2
    <3> QED BY <2>5, <3>1
  <2>7. s \in Seq(Characters)
    BY <1>9, <2>6, ShownType
  <2>8. T[i + 1] = T[i] \o s /\ T[i] \in Seq(Characters)
    <3>1. Piece(fmt, args, i + 1) = s
      <4>1. c # "char"
        BY <1>9 DEF Specifiers, Numbers
      <4>2. Piece(fmt, args, i + 1) = Printed(c, args[Taken(fmt)[i + 1]].value)
        BY <1>9, <2>3, <4>1 DEF Piece
      <4> QED BY <2>5, <4>2
    <3>2. T[i + 1] = T[i] \o Piece(fmt, args, i + 1) /\ T[i] \in Seq(Characters)
      BY <1>2, <1>3, <1>4 DEF TextFollows
    <3> QED BY <3>1, <3>2
  <2>9. ASSUME NoLeast PROVE out' = <<level>> \o T[i + 1]
    <3>1. out = <<level>> \o T[i]
      BY <1>1, <2>9 DEF Stands
    <3>2. (c = "d") => ToInt(a.value) # IntMin
      BY <1>4, <2>3, <2>5, <2>9 DEF NoLeast
    <3>3. out' = out \o s
      BY <1>9, <2>4, <2>6, <3>2, ArgShown
    <3> HIDE DEF s, T
    <3>4. Extended(T[i], s)
      BY <1>1, <2>7, <2>8, Extends, Zenon
    <3> QED BY <2>8, <3>1, <3>3, <3>4, Zenon DEF Extended
  <2>10. /\ Role(fmt)[i + 2] \notin Specifiers \cup {"unknown"}
         /\ Taken(fmt)[i + 2] = arg_index' /\ T[i + 2] = T[i + 1]
    BY <1>8, <1>9, <2>1, <2>3, <2>4, <2>5
  <2>11. Stands(i)'
    BY <1>1, <1>6, <2>2, <2>9, <2>10 DEF Stands
  <2> QED BY <1>1, <2>2, <2>11 DEF PrintfInv
<1>10. CASE c \notin Specifiers
  <2>1. UNCHANGED <<out, arg_index>>
    BY <1>10 DEF Format
  <2>2. Role(fmt)[i + 1] = "unknown"
    <3>1. (i + 1 < n) => fmt[(i + 1) + 1] \notin Specifiers
      <4>1. (i + 1 < n) => fmt[(i + 1) + 1] = c
        BY <1>2, <1>4 DEF At
      <4> QED BY <1>10, <4>1
    <3> QED BY <1>3, <1>4, <1>5, <3>1 DEF NextRole
  <2>3. Taken(fmt)[i + 1] = Taken(fmt)[i] /\ T[i + 1] = T[i]
    <3>1. Taken(fmt)[i + 1] = Taken(fmt)[(i + 1) - 1] /\ T[i + 1] = T[(i + 1) - 1]
      BY <1>4, <2>2, NothingShown
    <3> QED BY <1>4, <3>1
  <2>4. arg_index = Taken(fmt)[i + 1] /\ (NoLeast => out = <<level>> \o T[i + 1])
    BY <1>1, <2>3 DEF Stands
  <2>5. CASE i + 1 # n
    <3>1. i + 2 \in 0 .. n /\ pc' = "printf"
      BY <1>7, <2>5
    <3>2. /\ Role(fmt)[i + 2] \notin Specifiers \cup {"unknown"}
          /\ Taken(fmt)[i + 2] = Taken(fmt)[i + 1] /\ T[i + 2] = T[i + 1]
      BY <1>8, <2>2, <2>5
    <3>3. Stands(i)'
      BY <1>1, <1>6, <2>1, <2>4, <3>1, <3>2 DEF Stands
    <3> QED BY <1>1, <3>1, <3>3 DEF PrintfInv
  <2>6. CASE i + 1 = n
    <3>1. i' = n + 1 /\ pc' = "beyond" /\ n # 0
      BY <1>1, <1>2, <1>4, <2>6
    <3>2. fmt[n] = "%" /\ arg_index' = Taken(fmt)[n]
      BY <1>4, <2>1, <2>4, <2>6
    <3> QED BY <1>1, <3>1, <3>2 DEF PrintfInv
  <2> QED BY <2>5, <2>6
<1> QED BY <1>9, <1>10

\* What Log's callers hand it.
LEMMA PrintfBegins == LogInit => PrintfInv
<1> SUFFICES ASSUME LogInit PROVE PrintfInv
  OBVIOUS
<1>1. /\ level \in Levels /\ fmt \in Formats /\ pc = "log" /\ i = 0 /\ arg_index = 0
      /\ args \in [1 .. Taken(fmt)[Len(fmt)] -> Args(fmt)]
      /\ \A k \in 1 .. Len(fmt) :
           Role(fmt)[k] \in Specifiers => Suits(Role(fmt)[k], args[Taken(fmt)[k]])
  BY DEF LogInit
<1>2. STRING \subseteq Characters /\ STRING \ {"NUL"} \subseteq Characters \ {"NUL"}
  BY DEF Characters
<1>3. fmt \in Seq(Characters \ {"NUL"})
  <2>1. fmt \in Seq(STRING \ {"NUL"})
    BY <1>1, LoggerAssumption
  <2> QED BY <1>2, <2>1, SeqMonotonic, Zenon
<1>4. fmt \in Seq(Characters)
  <2>1. Characters \ {"NUL"} \subseteq Characters
    OBVIOUS
  <2> QED BY <1>3, <2>1, SeqMonotonic, Zenon
<1>5. ASSUME NEW x \in Args(fmt) PROVE IsArgument(x)
  <2>1. \/ x.type = "kInt" /\ x.value \in IntMin .. IntMax
        \/ x.type = "kUInt" /\ x.value \in 0 .. (UIntMod - 1)
        \/ x.type = "kChar" /\ x.value \in STRING
        \/ x.type = "kStr" /\ x.value \in Seq(STRING)
    BY <1>1, LoggerAssumption, Zenon
  <2>2. IntMin .. IntMax \subseteq Int /\ 0 .. (UIntMod - 1) \subseteq Int
    BY LoggerAssumption DEF IntMin, UIntMod
  <2>3. CASE x.type = "kStr" /\ x.value \in Seq(STRING)
    <3>1. x.value \in Seq(Characters)
      BY <1>2, <2>3, SeqMonotonic, Zenon
    <3> QED BY <2>3, <3>1 DEF IsArgument
  <2>4. CASE x.type = "kChar" /\ x.value \in STRING
    BY <1>2, <2>4, Zenon DEF IsArgument
  <2> QED BY <2>1, <2>2, <2>3, <2>4 DEF IsArgument
<1>6. Fitting(fmt, args)
  BY <1>1, <1>4, <1>5, Zenon DEF Fitting
<1> QED BY <1>1, <1>3, <1>6 DEF PrintfInv

LEMMA PrintfKept == PrintfInv /\ [LogNext]_logVars => PrintfInv'
<1> SUFFICES ASSUME PrintfInv, [LogNext]_logVars PROVE PrintfInv'
  OBVIOUS
<1>1. CASE Log
  BY <1>1, LogKeeps
<1>2. CASE PrintLiteral
  BY <1>2, PrintLiteralKeeps
<1>3. CASE Format
  BY <1>3, FormatKeeps
<1>4. CASE UNCHANGED logVars
  BY <1>4 DEF logVars, PrintfInv, Stands, NoLeast
<1> QED BY <1>1, <1>2, <1>3, <1>4 DEF LogNext

LEMMA InvShowsText == PrintfInv => PrintfShowsText
<1> SUFFICES ASSUME PrintfInv, pc = "returned", NoLeast
             PROVE  out = <<level>> \o Text(fmt, args)
  BY DEF PrintfShowsText, NoLeast
<1>1. Stands(i) /\ i = Len(fmt)
  BY DEF PrintfInv
<1> QED BY <1>1, Zenon DEF Stands, Text

LEMMA InvLeavesAtEnd == PrintfInv => BeyondOnlyAfterPercent
<1> SUFFICES ASSUME PrintfInv, pc = "beyond"
             PROVE  arg_index = Len(args) /\ i = Len(fmt) + 1 /\ Last(fmt) = "%"
  BY DEF BeyondOnlyAfterPercent
<1>1. /\ i = Len(fmt) + 1 /\ fmt[Len(fmt)] = "%" /\ arg_index = Taken(fmt)[Len(fmt)]
      /\ args \in [1 .. Taken(fmt)[Len(fmt)] -> Args(fmt)]
  BY DEF PrintfInv, Fitting
<1>2. Taken(fmt)[Len(fmt)] \in Nat
  <2>1. Len(fmt) \in Nat /\ TakenFollows(fmt)
    BY PrintfTypes
  <2> QED BY <2>1 DEF TakenFollows
<1>3. Len(args) = Taken(fmt)[Len(fmt)]
  BY <1>1, <1>2
<1> QED BY <1>1, <1>3 DEF Last
=============================================================================
