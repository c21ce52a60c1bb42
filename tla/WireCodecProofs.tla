--------------------------- MODULE WireCodecProofs ---------------------------
(***************************************************************************)
(* Proofs about WireCodec for every base, every string and every number of *)
(* readings: what is encoded is decoded again, from a stream of which it   *)
(* is a part.                                                              *)
(*                                                                         *)
(* The loops of WireCodec are recursive functions.  That such a function   *)
(* exists, and what holds all along it, is shown with sets of numbers that *)
(* hold 0 and with each number the next one (SetInduction), which follows  *)
(* from every set of numbers having a least element.                       *)
(***************************************************************************)
EXTENDS WireCodec, WellFoundedInduction, TLAPS

-----------------------------------------------------------------------------
(* Induction and loops.                                                    *)

\* Every set of numbers that is not empty has a least element.
LEMMA NatMin ==
    ASSUME NEW T \in SUBSET Nat, T # {}
    PROVE  \E m \in T : \A n \in T : m <= n
  <1> DEFINE R == OpToRel(<, Nat)
  <1>1. IsWellFoundedOn(R, Nat)
    BY NatLessThanWellFounded
  <1>2. \A x, y \in Nat : x < y => <<x, y>> \in R
    BY DEF OpToRel
  <1> HIDE DEF R
  <1>3. PICK m \in T : \A n \in T : ~(<<n, m>> \in R)
    BY <1>1, WFMin
  <1>4. \A n \in T : ~(n < m)
    BY <1>2, <1>3
  <1>5. m \in Nat /\ \A n \in T : n \in Nat
    OBVIOUS
  <1> QED BY <1>4, <1>5
\* A set that has 0, and with every number the next one, has every number.
LEMMA SetInduction ==
    ASSUME NEW S, 0 \in S, \A n \in Nat : n \in S => n + 1 \in S
    PROVE  \A n \in Nat : n \in S
  <1> DEFINE T == Nat \ S
  <1>1. SUFFICES ASSUME T # {} PROVE FALSE
    OBVIOUS
  <1>2. PICK m \in T : \A n \in T : m <= n
    BY <1>1, NatMin
  <1>3. m # 0 /\ m - 1 \in Nat /\ m - 1 \notin T
    BY <1>2
  <1> QED BY <1>2, <1>3
\* f is the loop that starts with a and takes step n times.
Loop(n, S, a, step, f) ==
    /\ f \in [0..n -> S]
    /\ f[0] = a
    /\ \A i \in 1..n : f[i] = step[<<i, f[i - 1]>>]

\* A loop has a run: a function of how far it has come.
LEMMA Recursion ==
    ASSUME NEW n \in Nat, NEW S, NEW a \in S, NEW step \in [(1..n) \X S -> S]
    PROVE  \E f : Loop(n, S, a, step, f)
  <1> DEFINE Up(k, f) == f \in [0..k -> S] /\ f[0] = a /\ \A i \in 1..k : f[i] = step[<<i, f[i-1]>>]
             P == {k \in Nat : k <= n => \E f : Up(k, f)}
  <1>1. 0 \in P
    <2> DEFINE f == [i \in 0..0 |-> a]
    <2>1. Up(0, f)
      OBVIOUS
    <2> QED BY <2>1
  <1>2. ASSUME NEW k \in Nat, k \in P PROVE k + 1 \in P
    <2>1. SUFFICES ASSUME k + 1 <= n PROVE \E f : Up(k + 1, f)
      OBVIOUS
    <2>2. PICK f : Up(k, f)
      BY <1>2, <2>1
    <2> DEFINE g == [i \in 0..(k+1) |-> IF i = k + 1 THEN step[<<k + 1, f[k]>>] ELSE f[i]]
    <2>3. f[k] \in S /\ step[<<k+1, f[k]>>] \in S
      BY <2>1, <2>2
    <2>4. g \in [0..(k+1) -> S] /\ g[0] = a
      BY <2>2, <2>3
    <2>5. \A i \in 1..(k+1) : g[i] = step[<<i, g[i-1]>>]
      <3> TAKE i \in 1..(k+1)
      <3>1. i - 1 \in 0..k /\ g[i-1] = f[i-1]
        OBVIOUS
      <3>2. CASE i = k + 1
        <4>1. g[k+1] = step[<<k+1, f[k]>>]
          OBVIOUS
        <4>2. i - 1 = k
          BY <3>2
        <4> QED BY <3>1, <3>2, <4>1, <4>2
      <3>3. CASE i # k + 1
        <4>1. i \in 1..k /\ g[i] = f[i]
          BY <3>3
        <4> QED BY <2>2, <3>1, <4>1
      <3> QED BY <3>2, <3>3
    <2> HIDE DEF g
    <2> QED BY <2>4, <2>5
  <1> HIDE DEF P
  <1>3. n \in P
    BY <1>1, <1>2, SetInduction
  <1> QED BY <1>3 DEF P, Loop

\* And only one.
LEMMA Unique ==
    ASSUME NEW n \in Nat, NEW f, NEW g, f[0] = g[0],
           \A i \in 1..n : f[i - 1] = g[i - 1] => f[i] = g[i]
    PROVE  \A i \in 0..n : f[i] = g[i]
  <1> DEFINE P == {k \in Nat : k <= n => f[k] = g[k]}
  <1>1. 0 \in P
    OBVIOUS
  <1>2. ASSUME NEW k \in Nat, k \in P PROVE k + 1 \in P
    <2>1. SUFFICES ASSUME k + 1 <= n PROVE f[k + 1] = g[k + 1]
      OBVIOUS
    <2>2. f[k] = g[k] /\ k + 1 \in 1..n /\ (k + 1) - 1 = k
      BY <1>2, <2>1
    <2> QED BY <2>2
  <1> HIDE DEF P
  <1>3. \A k \in Nat : k \in P
    BY <1>1, <1>2, SetInduction
  <1> QED BY <1>3 DEF P

-----------------------------------------------------------------------------
(* Numbers and their bytes.                                                *)

\* The last digit of a number and the rest of it.
LEMMA Digits ==
    ASSUME NEW n \in Nat
    PROVE  /\ n \div Base \in Nat /\ n % Base \in 0..(Base - 1)
           /\ n = (n \div Base) * Base + (n % Base)
  <1>1. n \div Base \in Nat
    BY BaseAssumption
  <1>2. n % Base \in 0..(Base - 1)
    BY BaseAssumption
  <1>3. n = (n \div Base) * Base + (n % Base)
    BY BaseAssumption
  <1> QED BY <1>1, <1>2, <1>3

\* A number without its last digit.
LEMMA DivisionShrinks ==
    ASSUME NEW n \in Nat, NEW m \in Nat, n < Base * m
    PROVE  n \div Base < m
  <1> DEFINE q == n \div Base
  <1>1. q \in Nat /\ q * Base <= n
    BY BaseAssumption
  <1> HIDE DEF q
  <1>2. SUFFICES ASSUME q >= m PROVE FALSE
    BY <1>1 DEF q
  <1>3. q = m + (q - m) /\ q - m \in Nat
    BY <1>1, <1>2
  <1>4. \A d \in Nat : (m + d) * Base = m * Base + d * Base
    BY BaseAssumption
  <1>5. \A d \in Nat : d * Base >= 0
    BY BaseAssumption
  <1> QED BY <1>1, <1>3, <1>4, <1>5, BaseAssumption

\* The recursive functions of Power, BigEndian and NumberOf.
LEMMA PowerIs ==
    ASSUME NEW w \in Nat
    PROVE  \E power \in [0..w -> Nat] :
              /\ power[0] = 1
              /\ \A i \in 1..w : power[i] = Base * power[i - 1]
              /\ Power(w) = power[w]
  <1> DEFINE step == [x \in (1..w) \X Nat |-> Base * x[2]]
             Def(g) == g = [i \in 0..w |-> IF i = 0 THEN 1 ELSE Base * g[i - 1]]
  <1>1. w \in Nat /\ 1 \in Nat
    OBVIOUS
  <1>2. \A i \in 1..w, x \in Nat : Base * x \in Nat
    BY BaseAssumption
  <1>3. step \in [(1..w) \X Nat -> Nat]
    BY <1>2
  <1> HIDE DEF step
  <1>4. PICK f : Loop(w, Nat, 1, step, f)
    BY <1>1, <1>3, Recursion
  <1>5. f \in [0..w -> Nat] /\ f[0] = 1 /\ \A i \in 1..w : f[i] = Base * f[i - 1]
    <2>1. f \in [0..w -> Nat] /\ f[0] = 1
      BY <1>4 DEF Loop
    <2>2. ASSUME NEW i \in 1..w PROVE f[i] = Base * f[i - 1]
      <3>1. f[i] = step[<<i, f[i - 1]>>]
        BY <1>4 DEF Loop
      <3>0. i - 1 \in 0..w
        BY <1>1
      <3>2. f[i - 1] \in Nat /\ <<i, f[i - 1]>> \in (1..w) \X Nat
        BY <2>1, <3>0
      <3>3. \A x \in (1..w) \X Nat : step[x] = Base * x[2]
        BY DEF step
      <3> QED BY <3>1, <3>2, <3>3
    <2> QED BY <2>1, <2>2
  <1>6. Def(f)
    <2>1. \A i \in 0..w : f[i] = IF i = 0 THEN 1 ELSE Base * f[i - 1]
      <3> TAKE i \in 0..w
      <3>1. i = 0 \/ i \in 1..w
        BY <1>1
      <3>2. CASE i = 0
        BY <1>5, <3>2
      <3>3. CASE i # 0
        <4>1. f[i] = Base * f[i - 1]
          BY <1>5, <3>1, <3>3
        <4> QED BY <3>3, <4>1
      <3> QED BY <3>2, <3>3
    <2> QED BY <1>5, <2>1
  <1> DEFINE chosen == CHOOSE g : Def(g)
  <1>7. Def(chosen)
    BY <1>6
  <1> HIDE DEF chosen
  <1>8. \A i \in 0..w : chosen[i] = f[i]
    <2> DEFINE h == [i \in 0..w |-> IF i = 0 THEN 1 ELSE Base * chosen[i - 1]]
    <2>1. h[0] = 1
      BY <1>1
    <2>2. ASSUME NEW i \in 1..w PROVE h[i] = Base * chosen[i - 1]
      <3>1. i \in 0..w /\ i # 0
        BY <1>1
      <3> QED BY <3>1
    <2>3. chosen = h
      BY <1>7
    <2> HIDE DEF h, Def
    <2>4. chosen[0] = f[0]
      BY <1>5, <2>1, <2>3
    <2>5. \A i \in 1..w : chosen[i - 1] = f[i - 1] => chosen[i] = f[i]
      BY <1>5, <2>2, <2>3
    <2> QED BY <1>1, <2>4, <2>5, Unique
  <1>9. Power(w) = chosen[w]
    BY DEF Power, chosen
  <1>10. Power(w) = f[w]
    BY <1>8, <1>9
  <1> QED BY <1>5, <1>10

LEMMA BigEndianIs ==
    ASSUME NEW n \in Nat, NEW w \in Nat
    PROVE  \E rest \in [0..w -> Nat] :
              /\ rest[0] = n
              /\ \A i \in 1..w : rest[i] = rest[i - 1] \div Base
              /\ BigEndian(n, w) = [i \in 1..w |-> rest[w - i] % Base]
  <1> DEFINE step == [x \in (1..w) \X Nat |-> x[2] \div Base]
             Def(g) == g = [i \in 0..w |-> IF i = 0 THEN n ELSE g[i - 1] \div Base]
  <1>1. w \in Nat /\ n \in Nat
    OBVIOUS
  <1>2. \A i \in 1..w, x \in Nat : x \div Base \in Nat
    BY Digits
  <1>3. step \in [(1..w) \X Nat -> Nat]
    BY <1>2
  <1> HIDE DEF step
  <1>4. PICK f : Loop(w, Nat, n, step, f)
    BY <1>1, <1>3, Recursion
  <1>5. f \in [0..w -> Nat] /\ f[0] = n /\ \A i \in 1..w : f[i] = f[i - 1] \div Base
    <2>1. f \in [0..w -> Nat] /\ f[0] = n
      BY <1>4 DEF Loop
    <2>2. ASSUME NEW i \in 1..w PROVE f[i] = f[i - 1] \div Base
      <3>1. f[i] = step[<<i, f[i - 1]>>]
        BY <1>4 DEF Loop
      <3>0. i - 1 \in 0..w
        BY <1>1
      <3>2. f[i - 1] \in Nat /\ <<i, f[i - 1]>> \in (1..w) \X Nat
        BY <2>1, <3>0
      <3>3. \A x \in (1..w) \X Nat : step[x] = x[2] \div Base
        BY DEF step
      <3> QED BY <3>1, <3>2, <3>3
    <2> QED BY <2>1, <2>2
  <1>6. Def(f)
    <2>1. \A i \in 0..w : f[i] = IF i = 0 THEN n ELSE f[i - 1] \div Base
      <3> TAKE i \in 0..w
      <3>1. i = 0 \/ i \in 1..w
        BY <1>1
      <3>2. CASE i = 0
        BY <1>5, <3>2
      <3>3. CASE i # 0
        <4>1. f[i] = f[i - 1] \div Base
          BY <1>5, <3>1, <3>3
        <4> QED BY <3>3, <4>1
      <3> QED BY <3>2, <3>3
    <2> QED BY <1>5, <2>1
  <1> DEFINE chosen == CHOOSE g : Def(g)
  <1>7. Def(chosen)
    BY <1>6
  <1> HIDE DEF chosen
  <1>8. \A i \in 0..w : chosen[i] = f[i]
    <2> DEFINE h == [i \in 0..w |-> IF i = 0 THEN n ELSE chosen[i - 1] \div Base]
    <2>1. h[0] = n
      BY <1>1
    <2>2. ASSUME NEW i \in 1..w PROVE h[i] = chosen[i - 1] \div Base
      <3>1. i \in 0..w /\ i # 0
        BY <1>1
      <3> QED BY <3>1
    <2>3. chosen = h
      BY <1>7
    <2> HIDE DEF h, Def
    <2>4. chosen[0] = f[0]
      BY <1>5, <2>1, <2>3
    <2>5. \A i \in 1..w : chosen[i - 1] = f[i - 1] => chosen[i] = f[i]
      BY <1>5, <2>2, <2>3
    <2> QED BY <1>1, <2>4, <2>5, Unique
  <1>9. BigEndian(n, w) = [i \in 1..w |-> chosen[w - i] % Base]
    BY DEF BigEndian, chosen
  <1>10. \A i \in 1..w : w - i \in 0..w /\ chosen[w - i] = f[w - i]
    BY <1>8
  <1> HIDE DEF Def
  <1>11. BigEndian(n, w) = [i \in 1..w |-> f[w - i] % Base]
    BY <1>9, <1>10
  <1> QED BY <1>5, <1>11

LEMMA NumberOfIs ==
    ASSUME NEW bytes \in Seq(Nat)
    PROVE  \E num \in [0..Len(bytes) -> Nat] :
              /\ num[0] = 0
              /\ \A i \in 1..Len(bytes) : num[i] = num[i - 1] * Base + bytes[i]
              /\ NumberOf(bytes) = num[Len(bytes)]
  <1> DEFINE step == [x \in (1..Len(bytes)) \X Nat |-> x[2] * Base + bytes[x[1]]]
             Def(g) == g = [i \in 0..Len(bytes) |-> IF i = 0 THEN 0 ELSE g[i - 1] * Base + bytes[i]]
  <1>1. Len(bytes) \in Nat /\ 0 \in Nat
    OBVIOUS
  <1>2. \A i \in 1..Len(bytes), x \in Nat : x * Base + bytes[i] \in Nat
    BY BaseAssumption
  <1>3. step \in [(1..Len(bytes)) \X Nat -> Nat]
    BY <1>2
  <1> HIDE DEF step
  <1>4. PICK f : Loop(Len(bytes), Nat, 0, step, f)
    BY <1>1, <1>3, Recursion
  <1>5. /\ f \in [0..Len(bytes) -> Nat] /\ f[0] = 0
        /\ \A i \in 1..Len(bytes) : f[i] = f[i - 1] * Base + bytes[i]
    <2>1. f \in [0..Len(bytes) -> Nat] /\ f[0] = 0
      BY <1>4 DEF Loop
    <2>2. ASSUME NEW i \in 1..Len(bytes) PROVE f[i] = f[i - 1] * Base + bytes[i]
      <3>1. f[i] = step[<<i, f[i - 1]>>]
        BY <1>4 DEF Loop
      <3>0. i - 1 \in 0..Len(bytes)
        BY <1>1
      <3>2. f[i - 1] \in Nat /\ <<i, f[i - 1]>> \in (1..Len(bytes)) \X Nat
        BY <2>1, <3>0
      <3>3. \A x \in (1..Len(bytes)) \X Nat : step[x] = x[2] * Base + bytes[x[1]]
        BY DEF step
      <3> QED BY <3>1, <3>2, <3>3
    <2> QED BY <2>1, <2>2
  <1>6. Def(f)
    <2>1. \A i \in 0..Len(bytes) : f[i] = IF i = 0 THEN 0 ELSE f[i - 1] * Base + bytes[i]
      <3> TAKE i \in 0..Len(bytes)
      <3>1. i = 0 \/ i \in 1..Len(bytes)
        BY <1>1
      <3>2. CASE i = 0
        BY <1>5, <3>2
      <3>3. CASE i # 0
        <4>1. f[i] = f[i - 1] * Base + bytes[i]
          BY <1>5, <3>1, <3>3
        <4> QED BY <3>3, <4>1
      <3> QED BY <3>2, <3>3
    <2> QED BY <1>5, <2>1
  <1> DEFINE chosen == CHOOSE g : Def(g)
  <1>7. Def(chosen)
    BY <1>6
  <1> HIDE DEF chosen
  <1>8. \A i \in 0..Len(bytes) : chosen[i] = f[i]
    <2> DEFINE h == [i \in 0..Len(bytes) |-> IF i = 0 THEN 0 ELSE chosen[i - 1] * Base + bytes[i]]
    <2>1. h[0] = 0
      BY <1>1
    <2>2. ASSUME NEW i \in 1..Len(bytes) PROVE h[i] = chosen[i - 1] * Base + bytes[i]
      <3>1. i \in 0..Len(bytes) /\ i # 0
        BY <1>1
      <3> QED BY <3>1
    <2>3. chosen = h
      BY <1>7
    <2> HIDE DEF h, Def
    <2>4. chosen[0] = f[0]
      BY <1>5, <2>1, <2>3
    <2>5. \A i \in 1..Len(bytes) : chosen[i - 1] = f[i - 1] => chosen[i] = f[i]
      BY <1>5, <2>2, <2>3
    <2> QED BY <1>1, <2>4, <2>5, Unique, ZenonT(60)
  <1>9. NumberOf(bytes) = chosen[Len(bytes)]
    BY DEF NumberOf, chosen
  <1>10. NumberOf(bytes) = f[Len(bytes)]
    BY <1>1, <1>8, <1>9
  <1> QED BY <1>5, <1>10

\* A sequence over a set is one over every greater set.
LEMMA SeqGrows ==
    ASSUME NEW A, NEW B, A \subseteq B, NEW s \in Seq(A)
    PROVE  s \in Seq(B)
  <1>1. Len(s) \in Nat /\ s \in [1..Len(s) -> A]
    OBVIOUS
  <1>2. s \in [1..Len(s) -> B]
    BY <1>1
  <1> QED BY <1>1, <1>2

\* A number that fits in w bytes comes back from them.
LEMMA NumberRoundTrip ==
    ASSUME NEW w \in Nat, NEW n \in Nat, n < Power(w)
    PROVE  /\ BigEndian(n, w) \in Seq(0..(Base - 1))
           /\ Len(BigEndian(n, w)) = w
           /\ NumberOf(BigEndian(n, w)) = n
  <1>1. PICK power \in [0..w -> Nat] :
           /\ power[0] = 1
           /\ \A i \in 1..w : power[i] = Base * power[i - 1]
           /\ Power(w) = power[w]
    BY PowerIs
  <1>2. PICK rest \in [0..w -> Nat] :
           /\ rest[0] = n
           /\ \A i \in 1..w : rest[i] = rest[i - 1] \div Base
           /\ BigEndian(n, w) = [i \in 1..w |-> rest[w - i] % Base]
    BY BigEndianIs
  <1> DEFINE bytes == BigEndian(n, w)
  <1>3. \A i \in 1..w : rest[w - i] \in Nat /\ rest[w - i] % Base \in 0..(Base - 1)
    <2> TAKE i \in 1..w
    <2>1. w - i \in 0..w
      OBVIOUS
    <2> QED BY <2>1, Digits
  <1>4. bytes \in Seq(0..(Base - 1)) /\ Len(bytes) = w
    BY <1>2, <1>3
  <1>5. \A i \in 1..w : bytes[i] = rest[w - i] % Base
    BY <1>2
  <1> HIDE DEF bytes
  <1>6. bytes \in Seq(Nat)
    BY <1>4, BaseAssumption
  <1>7. PICK num \in [0..w -> Nat] :
           /\ num[0] = 0
           /\ \A i \in 1..w : num[i] = num[i - 1] * Base + bytes[i]
           /\ NumberOf(bytes) = num[w]
    BY <1>4, <1>6, NumberOfIs
  <1> DEFINE Small == {i \in Nat : i <= w => rest[i] < power[w - i]}
             Same  == {i \in Nat : i <= w => num[i] = rest[w - i]}
  <1>8. w \in Small
    <2>1. 0 \in Small
      BY <1>1, <1>2
    <2>2. ASSUME NEW i \in Nat, i \in Small PROVE i + 1 \in Small
      <3>1. SUFFICES ASSUME i + 1 <= w PROVE rest[i + 1] < power[w - (i + 1)]
        OBVIOUS
      <3>2. rest[i] < power[w - i] /\ rest[i] \in Nat
        BY <2>2, <3>1
      <3>3. power[w - i] = Base * power[w - (i + 1)] /\ power[w - (i + 1)] \in Nat
        <4>1. w - i \in 1..w /\ (w - i) - 1 = w - (i + 1) /\ w - (i + 1) \in 0..w
          BY <3>1
        <4> QED BY <1>1, <4>1
      <3>4. rest[i + 1] = rest[i] \div Base
        <4>1. i + 1 \in 1..w /\ (i + 1) - 1 = i
          BY <3>1
        <4> QED BY <1>2, <4>1
      <3> QED BY <3>2, <3>3, <3>4, DivisionShrinks
    <2> HIDE DEF Small
    <2> QED BY <2>1, <2>2, SetInduction
  <1>9. w \in Same
    <2>1. 0 \in Same
      <3>1. rest[w] < 1 /\ rest[w] \in Nat
        BY <1>1, <1>8
      <3> QED BY <1>7, <3>1
    <2>2. ASSUME NEW i \in Nat, i \in Same PROVE i + 1 \in Same
      <3>1. SUFFICES ASSUME i + 1 <= w PROVE num[i + 1] = rest[w - (i + 1)]
        OBVIOUS
      <3>2. num[i] = rest[w - i]
        BY <2>2, <3>1
      <3>3. num[i + 1] = num[i] * Base + bytes[i + 1]
        <4>1. i + 1 \in 1..w /\ (i + 1) - 1 = i
          BY <3>1
        <4> QED BY <1>7, <4>1
      <3>4. bytes[i + 1] = rest[w - (i + 1)] % Base
        BY <1>5, <3>1
      <3>5. rest[w - i] = rest[w - (i + 1)] \div Base /\ rest[w - (i + 1)] \in Nat
        <4>1. w - i \in 1..w /\ (w - i) - 1 = w - (i + 1) /\ w - (i + 1) \in 0..w
          BY <3>1
        <4> QED BY <1>2, <4>1
      <3> QED BY <3>2, <3>3, <3>4, <3>5, Digits
    <2> HIDE DEF Same
    <2> QED BY <2>1, <2>2, SetInduction
  <1>10. NumberOf(bytes) = n
    BY <1>2, <1>7, <1>9
  <1> QED BY <1>4, <1>10 DEF bytes

\* The bytes of a number.
LEMMA NumberIs ==
    ASSUME NEW w \in Nat, NEW n \in Nat
    PROVE  BigEndian(n, w) \in Seq(Int) /\ Len(BigEndian(n, w)) = w
  <1>1. PICK rest \in [0..w -> Nat] : BigEndian(n, w) = [i \in 1..w |-> rest[w - i] % Base]
    BY BigEndianIs
  <1>2. \A i \in 1..w : rest[w - i] % Base \in Int
    <2> TAKE i \in 1..w
    <2>1. w - i \in 0..w
      OBVIOUS
    <2>2. rest[w - i] \in Nat
      BY <2>1
    <2>3. rest[w - i] % Base \in 0..(Base - 1)
      BY <2>2, Digits
    <2> QED BY <2>3
  <1> QED BY <1>1, <1>2

-----------------------------------------------------------------------------
(* Fields and layouts.                                                     *)

\* What the places of a stream hold: bytes, characters and checksums.
Cell == Int \cup {Mixed(s) : s \in Seq(Int)}

LEMMA TextsAreCells == \A s \in Seq(Int) : s \in Seq(Cell)
  <1>1. Int \subseteq Cell
    BY DEF Cell
  <1> QED BY <1>1, SeqGrows

\* A field of a layout, and the values that fit in it: a number that its bytes
\* can say, a string whose length they can say.
FieldName ==
    {"FirmwareVersion", "Sn", "Token", "ID", "Device", "DeviceName", "Point", "PointName",
     "DataType", "Value", "Quality", "Unit", "Timestamp", "EventCode", "DeviceHash", "Severity",
     "Message", "RawData", "Code", "Magic", "Version", "Flags", "Type", "MsgID", "PayloadLen"}

FieldType == [name : FieldName, w : Nat, str : BOOLEAN, checked : BOOLEAN]

FitsField(f, v) ==
    IF f.str THEN v \in Seq(Int) /\ Len(v) < Power(f.w)
    ELSE v \in Nat /\ v < Power(f.w)

Fits(layout, rec) ==
    \A i \in 1..Len(layout) : FitsField(layout[i], rec[layout[i].name])

\* data has s behind the place off.
Holds(data, off, s) ==
    /\ off + Len(s) <= Len(data)
    /\ \A j \in 1..Len(s) : data[off + j] = s[j]

\* Data that holds two sequences holds each at its place.
LEMMA HoldsParts ==
    ASSUME NEW data \in Seq(Cell), NEW off \in Nat, NEW s \in Seq(Cell),
           NEW t \in Seq(Cell), Holds(data, off, s \o t)
    PROVE  Holds(data, off, s) /\ Holds(data, off + Len(s), t)
  <1>1. Len(s \o t) = Len(s) + Len(t) /\ Len(s) \in Nat /\ Len(t) \in Nat /\ Len(data) \in Nat
    OBVIOUS
  <1>2. \A j \in 1..Len(s) : j \in 1..Len(s \o t) /\ (s \o t)[j] = s[j]
    OBVIOUS
  <1>3. \A j \in 1..Len(t) : /\ Len(s) + j \in 1..Len(s \o t)
                             /\ (s \o t)[Len(s) + j] = t[j]
                             /\ (off + Len(s)) + j = off + (Len(s) + j)
    OBVIOUS
  <1>4. Holds(data, off, s)
    BY <1>1, <1>2 DEF Holds
  <1>5. Holds(data, off + Len(s), t)
    <2>1. (off + Len(s)) + Len(t) <= Len(data)
      BY <1>1 DEF Holds
    <2>2. \A j \in 1..Len(t) : data[(off + Len(s)) + j] = t[j]
      BY <1>3 DEF Holds
    <2> QED BY <2>1, <2>2 DEF Holds
  <1> QED BY <1>4, <1>5

\* What data holds is cut out of it.
LEMMA HoldsIs ==
    ASSUME NEW data \in Seq(Cell), NEW off \in Nat, NEW s \in Seq(Cell),
           Holds(data, off, s)
    PROVE  SubSeq(data, off + 1, off + Len(s)) = s
  <1> DEFINE u == SubSeq(data, off + 1, off + Len(s))
  <1>1. off + Len(s) <= Len(data) /\ Len(s) \in Nat /\ Len(data) \in Nat
    BY DEF Holds
  <1>2. u \in Seq(Cell) /\ Len(u) = Len(s)
    BY <1>1
  <1>3. \A j \in 1..Len(s) : u[j] = s[j]
    <2> TAKE j \in 1..Len(s)
    <2>1. u[j] = data[off + j]
      BY <1>1
    <2> QED BY <2>1 DEF Holds
  <1> HIDE DEF u
  <1>4. u = s
    BY <1>2, <1>3
  <1> QED BY <1>4 DEF u

\* The bytes of a field.
LEMMA FieldIs ==
    ASSUME NEW f \in FieldType, NEW v, FitsField(f, v)
    PROVE  /\ EncodeField(f, v) \in Seq(Int)
           /\ Len(EncodeField(f, v)) = f.w + (IF f.str THEN Len(v) ELSE 0)
  <1>1. f.w \in Nat /\ f.str \in BOOLEAN
    BY DEF FieldType
  <1>2. CASE f.str
    <2>1. v \in Seq(Int) /\ Len(v) \in Nat /\ Len(v) < Power(f.w)
      BY <1>2 DEF FitsField
    <2>2. BigEndian(Len(v), f.w) \in Seq(Int) /\ Len(BigEndian(Len(v), f.w)) = f.w
      BY <1>1, <2>1, NumberIs
    <2>3. EncodeField(f, v) = BigEndian(Len(v), f.w) \o v
      BY <1>2 DEF EncodeField
    <2>4. \A a, b \in Seq(Int) : a \o b \in Seq(Int) /\ Len(a \o b) = Len(a) + Len(b)
      OBVIOUS
    <2>5. EncodeField(f, v) \in Seq(Int) /\ Len(EncodeField(f, v)) = f.w + Len(v)
      BY <2>1, <2>2, <2>3, <2>4
    <2> QED BY <1>2, <2>5
  <1>3. CASE ~f.str
    <2>1. v \in Nat /\ v < Power(f.w)
      BY <1>3 DEF FitsField
    <2>2. BigEndian(v, f.w) \in Seq(Int) /\ Len(BigEndian(v, f.w)) = f.w
      BY <1>1, <2>1, NumberIs
    <2>3. EncodeField(f, v) = BigEndian(v, f.w)
      BY <1>3 DEF EncodeField
    <2> QED BY <1>1, <1>3, <2>2, <2>3
  <1> QED BY <1>2, <1>3

\* A number that data holds is read back.
LEMMA NumberIsRead ==
    ASSUME NEW data \in Seq(Cell), NEW off \in Nat,
           NEW w \in Nat, NEW n \in Nat, n < Power(w), Holds(data, off, BigEndian(n, w))
    PROVE  NumberAt(data, off, w) = n /\ Reaches(data, off + w)
  <1>1. /\ BigEndian(n, w) \in Seq(Cell) /\ Len(BigEndian(n, w)) = w
        /\ NumberOf(BigEndian(n, w)) = n
    BY NumberRoundTrip, NumberIs, TextsAreCells
  <1>2. SubSeq(data, off + 1, off + w) = BigEndian(n, w)
    BY <1>1, HoldsIs
  <1>3. off + w <= Len(data)
    BY <1>1 DEF Holds
  <1> QED BY <1>1, <1>2, <1>3 DEF NumberAt, Reaches

\* A field that data holds is read back, and its end is found.
LEMMA FieldRoundTrip ==
    ASSUME NEW data \in Seq(Cell), NEW off \in Nat,
           NEW f \in FieldType, NEW v, FitsField(f, v),
           Holds(data, off, EncodeField(f, v))
    PROVE  /\ FieldEnd(data, off, f) = off + Len(EncodeField(f, v))
           /\ ValueAt(data, off, f) = v
  <1>1. f.w \in Nat /\ f.str \in BOOLEAN
    BY DEF FieldType
  <1>2. CASE f.str
    <2>1. v \in Seq(Cell) /\ Len(v) \in Nat /\ Len(v) < Power(f.w)
      BY <1>2, TextsAreCells DEF FitsField
    <2>2. BigEndian(Len(v), f.w) \in Seq(Cell) /\ Len(BigEndian(Len(v), f.w)) = f.w
      BY <1>1, <2>1, NumberIs, TextsAreCells
    <2>3. Holds(data, off, BigEndian(Len(v), f.w)) /\ Holds(data, off + f.w, v)
      <3>1. Holds(data, off, BigEndian(Len(v), f.w) \o v)
        BY <1>2 DEF EncodeField
      <3> QED BY <2>1, <2>2, <3>1, HoldsParts
    <2>4. NumberAt(data, off, f.w) = Len(v) /\ Reaches(data, off + f.w)
      BY <1>1, <2>1, <2>3, NumberIsRead
    <2>5. FieldEnd(data, off, f) = off + f.w + Len(v)
      BY <1>2, <2>4 DEF FieldEnd
    <2>6. SubSeq(data, off + f.w + 1, off + f.w + Len(v)) = v
      <3>1. off + f.w \in Nat
        BY <1>1
      <3> QED BY <2>1, <2>3, <3>1, HoldsIs
    <2>7. Len(EncodeField(f, v)) = f.w + Len(v)
      BY <1>2, FieldIs
    <2>8. ValueAt(data, off, f) = v
      BY <1>2, <2>5, <2>6 DEF ValueAt
    <2>9. off + f.w + Len(v) = off + (f.w + Len(v))
      BY <1>1, <2>1
    <2> QED BY <2>5, <2>7, <2>8, <2>9
  <1>3. CASE ~f.str
    <2>1. v \in Nat /\ v < Power(f.w) /\ EncodeField(f, v) = BigEndian(v, f.w)
      BY <1>3 DEF FitsField, EncodeField
    <2>2. NumberAt(data, off, f.w) = v
      BY <1>1, <2>1, NumberIsRead
    <2>3. Len(EncodeField(f, v)) = f.w
      BY <1>1, <1>3, FieldIs
    <2> QED BY <1>3, <2>2, <2>3 DEF FieldEnd, ValueAt
  <1> QED BY <1>2, <1>3

\* The bytes of a layout, field by field.
LEMMA EncodeFieldsIs ==
    ASSUME NEW layout \in Seq(FieldType), NEW rec, Fits(layout, rec)
    PROVE  \E bytes \in [0..Len(layout) -> Seq(Int)] :
              /\ bytes[0] = <<>>
              /\ \A i \in 1..Len(layout) : bytes[i] = bytes[i - 1] \o
                               EncodeField(layout[i], rec[layout[i].name])
              /\ EncodeFields(layout, rec) = bytes[Len(layout)]
  <1> DEFINE n        == Len(layout)
             piece(i) == EncodeField(layout[i], rec[layout[i].name])
             step == [x \in (1..n) \X Seq(Int) |-> x[2] \o piece(x[1])]
             Def(g) == g = [i \in 0..n |-> IF i = 0 THEN <<>> ELSE g[i - 1] \o piece(i)]
  <1>1. n \in Nat /\ <<>> \in Seq(Int)
    OBVIOUS
  <1>2. \A i \in 1..n, x \in Seq(Int) : x \o piece(i) \in Seq(Int)
    <2>1. \A i \in 1..n : piece(i) \in Seq(Int)
      BY FieldIs DEF Fits
    <2> QED BY <2>1
  <1>3. step \in [(1..n) \X Seq(Int) -> Seq(Int)]
    BY <1>2
  <1> HIDE DEF step
  <1>4. PICK f : Loop(n, Seq(Int), <<>>, step, f)
    BY <1>1, <1>3, Recursion
  <1>5. f \in [0..n -> Seq(Int)] /\ f[0] = <<>> /\ \A i \in 1..n : f[i] = f[i - 1] \o piece(i)
    <2>1. f \in [0..n -> Seq(Int)] /\ f[0] = <<>>
      BY <1>4 DEF Loop
    <2>2. ASSUME NEW i \in 1..n PROVE f[i] = f[i - 1] \o piece(i)
      <3>1. f[i] = step[<<i, f[i - 1]>>]
        BY <1>4 DEF Loop
      <3>0. i - 1 \in 0..n
        BY <1>1
      <3>2. f[i - 1] \in Seq(Int) /\ <<i, f[i - 1]>> \in (1..n) \X Seq(Int)
        BY <2>1, <3>0
      <3>3. \A x \in (1..n) \X Seq(Int) : step[x] = x[2] \o piece(x[1])
        BY DEF step
      <3> QED BY <3>1, <3>2, <3>3
    <2> QED BY <2>1, <2>2
  <1>6. Def(f)
    <2>1. \A i \in 0..n : f[i] = IF i = 0 THEN <<>> ELSE f[i - 1] \o piece(i)
      <3> TAKE i \in 0..n
      <3>1. i = 0 \/ i \in 1..n
        BY <1>1
      <3>2. CASE i = 0
        BY <1>5, <3>2
      <3>3. CASE i # 0
        <4>1. f[i] = f[i - 1] \o piece(i)
          BY <1>5, <3>1, <3>3
        <4> QED BY <3>3, <4>1
      <3> QED BY <3>2, <3>3
    <2> QED BY <1>5, <2>1
  <1> DEFINE chosen == CHOOSE g : Def(g)
  <1>7. Def(chosen)
    BY <1>6
  <1> HIDE DEF chosen
  <1>8. \A i \in 0..n : chosen[i] = f[i]
    <2> DEFINE h == [i \in 0..n |-> IF i = 0 THEN <<>> ELSE chosen[i - 1] \o piece(i)]
    <2>1. h[0] = <<>>
      BY <1>1
    <2>2. ASSUME NEW i \in 1..n PROVE h[i] = chosen[i - 1] \o piece(i)
      <3>1. i \in 0..n /\ i # 0
        BY <1>1
      <3> QED BY <3>1
    <2>3. chosen = h
      BY <1>7
    <2> HIDE DEF h, Def
    <2>4. chosen[0] = f[0]
      BY <1>5, <2>1, <2>3
    <2>5. \A i \in 1..n : chosen[i - 1] = f[i - 1] => chosen[i] = f[i]
      BY <1>5, <2>2, <2>3
    <2> QED BY <1>1, <2>4, <2>5, Unique, ZenonT(60)
  <1>9. EncodeFields(layout, rec) = chosen[n]
    BY DEF EncodeFields, chosen
  <1>10. EncodeFields(layout, rec) = f[n]
    BY <1>1, <1>8, <1>9
  <1> QED BY <1>5, <1>10

\* The ends of the fields of a layout: each one follows from the one before, and
\* there is only one function of which that is true.
Ends(layout, data, off, f) ==
    /\ f = [i \in 0..Len(layout) |-> f[i]]
    /\ f[0] = off
    /\ \A i \in 1..Len(layout) : f[i] = FieldEnd(data, f[i - 1], layout[i])

LEMMA FieldEndsAre ==
    ASSUME NEW layout \in Seq(FieldType), NEW data, NEW off, NEW f,
           Ends(layout, data, off, f)
    PROVE  \A i \in 0..Len(layout) : FieldEnds(layout, data, off)[i] = f[i]
  <1> DEFINE n == Len(layout)
             Def(g) == g = [i \in 0..Len(layout) |->
                               IF i = 0 THEN off ELSE FieldEnd(data, g[i - 1], layout[i])]
             chosen == CHOOSE g : Def(g)
  <1>1. n \in Nat
    OBVIOUS
  <1>2. Def(f)
    <2>1. \A i \in 0..n : f[i] = IF i = 0 THEN off ELSE FieldEnd(data, f[i - 1], layout[i])
      <3> TAKE i \in 0..n
      <3>1. i = 0 \/ i \in 1..n
        BY <1>1
      <3>2. CASE i = 0
        BY <3>2 DEF Ends
      <3>3. CASE i # 0
        <4>1. f[i] = FieldEnd(data, f[i - 1], layout[i])
          BY <3>1, <3>3 DEF Ends
        <4> QED BY <3>3, <4>1
      <3> QED BY <3>2, <3>3
    <2>2. f = [i \in 0..n |-> f[i]]
      BY DEF Ends
    <2> QED BY <2>1, <2>2
  <1>3. Def(chosen)
    BY <1>2
  <1>4. FieldEnds(layout, data, off) = chosen
    BY DEF FieldEnds
  <1> HIDE DEF chosen
  <1> DEFINE h == [i \in 0..n |-> IF i = 0 THEN off ELSE FieldEnd(data, chosen[i - 1], layout[i])]
  <1>5. h[0] = off
    BY <1>1
  <1>6. ASSUME NEW i \in 1..n PROVE h[i] = FieldEnd(data, chosen[i - 1], layout[i])
    BY <1>1
  <1>7. chosen = h
    BY <1>3
  <1> HIDE DEF h, Def
  <1>8. chosen[0] = f[0]
    BY <1>5, <1>7 DEF Ends
  <1>9. \A i \in 1..n : chosen[i - 1] = f[i - 1] => chosen[i] = f[i]
    BY <1>6, <1>7 DEF Ends
  <1>10. \A i \in 0..n : chosen[i] = f[i]
    BY <1>1, <1>8, <1>9, Unique
  <1> QED BY <1>4, <1>10

\* bytes[i] is what there is after i pieces.
Pieces(n, bytes, piece) ==
    /\ bytes \in [0..n -> Seq(Cell)]
    /\ piece \in [1..n -> Seq(Cell)]
    /\ \A i \in 1..n : bytes[i] = bytes[i - 1] \o piece[i]

\* Bytes that were put together piece by piece: data that holds all of them
\* holds what there was of them after each piece, and behind it the next one.
LEMMA HoldsPieces ==
    ASSUME NEW data \in Seq(Cell), NEW off \in Nat, NEW n \in Nat,
           NEW bytes, NEW piece, Pieces(n, bytes, piece), Holds(data, off, bytes[n])
    PROVE  /\ \A i \in 0..n : Holds(data, off, bytes[i])
           /\ \A i \in 1..n : Holds(data, off + Len(bytes[i - 1]), piece[i])
  <1>0. /\ bytes \in [0..n -> Seq(Cell)] /\ piece \in [1..n -> Seq(Cell)]
        /\ \A i \in 1..n : bytes[i] = bytes[i - 1] \o piece[i]
    BY DEF Pieces
  <1>1. ASSUME NEW i \in 1..n, Holds(data, off, bytes[i])
        PROVE  /\ Holds(data, off, bytes[i - 1])
               /\ Holds(data, off + Len(bytes[i - 1]), piece[i])
    <2>1. bytes[i - 1] \in Seq(Cell) /\ piece[i] \in Seq(Cell)
      <3>1. i - 1 \in 0..n
        OBVIOUS
      <3> QED BY <1>0, <3>1
    <2>2. Holds(data, off, bytes[i - 1] \o piece[i])
      BY <1>0, <1>1
    <2> QED BY <2>1, <2>2, HoldsParts
  <1> DEFINE P == {k \in Nat : k <= n => Holds(data, off, bytes[n - k])}
  <1>2. 0 \in P
    OBVIOUS
  <1>3. ASSUME NEW k \in Nat, k \in P PROVE k + 1 \in P
    <2>1. SUFFICES ASSUME k + 1 <= n PROVE Holds(data, off, bytes[n - (k + 1)])
      OBVIOUS
    <2>2. n - k \in 1..n /\ n - (k + 1) = (n - k) - 1 /\ Holds(data, off, bytes[n - k])
      BY <1>3, <2>1
    <2> QED BY <1>1, <2>2
  <1> HIDE DEF P
  <1>4. \A k \in Nat : k \in P
    BY <1>2, <1>3, SetInduction
  <1>5. \A i \in 0..n : Holds(data, off, bytes[i])
    <2> TAKE i \in 0..n
    <2>1. n - i \in Nat /\ n - i <= n /\ n - (n - i) = i
      OBVIOUS
    <2>2. Holds(data, off, bytes[n - (n - i)])
      BY <1>4, <2>1 DEF P
    <2> QED BY <2>1, <2>2
  <1>6. \A i \in 1..n : Holds(data, off + Len(bytes[i - 1]), piece[i])
    <2> TAKE i \in 1..n
    <2>1. i \in 0..n
      OBVIOUS
    <2> QED BY <1>1, <1>5, <2>1
  <1> QED BY <1>5, <1>6

\* The fields of a layout are read back from data that holds their bytes.
LEMMA LayoutRoundTrip ==
    ASSUME NEW data \in Seq(Cell), NEW off \in Nat,
           NEW layout \in Seq(FieldType), NEW rec, Fits(layout, rec),
           Holds(data, off, EncodeFields(layout, rec))
    PROVE  /\ EncodeFields(layout, rec) \in Seq(Int)
           /\ FieldEnds(layout, data, off)[Len(layout)] = off + Len(EncodeFields(layout, rec))
           /\ DecodeFields(layout, data, off) =
                [ok |-> TRUE, rec |-> [name \in NamesOf(layout) |-> rec[name]]]
  <1> DEFINE n == Len(layout)
             piece == [i \in 1..n |-> EncodeField(layout[i], rec[layout[i].name])]
  <1>1. PICK bytes \in [0..n -> Seq(Int)] :
           /\ bytes[0] = <<>>
           /\ \A i \in 1..n : bytes[i] = bytes[i - 1] \o EncodeField(layout[i], rec[layout[i].name])
           /\ EncodeFields(layout, rec) = bytes[n]
    BY EncodeFieldsIs
  <1>2. n \in Nat /\ \A i \in 1..n : layout[i] \in FieldType
    OBVIOUS
  <1>3. bytes \in [0..n -> Seq(Cell)] /\ piece \in [1..n -> Seq(Cell)]
    <2>1. piece \in [1..n -> Seq(Int)]
      BY <1>2, FieldIs DEF Fits
    <2> QED BY <1>1, <2>1, TextsAreCells
  <1>4. \A i \in 1..n : piece[i] = EncodeField(layout[i], rec[layout[i].name])
    OBVIOUS
  <1> HIDE DEF piece
  <1>5. \A i \in 1..n : bytes[i] = bytes[i - 1] \o piece[i]
    BY <1>1, <1>4
  <1>6. Holds(data, off, bytes[n])
    BY <1>1
  <1>7. /\ \A i \in 0..n : Holds(data, off, bytes[i])
        /\ \A i \in 1..n : /\ Holds(data, off + Len(bytes[i - 1]), piece[i])
                           /\ Len(bytes[i]) = Len(bytes[i - 1]) + Len(piece[i])
    <2>1. Pieces(n, bytes, piece)
      BY <1>3, <1>5 DEF Pieces
    <2> HIDE DEF n
    <2>2. n \in Nat /\ data \in Seq(Cell) /\ off \in Nat /\ Holds(data, off, bytes[n])
      BY <1>2, <1>6
    <2>3. \A i \in 0..n : Holds(data, off, bytes[i])
      BY <2>1, <2>2, HoldsPieces, Zenon
    <2>4. \A i \in 1..n : Holds(data, off + Len(bytes[i - 1]), piece[i])
      BY <2>1, <2>2, HoldsPieces, Zenon
    <2>5. ASSUME NEW i \in 1..n PROVE Len(bytes[i]) = Len(bytes[i - 1]) + Len(piece[i])
      <3>1. i - 1 \in 0..n
        BY <2>2
      <3>2. bytes[i] = bytes[i - 1] \o piece[i]
        BY <1>5, Zenon
      <3>3. bytes[i - 1] \in Seq(Cell) /\ piece[i] \in Seq(Cell)
        BY <1>3, <3>1
      <3> QED BY <3>2, <3>3
    <2> QED BY <2>3, <2>4, <2>5
  <1> DEFINE f == [i \in 0..n |-> off + Len(bytes[i])]
  <1>8. \A i \in 0..n : f[i] = off + Len(bytes[i]) /\ f[i] \in Nat
    BY <1>3
  <1>9. f[0] = off
    BY <1>1, <1>2
  <1>10. f = [i \in 0..n |-> f[i]]
    OBVIOUS
  <1> HIDE DEF f
  <1>11. ASSUME NEW i \in 1..n
         PROVE  /\ f[i] = FieldEnd(data, f[i - 1], layout[i])
                /\ ValueAt(data, f[i - 1], layout[i]) = rec[layout[i].name]
    <2> DEFINE v == rec[layout[i].name]
    <2>1. i - 1 \in 0..n /\ i \in 0..n
      BY <1>2
    <2>2. Holds(data, f[i - 1], EncodeField(layout[i], v))
      BY <1>4, <1>7, <1>8, <2>1
    <2>3. FitsField(layout[i], v)
      BY DEF Fits
    <2>4. /\ FieldEnd(data, f[i - 1], layout[i]) = f[i - 1] + Len(EncodeField(layout[i], v))
          /\ ValueAt(data, f[i - 1], layout[i]) = v
      BY <1>2, <1>8, <2>1, <2>2, <2>3, FieldRoundTrip, SMTT(60)
    <2>5. f[i] = f[i - 1] + Len(EncodeField(layout[i], v))
      <3>1. bytes[i - 1] \in Seq(Cell) /\ piece[i] \in Seq(Cell)
        BY <1>3, <2>1
      <3>2. Len(bytes[i - 1]) \in Nat /\ Len(piece[i]) \in Nat
        BY <3>1
      <3>3. f[i] = off + Len(bytes[i]) /\ f[i - 1] = off + Len(bytes[i - 1])
        BY <1>8, <2>1
      <3>4. Len(bytes[i]) = Len(bytes[i - 1]) + Len(piece[i]) /\ piece[i] = EncodeField(layout[i], v)
        BY <1>4, <1>7
      <3>5. Len(EncodeField(layout[i], v)) = Len(piece[i])
        BY <3>4
      <3>6. \A a, b \in Nat : off + (a + b) = (off + a) + b
        OBVIOUS
      <3>7. off + (Len(bytes[i - 1]) + Len(piece[i])) = (off + Len(bytes[i - 1])) + Len(piece[i])
        BY <3>2, <3>6, Zenon
      <3> QED BY <3>3, <3>4, <3>5, <3>7, Zenon
    <2> QED BY <2>4, <2>5
  <1> DEFINE end == FieldEnds(layout, data, off)
  <1>12. \A i \in 0..n : end[i] = f[i]
    <2>1. Ends(layout, data, off, f)
      BY <1>9, <1>10, <1>11 DEF Ends
    <2> QED BY <2>1, FieldEndsAre DEF end
  <1> HIDE DEF end
  <1>13. end[n] = off + Len(EncodeFields(layout, rec)) /\ Reaches(data, end[n])
    <2>1. end[n] = off + Len(bytes[n])
      BY <1>2, <1>8, <1>12
    <2> QED BY <1>1, <1>6, <2>1 DEF Reaches, Holds
  <1>14. ASSUME NEW name \in NamesOf(layout)
         PROVE  ValueAt(data, end[PlaceOf(layout, name) - 1], layout[PlaceOf(layout, name)])
                  = rec[name]
    <2> DEFINE i == PlaceOf(layout, name)
    <2>1. i \in 1..n /\ layout[i].name = name
      BY DEF NamesOf, PlaceOf
    <2> HIDE DEF i
    <2>2. end[i - 1] = f[i - 1]
      <3>1. i - 1 \in 0..n
        BY <1>2, <2>1
      <3> QED BY <1>12, <3>1
    <2> QED BY <1>11, <2>1, <2>2 DEF i
  <1>15. DecodeFields(layout, data, off) =
           [ok |-> TRUE,
            rec |-> [name \in NamesOf(layout) |->
                       ValueAt(data, end[PlaceOf(layout, name) - 1], layout[PlaceOf(layout, name)])]]
    BY <1>13 DEF DecodeFields, end
  <1>16. DecodeFields(layout, data, off) =
           [ok |-> TRUE, rec |-> [name \in NamesOf(layout) |-> rec[name]]]
    <2>1. [name \in NamesOf(layout) |->
              ValueAt(data, end[PlaceOf(layout, name) - 1], layout[PlaceOf(layout, name)])]
            = [name \in NamesOf(layout) |-> rec[name]]
      BY <1>14
    <2> QED BY <1>15, <2>1
  <1> QED BY <1>1, <1>2, <1>13, <1>16 DEF end

\* The bytes of a layout without its characters.
LEMMA MinLenIs ==
    ASSUME NEW layout \in Seq(FieldType)
    PROVE  \E sum \in [0..Len(layout) -> Nat] :
              /\ sum[0] = 0
              /\ \A i \in 1..Len(layout) : sum[i] = sum[i - 1] + layout[i].w
              /\ MinLen(layout) = sum[Len(layout)]
  <1> DEFINE step == [x \in (1..Len(layout)) \X Nat |-> x[2] + layout[x[1]].w]
             Def(g) == g = [i \in 0..Len(layout) |-> IF i = 0 THEN 0 ELSE g[i - 1] + layout[i].w]
  <1>1. Len(layout) \in Nat /\ 0 \in Nat
    OBVIOUS
  <1>2. \A i \in 1..Len(layout), x \in Nat : x + layout[i].w \in Nat
    <2>1. \A i \in 1..Len(layout) : layout[i].w \in Nat
      <3> TAKE i \in 1..Len(layout)
      <3>1. layout[i] \in FieldType
        OBVIOUS
      <3> QED BY <3>1 DEF FieldType
    <2> QED BY <2>1
  <1>3. step \in [(1..Len(layout)) \X Nat -> Nat]
    BY <1>2
  <1> HIDE DEF step
  <1>4. PICK f : Loop(Len(layout), Nat, 0, step, f)
    BY <1>1, <1>3, Recursion
  <1>5. /\ f \in [0..Len(layout) -> Nat] /\ f[0] = 0
        /\ \A i \in 1..Len(layout) : f[i] = f[i - 1] + layout[i].w
    <2>1. f \in [0..Len(layout) -> Nat] /\ f[0] = 0
      BY <1>4 DEF Loop
    <2>2. ASSUME NEW i \in 1..Len(layout) PROVE f[i] = f[i - 1] + layout[i].w
      <3>1. f[i] = step[<<i, f[i - 1]>>]
        BY <1>4 DEF Loop
      <3>0. i - 1 \in 0..Len(layout)
        BY <1>1
      <3>2. f[i - 1] \in Nat /\ <<i, f[i - 1]>> \in (1..Len(layout)) \X Nat
        BY <2>1, <3>0
      <3>3. \A x \in (1..Len(layout)) \X Nat : step[x] = x[2] + layout[x[1]].w
        BY DEF step
      <3> QED BY <3>1, <3>2, <3>3
    <2> QED BY <2>1, <2>2
  <1>6. Def(f)
    <2>1. \A i \in 0..Len(layout) : f[i] = IF i = 0 THEN 0 ELSE f[i - 1] + layout[i].w
      <3> TAKE i \in 0..Len(layout)
      <3>1. i = 0 \/ i \in 1..Len(layout)
        BY <1>1
      <3>2. CASE i = 0
        BY <1>5, <3>2
      <3>3. CASE i # 0
        <4>1. f[i] = f[i - 1] + layout[i].w
          BY <1>5, <3>1, <3>3
        <4> QED BY <3>3, <4>1
      <3> QED BY <3>2, <3>3
    <2> QED BY <1>5, <2>1
  <1> DEFINE chosen == CHOOSE g : Def(g)
  <1>7. Def(chosen)
    BY <1>6
  <1> HIDE DEF chosen
  <1>8. \A i \in 0..Len(layout) : chosen[i] = f[i]
    <2> DEFINE h == [i \in 0..Len(layout) |-> IF i = 0 THEN 0 ELSE chosen[i - 1] + layout[i].w]
    <2>1. h[0] = 0
      BY <1>1
    <2>2. ASSUME NEW i \in 1..Len(layout) PROVE h[i] = chosen[i - 1] + layout[i].w
      <3>1. i \in 0..Len(layout) /\ i # 0
        BY <1>1
      <3> QED BY <3>1
    <2>3. chosen = h
      BY <1>7
    <2> HIDE DEF h, Def
    <2>4. chosen[0] = f[0]
      BY <1>5, <2>1, <2>3
    <2>5. \A i \in 1..Len(layout) : chosen[i - 1] = f[i - 1] => chosen[i] = f[i]
      BY <1>5, <2>2, <2>3
    <2> QED BY <1>1, <2>4, <2>5, Unique, ZenonT(60)
  <1>9. MinLen(layout) = chosen[Len(layout)]
    BY DEF MinLen, chosen
  <1>10. MinLen(layout) = f[Len(layout)]
    BY <1>1, <1>8, <1>9
  <1> QED BY <1>5, <1>10

-----------------------------------------------------------------------------
(* The layouts of the code, and readings.                                  *)

\* A layout takes at least its bytes without characters, and just those if it
\* has no strings.
LEMMA LayoutLength ==
    ASSUME NEW layout \in Seq(FieldType), NEW rec, Fits(layout, rec)
    PROVE  /\ EncodeFields(layout, rec) \in Seq(Int)
           /\ Len(EncodeFields(layout, rec)) >= MinLen(layout)
           /\ (\A i \in 1..Len(layout) : ~layout[i].str)
                => Len(EncodeFields(layout, rec)) = MinLen(layout)
  <1> DEFINE n == Len(layout)
             NoStrings == \A i \in 1..Len(layout) : ~layout[i].str
  <1>1. PICK bytes \in [0..n -> Seq(Int)] :
           /\ bytes[0] = <<>>
           /\ \A i \in 1..n : bytes[i] = bytes[i - 1] \o EncodeField(layout[i], rec[layout[i].name])
           /\ EncodeFields(layout, rec) = bytes[n]
    BY EncodeFieldsIs
  <1>2. PICK sum \in [0..n -> Nat] :
           /\ sum[0] = 0
           /\ \A i \in 1..n : sum[i] = sum[i - 1] + layout[i].w
           /\ MinLen(layout) = sum[n]
    BY MinLenIs
  <1>3. n \in Nat
    OBVIOUS
  <1>0. PICK exact \in BOOLEAN : exact = NoStrings
    OBVIOUS
  <1> HIDE DEF NoStrings
  <1> DEFINE P == {k \in Nat : k <= n => (Len(bytes[k]) >= sum[k])
                                      /\ (exact => Len(bytes[k]) = sum[k])}
  <1>4. 0 \in P
    <2>1. Len(bytes[0]) = 0 /\ sum[0] = 0
      BY <1>1, <1>2
    <2> QED BY <2>1
  <1>5. ASSUME NEW k \in Nat, k \in P PROVE k + 1 \in P
    <2>1. SUFFICES ASSUME k + 1 <= n
          PROVE  /\ Len(bytes[k + 1]) >= sum[k + 1]
                 /\ exact => Len(bytes[k + 1]) = sum[k + 1]
      OBVIOUS
    <2> DEFINE f == layout[k + 1]
               v == rec[layout[k + 1].name]
    <2>2. k + 1 \in 1..n /\ (k + 1) - 1 = k /\ k \in 0..n
      BY <2>1
    <2>3. f \in FieldType /\ FitsField(f, v)
      BY <2>2 DEF Fits
    <2>4. /\ EncodeField(f, v) \in Seq(Int)
          /\ Len(EncodeField(f, v)) = f.w + (IF f.str THEN Len(v) ELSE 0)
      BY <2>3, FieldIs
    <2>5. bytes[k + 1] = bytes[k] \o EncodeField(f, v) /\ bytes[k] \in Seq(Int)
      BY <1>1, <2>2
    <2>6. Len(bytes[k + 1]) = Len(bytes[k]) + Len(EncodeField(f, v)) /\ Len(bytes[k]) \in Nat
      <3>1. \A a, b \in Seq(Int) : Len(a \o b) = Len(a) + Len(b) /\ Len(a) \in Nat
        OBVIOUS
      <3> HIDE DEF f, v
      <3> QED BY <2>4, <2>5, <3>1
    <2>7. sum[k + 1] = sum[k] + f.w /\ sum[k] \in Nat /\ f.w \in Nat
      BY <1>2, <2>2, <2>3 DEF FieldType
    <2>8. f.str => Len(v) \in Nat
      BY <2>3 DEF FitsField
    <2>9. Len(bytes[k]) >= sum[k] /\ (exact => Len(bytes[k]) = sum[k])
      BY <1>5, <2>1
    <2>10. exact => ~f.str
      BY <1>0, <2>2 DEF NoStrings
    <2> HIDE DEF f, v
    <2>11. CASE f.str
      BY <2>4, <2>6, <2>7, <2>8, <2>9, <2>10, <2>11, SMTT(60)
    <2>12. CASE ~f.str
      BY <2>4, <2>6, <2>7, <2>9, <2>12
    <2> QED BY <2>11, <2>12
  <1> HIDE DEF P
  <1>6. n \in P
    BY <1>3, <1>4, <1>5, SetInduction
  <1>7. Len(bytes[n]) >= sum[n] /\ (exact => Len(bytes[n]) = sum[n])
    BY <1>3, <1>6 DEF P
  <1> QED BY <1>0, <1>1, <1>2, <1>3, <1>7 DEF NoStrings

\* The layouts of the code, and their bytes without characters.
LEMMA LayoutsAre ==
    /\ HandshakeLayout \in Seq(FieldType) /\ NotifyLayout \in Seq(FieldType)
    /\ ReadingLayout \in Seq(FieldType) /\ HeaderLayout \in Seq(FieldType)
    /\ AckLayout \in Seq(FieldType)
  <1> USE DEF FieldType, FieldName, Num, Str, Raw
  <1>1. HandshakeLayout \in Seq(FieldType)
    BY DEF HandshakeLayout
  <1>2. NotifyLayout \in Seq(FieldType)
    BY DEF NotifyLayout
  <1>3. ReadingLayout \in Seq(FieldType)
    BY DEF ReadingLayout
  <1>4. HeaderLayout \in Seq(FieldType)
    BY DEF HeaderLayout
  <1>5. AckLayout \in Seq(FieldType)
    BY DEF AckLayout
  <1> QED BY <1>1, <1>2, <1>3, <1>4, <1>5

\* minReadingLen is 31.
LEMMA ReadingMinLen == MinLen(ReadingLayout) = 31
  <1>1. PICK sum \in [0..Len(ReadingLayout) -> Nat] :
           /\ sum[0] = 0
           /\ \A i \in 1..Len(ReadingLayout) : sum[i] = sum[i - 1] + ReadingLayout[i].w
           /\ MinLen(ReadingLayout) = sum[Len(ReadingLayout)]
    BY MinLenIs, LayoutsAre
  <1>2. /\ Len(ReadingLayout) = 10
        /\ ReadingLayout[1].w = 8 /\ ReadingLayout[2].w = 2 /\ ReadingLayout[3].w = 2
        /\ ReadingLayout[4].w = 2 /\ ReadingLayout[5].w = 2 /\ ReadingLayout[6].w = 2
        /\ ReadingLayout[7].w = 2 /\ ReadingLayout[8].w = 1 /\ ReadingLayout[9].w = 2
        /\ ReadingLayout[10].w = 8
    BY DEF ReadingLayout, Num, Str
  <1>3. /\ sum[1] = sum[0] + 8 /\ sum[2] = sum[1] + 2 /\ sum[3] = sum[2] + 2
        /\ sum[4] = sum[3] + 2 /\ sum[5] = sum[4] + 2
    BY <1>1, <1>2
  <1>4. /\ sum[6] = sum[5] + 2 /\ sum[7] = sum[6] + 2 /\ sum[8] = sum[7] + 1
        /\ sum[9] = sum[8] + 2 /\ sum[10] = sum[9] + 8
    BY <1>1, <1>2
  <1>5. sum[5] = 16
    BY <1>1, <1>3
  <1>6. sum[10] = 31
    BY <1>4, <1>5
  <1> QED BY <1>1, <1>2, <1>6

\* HeaderSize is 13.
LEMMA HeaderSizeIs == HeaderSize = 13
  <1>1. PICK sum \in [0..Len(HeaderLayout) -> Nat] :
           /\ sum[0] = 0
           /\ \A i \in 1..Len(HeaderLayout) : sum[i] = sum[i - 1] + HeaderLayout[i].w
           /\ MinLen(HeaderLayout) = sum[Len(HeaderLayout)]
    BY MinLenIs, LayoutsAre
  <1>2. /\ Len(HeaderLayout) = 7
        /\ HeaderLayout[1].w = 2 /\ HeaderLayout[2].w = 1 /\ HeaderLayout[3].w = 1
        /\ HeaderLayout[4].w = 1 /\ HeaderLayout[5].w = 2 /\ HeaderLayout[6].w = 2
        /\ HeaderLayout[7].w = 4
    BY DEF HeaderLayout, Num
  <1>3. /\ sum[1] = sum[0] + 2 /\ sum[2] = sum[1] + 1 /\ sum[3] = sum[2] + 1
        /\ sum[4] = sum[3] + 1
    BY <1>1, <1>2
  <1>4. sum[5] = sum[4] + 2 /\ sum[6] = sum[5] + 2 /\ sum[7] = sum[6] + 4
    BY <1>1, <1>2
  <1>5. sum[4] = 5
    BY <1>1, <1>3
  <1>6. sum[7] = 13
    BY <1>4, <1>5
  <1> QED BY <1>1, <1>2, <1>6 DEF HeaderSize

\* Readings that can be uploaded: each has the fields of a reading, with numbers
\* and strings that fit.
IsReading(r) ==
    r = [name \in NamesOf(ReadingLayout) |-> r[name]] /\ Fits(ReadingLayout, r)

Uploadable(rs) ==
    /\ rs = [i \in 1..Len(rs) |-> rs[i]] /\ Len(rs) \in Nat
    /\ \A i \in 1..Len(rs) : IsReading(rs[i])

\* The bytes of a reading.
LEMMA ReadingBytes ==
    ASSUME NEW r, IsReading(r)
    PROVE  EncodeFields(ReadingLayout, r) \in Seq(Int) /\ Len(EncodeFields(ReadingLayout, r)) >= 31
  BY LayoutLength, LayoutsAre, ReadingMinLen DEF IsReading

\* The bytes of an upload, reading by reading.
LEMMA EncodeReadingsIs ==
    ASSUME NEW rs, Uploadable(rs)
    PROVE  \E bytes \in [0..Len(rs) -> Seq(Int)] :
              /\ bytes[0] = BigEndian(Len(rs), 4)
              /\ \A i \in 1..Len(rs) : bytes[i] = bytes[i - 1] \o
                               EncodeFields(ReadingLayout, rs[i])
              /\ EncodeReadings(rs) = bytes[Len(rs)]
  <1> DEFINE n        == Len(rs)
             piece(i) == EncodeFields(ReadingLayout, rs[i])
             step == [x \in (1..n) \X Seq(Int) |-> x[2] \o piece(x[1])]
             Def(g) == g = [i \in 0..n |-> IF i = 0 THEN BigEndian(n, 4) ELSE g[i - 1] \o piece(i)]
  <1>1. n \in Nat /\ BigEndian(n, 4) \in Seq(Int)
    BY NumberIs DEF Uploadable
  <1>2. \A i \in 1..n, x \in Seq(Int) : x \o piece(i) \in Seq(Int)
    <2>1. \A i \in 1..n : piece(i) \in Seq(Int)
      BY ReadingBytes DEF Uploadable
    <2> QED BY <2>1
  <1>3. step \in [(1..n) \X Seq(Int) -> Seq(Int)]
    BY <1>2
  <1> HIDE DEF step
  <1>4. PICK f : Loop(n, Seq(Int), BigEndian(n, 4), step, f)
    BY <1>1, <1>3, Recursion
  <1>5. /\ f \in [0..n -> Seq(Int)] /\ f[0] = BigEndian(n, 4)
        /\ \A i \in 1..n : f[i] = f[i - 1] \o piece(i)
    <2>1. f \in [0..n -> Seq(Int)] /\ f[0] = BigEndian(n, 4)
      BY <1>4 DEF Loop
    <2>2. ASSUME NEW i \in 1..n PROVE f[i] = f[i - 1] \o piece(i)
      <3>1. f[i] = step[<<i, f[i - 1]>>]
        BY <1>4 DEF Loop
      <3>0. i - 1 \in 0..n
        BY <1>1
      <3>2. f[i - 1] \in Seq(Int) /\ <<i, f[i - 1]>> \in (1..n) \X Seq(Int)
        BY <2>1, <3>0
      <3>3. \A x \in (1..n) \X Seq(Int) : step[x] = x[2] \o piece(x[1])
        BY DEF step
      <3> QED BY <3>1, <3>2, <3>3
    <2> QED BY <2>1, <2>2
  <1>6. Def(f)
    <2>1. \A i \in 0..n : f[i] = IF i = 0 THEN BigEndian(n, 4) ELSE f[i - 1] \o piece(i)
      <3> TAKE i \in 0..n
      <3>1. i = 0 \/ i \in 1..n
        BY <1>1
      <3>2. CASE i = 0
        BY <1>5, <3>2
      <3>3. CASE i # 0
        <4>1. f[i] = f[i - 1] \o piece(i)
          BY <1>5, <3>1, <3>3
        <4> QED BY <3>3, <4>1
      <3> QED BY <3>2, <3>3
    <2> QED BY <1>5, <2>1
  <1> DEFINE chosen == CHOOSE g : Def(g)
  <1>7. Def(chosen)
    BY <1>6
  <1> HIDE DEF chosen
  <1>8. \A i \in 0..n : chosen[i] = f[i]
    <2> DEFINE h == [i \in 0..n |-> IF i = 0 THEN BigEndian(n, 4) ELSE chosen[i - 1] \o piece(i)]
    <2>1. h[0] = BigEndian(n, 4)
      BY <1>1
    <2>2. ASSUME NEW i \in 1..n PROVE h[i] = chosen[i - 1] \o piece(i)
      <3>1. i \in 0..n /\ i # 0
        BY <1>1
      <3> QED BY <3>1
    <2>3. chosen = h
      BY <1>7
    <2> HIDE DEF h, Def
    <2>4. chosen[0] = f[0]
      BY <1>5, <2>1, <2>3
    <2>5. \A i \in 1..n : chosen[i - 1] = f[i - 1] => chosen[i] = f[i]
      BY <1>5, <2>2, <2>3
    <2> QED BY <1>1, <2>4, <2>5, Unique
  <1>9. EncodeReadings(rs) = chosen[n]
    BY DEF EncodeReadings, chosen
  <1>10. EncodeReadings(rs) = f[n]
    BY <1>1, <1>8, <1>9
  <1> QED BY <1>5, <1>10

\* An upload takes at least its count and its readings without characters.
LEMMA UploadLength ==
    ASSUME NEW rs, Uploadable(rs)
    PROVE  /\ EncodeReadings(rs) \in Seq(Int)
           /\ Len(EncodeReadings(rs)) >= 4 + 31 * Len(rs)
  <1> DEFINE n == Len(rs)
  <1>1. PICK bytes \in [0..n -> Seq(Int)] :
           /\ bytes[0] = BigEndian(n, 4)
           /\ \A i \in 1..n : bytes[i] = bytes[i - 1] \o EncodeFields(ReadingLayout, rs[i])
           /\ EncodeReadings(rs) = bytes[n]
    BY EncodeReadingsIs
  <1>2. n \in Nat /\ \A i \in 1..n : IsReading(rs[i])
    BY DEF Uploadable
  <1> HIDE DEF n
  <1> DEFINE long(k) == Len(bytes[k]) >= 4 + 31 * k
             P       == {k \in Nat : k <= n => long(k)}
  <1>3. 0 \in P
    <2>1. Len(bytes[0]) = 4
      BY <1>1, <1>2, NumberIs
    <2>2. long(0)
      BY <2>1
    <2> HIDE DEF long
    <2> QED BY <2>2
  <1>4. ASSUME NEW k \in Nat, k \in P PROVE k + 1 \in P
    <2>1. SUFFICES ASSUME k + 1 <= n PROVE Len(bytes[k + 1]) >= 4 + 31 * (k + 1)
      OBVIOUS
    <2> DEFINE piece == EncodeFields(ReadingLayout, rs[k + 1])
    <2>2. k + 1 \in 1..n /\ (k + 1) - 1 = k /\ k \in 0..n
      BY <1>2, <2>1
    <2>3. piece \in Seq(Int) /\ Len(piece) >= 31
      BY <1>2, <2>2, ReadingBytes
    <2>4. bytes[k + 1] = bytes[k] \o piece /\ bytes[k] \in Seq(Int)
      BY <1>1, <2>2
    <2> HIDE DEF piece
    <2>5. Len(bytes[k + 1]) = Len(bytes[k]) + Len(piece) /\ Len(bytes[k]) \in Nat
      <3>1. \A a, b \in Seq(Int) : Len(a \o b) = Len(a) + Len(b) /\ Len(a) \in Nat
        OBVIOUS
      <3> QED BY <2>3, <2>4, <3>1
    <2>6. k <= n
      BY <1>2, <2>1
    <2>7. long(k)
      <3> HIDE DEF long
      <3> QED BY <1>4, <2>6
    <2> QED BY <2>3, <2>5, <2>7
  <1> HIDE DEF P
  <1>5. n \in P
    BY <1>2, <1>3, <1>4, SetInduction
  <1>6. Len(bytes[n]) >= 4 + 31 * n
    BY <1>2, <1>5 DEF P
  <1>7. bytes[n] \in Seq(Int)
    BY <1>1, <1>2
  <1> QED BY <1>1, <1>6, <1>7 DEF n

\* The ends of the readings of an upload, likewise.
EndsOfReadings(data, count, f) ==
    /\ f = [i \in 0..count |-> f[i]]
    /\ f[0] = 4
    /\ \A i \in 1..count :
          f[i] = FieldEnds(ReadingLayout, data, f[i - 1])[Len(ReadingLayout)]

LEMMA ReadingEndsAre ==
    ASSUME NEW data, NEW count \in Nat, NEW f, EndsOfReadings(data, count, f)
    PROVE  \A i \in 0..count : ReadingEnds(data, count)[i] = f[i]
  <1> DEFINE next(g, i) == FieldEnds(ReadingLayout, data, g[i - 1])[Len(ReadingLayout)]
             Def(g) == g = [i \in 0..count |->
                               IF i = 0 THEN 4
                               ELSE FieldEnds(ReadingLayout, data, g[i - 1])[Len(ReadingLayout)]]
             chosen == CHOOSE g : Def(g)
  <1>1. Def(f)
    <2>1. \A i \in 0..count : f[i] = IF i = 0 THEN 4 ELSE next(f, i)
      <3> TAKE i \in 0..count
      <3>1. i = 0 \/ i \in 1..count
        OBVIOUS
      <3>2. CASE i = 0
        BY <3>2 DEF EndsOfReadings
      <3>3. CASE i # 0
        <4>1. f[i] = next(f, i)
          BY <3>1, <3>3 DEF EndsOfReadings
        <4> HIDE DEF next
        <4> QED BY <3>3, <4>1
      <3> QED BY <3>2, <3>3
    <2>2. f = [i \in 0..count |-> f[i]]
      BY DEF EndsOfReadings
    <2> QED BY <2>1, <2>2
  <1>2. Def(chosen)
    BY <1>1
  <1>3. ReadingEnds(data, count) = chosen
    BY DEF ReadingEnds
  <1> HIDE DEF chosen
  <1> DEFINE h == [i \in 0..count |-> IF i = 0 THEN 4 ELSE next(chosen, i)]
  <1>4. h[0] = 4
    OBVIOUS
  <1>5. ASSUME NEW i \in 1..count PROVE h[i] = next(chosen, i)
    <2>1. i \in 0..count /\ i # 0
      OBVIOUS
    <2> HIDE DEF next
    <2> QED BY <2>1
  <1>6. chosen = h
    BY <1>2
  <1> HIDE DEF h, Def
  <1>7. chosen[0] = f[0]
    BY <1>4, <1>6 DEF EndsOfReadings
  <1>8. \A i \in 1..count : chosen[i - 1] = f[i - 1] => chosen[i] = f[i]
    BY <1>5, <1>6 DEF EndsOfReadings
  <1>9. \A i \in 0..count : chosen[i] = f[i]
    BY <1>7, <1>8, Unique
  <1> QED BY <1>3, <1>9

\* The readings of an upload are read back from data that holds their bytes, and
\* the guard before the allocation lets them pass.
LEMMA ReadingsRoundTrip ==
    ASSUME NEW rs, Uploadable(rs), Len(rs) < Power(4),
           NEW data \in Seq(Cell), Holds(data, 0, EncodeReadings(rs))
    PROVE  DecodeReadings(data) = [ok |-> TRUE, rs |-> rs]
  <1> DEFINE n == Len(rs)
             piece == [i \in 1..n |-> EncodeFields(ReadingLayout, rs[i])]
  <1>1. PICK bytes \in [0..n -> Seq(Int)] :
           /\ bytes[0] = BigEndian(n, 4)
           /\ \A i \in 1..n : bytes[i] = bytes[i - 1] \o EncodeFields(ReadingLayout, rs[i])
           /\ EncodeReadings(rs) = bytes[n]
    BY EncodeReadingsIs
  <1>2. n \in Nat /\ n < Power(4) /\ \A i \in 1..n : IsReading(rs[i])
    BY DEF Uploadable
  <1>3. bytes \in [0..n -> Seq(Cell)] /\ piece \in [1..n -> Seq(Cell)]
    <2>1. piece \in [1..n -> Seq(Int)]
      BY <1>2, ReadingBytes
    <2> QED BY <1>1, <2>1, TextsAreCells
  <1>4. \A i \in 1..n : piece[i] = EncodeFields(ReadingLayout, rs[i]) /\ Len(piece[i]) >= 31
    BY <1>2, ReadingBytes
  <1> HIDE DEF piece
  <1>5. \A i \in 1..n : bytes[i] = bytes[i - 1] \o piece[i]
    BY <1>1, <1>4
  <1>6. Holds(data, 0, bytes[n])
    BY <1>1
  <1>7. /\ \A i \in 0..n : Holds(data, 0, bytes[i])
        /\ \A i \in 1..n : Holds(data, Len(bytes[i - 1]), piece[i])
        /\ \A i \in 1..n : Len(bytes[i]) = Len(bytes[i - 1]) + Len(piece[i])
    <2>1. Pieces(n, bytes, piece)
      BY <1>3, <1>5 DEF Pieces
    <2> HIDE DEF n
    <2>2. n \in Nat /\ data \in Seq(Cell) /\ 0 \in Nat /\ Holds(data, 0, bytes[n])
      BY <1>2, <1>6
    <2>3. \A i \in 0..n : Holds(data, 0, bytes[i])
      BY <2>1, <2>2, HoldsPieces, Zenon
    <2>4. \A i \in 1..n : Holds(data, 0 + Len(bytes[i - 1]), piece[i])
      BY <2>1, <2>2, HoldsPieces, Zenon
    <2>5. ASSUME NEW i \in 1..n
          PROVE  /\ 0 + Len(bytes[i - 1]) = Len(bytes[i - 1])
                 /\ Len(bytes[i]) = Len(bytes[i - 1]) + Len(piece[i])
      <3>1. i - 1 \in 0..n
        BY <2>2
      <3>2. bytes[i] = bytes[i - 1] \o piece[i]
        BY <1>5, Zenon
      <3>3. bytes[i - 1] \in Seq(Cell) /\ piece[i] \in Seq(Cell)
        BY <1>3, <3>1
      <3> QED BY <3>2, <3>3
    <2>6. \A i \in 1..n : Holds(data, Len(bytes[i - 1]), piece[i])
      BY <2>4, <2>5
    <2> QED BY <2>3, <2>5, <2>6
  <1> DEFINE f == [i \in 0..n |-> Len(bytes[i])]
  <1>8. \A i \in 0..n : f[i] = Len(bytes[i]) /\ f[i] \in Nat
    BY <1>3
  <1>9. BigEndian(n, 4) \in Seq(Int) /\ Len(BigEndian(n, 4)) = 4
    BY <1>2, NumberIs
  <1>10. f[0] = 4
    BY <1>1, <1>2, <1>9
  <1>11. f = [i \in 0..n |-> f[i]]
    OBVIOUS
  <1> HIDE DEF f
  <1>12. ASSUME NEW i \in 1..n
         PROVE  /\ f[i] = FieldEnds(ReadingLayout, data, f[i - 1])[Len(ReadingLayout)]
                /\ DecodeFields(ReadingLayout, data, f[i - 1]) = [ok |-> TRUE, rec |-> rs[i]]
    <2>1. i - 1 \in 0..n /\ i \in 0..n
      BY <1>2
    <2>2. Holds(data, f[i - 1], EncodeFields(ReadingLayout, rs[i])) /\ f[i - 1] \in Nat
      BY <1>4, <1>7, <1>8, <2>1
    <2>3. Fits(ReadingLayout, rs[i]) /\ rs[i] = [name \in NamesOf(ReadingLayout) |-> rs[i][name]]
      BY <1>2 DEF IsReading
    <2>4. /\ FieldEnds(ReadingLayout, data, f[i - 1])[Len(ReadingLayout)]
               = f[i - 1] + Len(EncodeFields(ReadingLayout, rs[i]))
          /\ DecodeFields(ReadingLayout, data, f[i - 1]) =
               [ok |-> TRUE, rec |-> [name \in NamesOf(ReadingLayout) |-> rs[i][name]]]
      <3> DEFINE r == rs[i]
                 off == f[i - 1]
      <3>1. /\ off \in Nat /\ ReadingLayout \in Seq(FieldType)
            /\ Fits(ReadingLayout, r) /\ Holds(data, off, EncodeFields(ReadingLayout, r))
        BY <2>2, <2>3, LayoutsAre
      <3> HIDE DEF r, off
      <3>2. /\ FieldEnds(ReadingLayout, data, off)[Len(ReadingLayout)]
                 = off + Len(EncodeFields(ReadingLayout, r))
            /\ DecodeFields(ReadingLayout, data, off) =
                 [ok |-> TRUE, rec |-> [name \in NamesOf(ReadingLayout) |-> r[name]]]
        BY <3>1, LayoutRoundTrip
      <3> QED BY <3>2 DEF r, off
    <2>5. f[i] = f[i - 1] + Len(EncodeFields(ReadingLayout, rs[i]))
      BY <1>4, <1>7, <1>8, <2>1
    <2> QED BY <2>3, <2>4, <2>5
  <1> DEFINE end == ReadingEnds(data, n)
  <1>13. \A i \in 0..n : end[i] = f[i]
    <2>1. EndsOfReadings(data, n, f)
      BY <1>10, <1>11, <1>12 DEF EndsOfReadings
    <2> QED BY <1>2, <2>1, ReadingEndsAre
  <1> HIDE DEF end
  <1>14. NumberAt(data, 0, 4) = n /\ Reaches(data, 4)
    <2>1. Holds(data, 0, BigEndian(n, 4))
      BY <1>1, <1>2, <1>7
    <2>2. NumberAt(data, 0, 4) = n /\ Reaches(data, 0 + 4)
      BY <1>2, <2>1, NumberIsRead
    <2> QED BY <2>2
  <1>15. Reaches(data, end[n])
    BY <1>2, <1>6, <1>8, <1>13 DEF Reaches, Holds
  <1>16. CountFits(n, data)
    <2>1. Len(data) >= 4 + 31 * n /\ Len(data) \in Nat
      <3>1. EncodeReadings(rs) \in Seq(Int) /\ Len(EncodeReadings(rs)) >= 4 + 31 * n
        BY UploadLength
      <3>2. Len(EncodeReadings(rs)) <= Len(data)
        BY <3>1 DEF Holds
      <3> QED BY <1>2, <3>1, <3>2
    <2>2. n <= Len(data) \div 31 + 1
      BY <1>2, <2>1
    <2> QED BY <2>2, ReadingMinLen DEF CountFits
  <1>17. DecodeReadings(data) =
           [ok |-> TRUE,
            rs |-> [i \in 1..n |-> DecodeFields(ReadingLayout, data, end[i - 1]).rec]]
    BY <1>14, <1>15, <1>16 DEF DecodeReadings, end
  <1>18. ASSUME NEW i \in 1..n PROVE DecodeFields(ReadingLayout, data, end[i - 1]).rec = rs[i]
    <2>1. i - 1 \in 0..n
      BY <1>2
    <2>2. end[i - 1] = f[i - 1]
      BY <1>13, <2>1
    <2>3. DecodeFields(ReadingLayout, data, end[i - 1]) = [ok |-> TRUE, rec |-> rs[i]]
      BY <1>12, <2>2
    <2> QED BY <2>3
  <1>19. [i \in 1..n |-> DecodeFields(ReadingLayout, data, end[i - 1]).rec] = rs
    <2>1. rs = [i \in 1..n |-> rs[i]]
      BY DEF Uploadable
    <2> QED BY <1>18, <2>1
  <1> QED BY <1>17, <1>19

-----------------------------------------------------------------------------
(* Frames and messages.                                                    *)

\* The checksum is two places.
LEMMA ChecksumIs ==
    ASSUME NEW s \in Seq(Int)
    PROVE  Checksum(s) \in Seq(Cell) /\ Len(Checksum(s)) = 2
  <1>1. Mixed(s) \in Cell /\ Len(s) \in Cell
    BY DEF Cell
  <1> QED BY <1>1 DEF Checksum

\* A message as NewMsg makes it; one with a payload that its length field can say.
Shaped(m) == Fits(HeaderLayout, m) /\ m.Payload \in Seq(Int)

Framed(m) == Shaped(m) /\ m.Magic = MagicNumber /\ m.PayloadLen = Len(m.Payload)

\* The parts of its frame.
LEMMA FrameParts ==
    ASSUME NEW m, Shaped(m)
    PROVE  LET header  == EncodeFields(HeaderLayout, m)
               covered == header \o m.Payload
           IN  /\ header \in Seq(Int) /\ Len(header) = HeaderSize /\ HeaderSize \in Nat
               /\ covered \in Seq(Int) /\ Len(covered) = HeaderSize + Len(m.Payload)
               /\ Checksum(covered) \in Seq(Cell) /\ Len(Checksum(covered)) = 2
               /\ EncodeFrame(m) = covered \o Checksum(covered)
               /\ EncodeFrame(m) \in Seq(Cell)
               /\ Len(EncodeFrame(m)) = HeaderSize + Len(m.Payload) + 2
  <1> DEFINE header  == EncodeFields(HeaderLayout, m)
             covered == header \o m.Payload
  <1>1. \A i \in 1..Len(HeaderLayout) : ~HeaderLayout[i].str
    BY DEF HeaderLayout, Num
  <1>2. header \in Seq(Int) /\ Len(header) = MinLen(HeaderLayout)
    BY <1>1, LayoutLength, LayoutsAre DEF Shaped
  <1>3. Len(header) = HeaderSize /\ HeaderSize \in Nat
    BY <1>2 DEF HeaderSize
  <1>4. m.Payload \in Seq(Int)
    BY DEF Shaped
  <1>5. EncodeFrame(m) = covered \o Checksum(covered)
    BY DEF EncodeFrame
  <1> HIDE DEF header
  <1>6. covered \in Seq(Int) /\ Len(covered) = HeaderSize + Len(m.Payload)
    <2>1. \A a, b \in Seq(Int) : a \o b \in Seq(Int) /\ Len(a \o b) = Len(a) + Len(b)
      OBVIOUS
    <2> QED BY <1>2, <1>3, <1>4, <2>1
  <1> HIDE DEF covered
  <1>7. Checksum(covered) \in Seq(Cell) /\ Len(Checksum(covered)) = 2
    BY <1>6, ChecksumIs
  <1>8. covered \in Seq(Cell)
    BY <1>6, TextsAreCells
  <1>9. \A a, b \in Seq(Cell) : a \o b \in Seq(Cell) /\ Len(a \o b) = Len(a) + Len(b)
    OBVIOUS
  <1>10. EncodeFrame(m) \in Seq(Cell) /\ Len(EncodeFrame(m)) = HeaderSize + Len(m.Payload) + 2
    BY <1>5, <1>6, <1>7, <1>8, <1>9
  <1> QED BY <1>2, <1>3, <1>5, <1>6, <1>7, <1>10 DEF header, covered

\* The header is read back from data that holds it.
LEMMA HeaderIsRead ==
    ASSUME NEW m, Framed(m), NEW data \in Seq(Cell),
           Holds(data, 0, EncodeFields(HeaderLayout, m))
    PROVE  LET h == DecodeFields(HeaderLayout, data, 0).rec
           IN  /\ h = [name \in NamesOf(HeaderLayout) |-> m[name]]
               /\ h.Magic = MagicNumber /\ h.PayloadLen = Len(m.Payload)
  <1>1. DecodeFields(HeaderLayout, data, 0) =
          [ok |-> TRUE, rec |-> [name \in NamesOf(HeaderLayout) |-> m[name]]]
    BY LayoutRoundTrip, LayoutsAre DEF Framed, Shaped
  <1>2. "Magic" \in NamesOf(HeaderLayout) /\ "PayloadLen" \in NamesOf(HeaderLayout)
    <2>1. /\ 1 \in DOMAIN HeaderLayout /\ HeaderLayout[1].name = "Magic"
          /\ 6 \in DOMAIN HeaderLayout /\ HeaderLayout[6].name = "PayloadLen"
      BY DEF HeaderLayout, Num
    <2> QED BY <2>1 DEF NamesOf
  <1> DEFINE h == DecodeFields(HeaderLayout, data, 0).rec
  <1>3. h = [name \in NamesOf(HeaderLayout) |-> m[name]]
    BY <1>1
  <1> HIDE DEF h
  <1>4. h.Magic = m.Magic /\ h.PayloadLen = m.PayloadLen
    BY <1>2, <1>3
  <1> QED BY <1>3, <1>4 DEF h, Framed

\* A whole frame at the beginning of the data is decoded, whatever follows it.
LEMMA FrameRoundTrip ==
    ASSUME NEW m, Framed(m), NEW data \in Seq(Cell), Holds(data, 0, EncodeFrame(m))
    PROVE  DecodeFrame(data) =
             [res |-> "ok", size |-> Len(EncodeFrame(m)),
              m |-> [k \in NamesOf(HeaderLayout) \cup {"Payload"} |-> m[k]]]
  <1> DEFINE header  == EncodeFields(HeaderLayout, m)
             payload == m.Payload
             covered == header \o payload
             full    == HeaderSize + Len(payload)
  <1>1. /\ header \in Seq(Int) /\ Len(header) = HeaderSize /\ HeaderSize \in Nat
        /\ covered \in Seq(Int) /\ Len(covered) = full
        /\ Checksum(covered) \in Seq(Cell) /\ Len(Checksum(covered)) = 2
        /\ EncodeFrame(m) = covered \o Checksum(covered)
        /\ Len(EncodeFrame(m)) = full + 2
    BY FrameParts DEF Framed
  <1>2. payload \in Seq(Int) /\ payload \in Seq(Cell) /\ Len(payload) \in Nat
    BY TextsAreCells DEF Framed, Shaped
  <1>3. covered \in Seq(Cell) /\ header \in Seq(Cell)
    BY <1>1, TextsAreCells
  <1>4. Holds(data, 0, covered) /\ Holds(data, full, Checksum(covered))
    <2>1. Holds(data, 0, covered \o Checksum(covered))
      BY <1>1
    <2> HIDE DEF covered, full
    <2>2. Holds(data, 0, covered) /\ Holds(data, 0 + full, Checksum(covered))
      BY <1>1, <1>3, <2>1, HoldsParts
    <2>3. full \in Nat
      BY <1>1, <1>2 DEF full
    <2> QED BY <2>2, <2>3
  <1>5. Holds(data, 0, header) /\ Holds(data, HeaderSize, payload)
    <2>1. Holds(data, 0, header \o payload)
      BY <1>4
    <2> HIDE DEF header, payload
    <2>2. Holds(data, 0, header) /\ Holds(data, 0 + HeaderSize, payload)
      BY <1>1, <1>2, <1>3, <2>1, HoldsParts
    <2> QED BY <1>1, <2>2
  <1> DEFINE h == DecodeFields(HeaderLayout, data, 0).rec
  <1>6. /\ h = [name \in NamesOf(HeaderLayout) |-> m[name]]
        /\ h.Magic = MagicNumber /\ h.PayloadLen = Len(payload)
    BY <1>5, HeaderIsRead
  <1>7. /\ SubSeq(data, 1, full) = covered
        /\ SubSeq(data, full + 1, full + 2) = Checksum(covered)
        /\ SubSeq(data, HeaderSize + 1, full) = payload
    <2> HIDE DEF covered, payload, header
    <2>1. SubSeq(data, 0 + 1, 0 + full) = covered
      BY <1>1, <1>3, <1>4, HoldsIs
    <2>2. full \in Nat
      BY <1>1, <1>2
    <2>3. SubSeq(data, full + 1, full + 2) = Checksum(covered)
      BY <1>1, <1>4, <2>2, HoldsIs
    <2>4. SubSeq(data, HeaderSize + 1, full) = payload
      BY <1>1, <1>2, <1>5, HoldsIs
    <2>5. 0 + 1 = 1 /\ 0 + full = full
      BY <2>2
    <2> QED BY <2>1, <2>3, <2>4, <2>5
  <1>8. full + 2 <= Len(data) /\ HeaderSize <= Len(data)
    <2>1. full + 2 <= Len(data) /\ Len(data) \in Nat
      BY <1>1, <1>4 DEF Holds
    <2> QED BY <1>1, <1>2, <2>1
  <1>9. "Payload" \notin NamesOf(HeaderLayout)
    BY DEF NamesOf, HeaderLayout, Num
  <1>10. [k \in NamesOf(HeaderLayout) \cup {"Payload"} |-> IF k = "Payload" THEN payload ELSE h[k]]
           = [k \in NamesOf(HeaderLayout) \cup {"Payload"} |-> m[k]]
    BY <1>6, <1>9
  <1> HIDE DEF h, payload, covered, header
  <1>11. Len(data) \in Nat /\ full \in Nat
    BY <1>1, <1>2
  <1>12. DecodeFrame(data) =
           IF Len(data) < HeaderSize THEN [res |-> "short"]
           ELSE IF h.Magic # MagicNumber THEN [res |-> "badMagic"]
           ELSE IF Len(data) < HeaderSize + h.PayloadLen + 2 THEN [res |-> "short"]
           ELSE IF SubSeq(data, HeaderSize + h.PayloadLen + 1, HeaderSize + h.PayloadLen + 2)
                     # Checksum(SubSeq(data, 1, HeaderSize + h.PayloadLen))
                THEN [res |-> "badChecksum"]
           ELSE [res |-> "ok", size |-> HeaderSize + h.PayloadLen + 2,
                 m |-> [k \in NamesOf(HeaderLayout) \cup {"Payload"} |->
                          IF k = "Payload"
                          THEN SubSeq(data, HeaderSize + 1, HeaderSize + h.PayloadLen)
                          ELSE h[k]]]
    BY DEF DecodeFrame, h
  <1>13. DecodeFrame(data) =
           [res |-> "ok", size |-> full + 2,
            m |-> [k \in NamesOf(HeaderLayout) \cup {"Payload"} |->
                     IF k = "Payload" THEN payload ELSE h[k]]]
    <2>1. HeaderSize + h.PayloadLen = full
      BY <1>6
    <2>2. ~(Len(data) < HeaderSize) /\ h.Magic = MagicNumber /\ ~(Len(data) < full + 2)
      BY <1>1, <1>6, <1>8, <1>11
    <2>3. SubSeq(data, full + 1, full + 2) = Checksum(SubSeq(data, 1, full))
      BY <1>7
    <2> HIDE DEF full
    <2> QED BY <1>7, <1>12, <2>1, <2>2, <2>3
  <1> QED BY <1>1, <1>10, <1>13

\* Less than a whole frame is waited for, not decoded.
LEMMA PartialFrame ==
    ASSUME NEW m, Framed(m), NEW data \in Seq(Cell), Len(data) < Len(EncodeFrame(m)),
           \A j \in 1..Len(data) : data[j] = EncodeFrame(m)[j]
    PROVE  DecodeFrame(data) = [res |-> "short"]
  <1> DEFINE header  == EncodeFields(HeaderLayout, m)
             payload == m.Payload
             covered == header \o payload
  <1>1. /\ header \in Seq(Int) /\ Len(header) = HeaderSize /\ HeaderSize \in Nat
        /\ covered \in Seq(Int) /\ Len(covered) = HeaderSize + Len(payload)
        /\ Checksum(covered) \in Seq(Cell) /\ Len(Checksum(covered)) = 2
        /\ EncodeFrame(m) = covered \o Checksum(covered)
        /\ Len(EncodeFrame(m)) = HeaderSize + Len(payload) + 2
    BY FrameParts DEF Framed
  <1>2. payload \in Seq(Int) /\ payload \in Seq(Cell) /\ Len(payload) \in Nat
    BY TextsAreCells DEF Framed, Shaped
  <1>3. Len(data) \in Nat
    OBVIOUS
  <1>4. CASE Len(data) < HeaderSize
    BY <1>4 DEF DecodeFrame
  <1>5. CASE ~(Len(data) < HeaderSize)
    <2>1. Holds(data, 0, header)
      <3>1. 0 + Len(header) <= Len(data)
        BY <1>1, <1>3, <1>5
      <3>2. ASSUME NEW j \in 1..Len(header) PROVE data[0 + j] = header[j]
        <4>1. 0 + j = j /\ j \in 1..Len(data) /\ j \in 1..Len(header)
          BY <1>1, <1>3, <1>5
        <4> HIDE DEF payload
        <4>2. covered[j] = header[j] /\ j \in 1..Len(covered)
          BY <1>1, <1>2
        <4> HIDE DEF covered, header
        <4>3. EncodeFrame(m)[j] = covered[j]
          BY <1>1, <4>2, TextsAreCells
        <4> QED BY <4>1, <4>2, <4>3
      <3> QED BY <3>1, <3>2 DEF Holds
    <2> DEFINE h == DecodeFields(HeaderLayout, data, 0).rec
    <2>2. h.Magic = MagicNumber /\ h.PayloadLen = Len(payload)
      BY <2>1, HeaderIsRead
    <2> HIDE DEF h
    <2>3. Len(data) < HeaderSize + h.PayloadLen + 2
      BY <1>1, <2>2
    <2>4. DecodeFrame(data) =
            IF Len(data) < HeaderSize THEN [res |-> "short"]
            ELSE IF h.Magic # MagicNumber THEN [res |-> "badMagic"]
            ELSE IF Len(data) < HeaderSize + h.PayloadLen + 2 THEN [res |-> "short"]
            ELSE IF SubSeq(data, HeaderSize + h.PayloadLen + 1, HeaderSize + h.PayloadLen + 2)
                      # Checksum(SubSeq(data, 1, HeaderSize + h.PayloadLen))
                 THEN [res |-> "badChecksum"]
            ELSE [res |-> "ok", size |-> HeaderSize + h.PayloadLen + 2,
                  m |-> [k \in NamesOf(HeaderLayout) \cup {"Payload"} |->
                           IF k = "Payload"
                           THEN SubSeq(data, HeaderSize + 1, HeaderSize + h.PayloadLen)
                           ELSE h[k]]]
      BY DEF DecodeFrame, h
    <2> QED BY <1>5, <2>2, <2>3, <2>4
  <1> QED BY <1>4, <1>5

\* The powers of the base that the code's fields need.
LEMMA Powers ==
    /\ Power(1) = Base /\ Power(2) = Base * Base
    /\ Power(4) \in Nat /\ Power(4) >= Base * Base
    /\ Base * Base >= 64 /\ Base * Base \in Nat
  <1>0. Base \in Nat /\ Base > 7
    BY BaseAssumption
  <1>1. ASSUME NEW a \in Nat PROVE Base * a \in Nat /\ Base * a >= a
    BY <1>0
  <1>2. Power(1) = Base
    <2>1. PICK power \in [0..1 -> Nat] :
             power[0] = 1 /\ (\A i \in 1..1 : power[i] = Base * power[i - 1]) /\ Power(1) = power[1]
      BY PowerIs
    <2>2. power[1] = Base * power[1 - 1]
      BY <2>1
    <2>3. 1 - 1 = 0
      OBVIOUS
    <2>4. Base * 1 = Base
      BY <1>0
    <2> QED BY <2>1, <2>2, <2>3, <2>4
  <1>3. PICK power \in [0..4 -> Nat] :
           power[0] = 1 /\ (\A i \in 1..4 : power[i] = Base * power[i - 1]) /\ Power(4) = power[4]
    BY PowerIs
  <1>4. /\ power[1] = Base * power[0] /\ power[2] = Base * power[1]
        /\ power[3] = Base * power[2] /\ power[4] = Base * power[3]
    <2>1. 1 - 1 = 0 /\ 2 - 1 = 1 /\ 3 - 1 = 2 /\ 4 - 1 = 3
      OBVIOUS
    <2>2. 1 \in 1..4 /\ 2 \in 1..4 /\ 3 \in 1..4 /\ 4 \in 1..4
      OBVIOUS
    <2> QED BY <1>3, <2>1, <2>2
  <1>5. power[1] = Base /\ power[2] = Base * Base
    <2>1. Base * 1 = Base
      BY <1>0
    <2> QED BY <1>3, <1>4, <2>1
  <1>6. power[2] \in Nat /\ power[3] \in Nat /\ power[4] \in Nat
    BY <1>3
  <1>7. power[3] >= power[2] /\ power[4] >= power[3]
    BY <1>1, <1>4, <1>6
  <1>8. Power(2) = Base * Base
    <2>1. PICK pow \in [0..2 -> Nat] :
             pow[0] = 1 /\ (\A i \in 1..2 : pow[i] = Base * pow[i - 1]) /\ Power(2) = pow[2]
      BY PowerIs
    <2>2. pow[1] = Base * pow[0] /\ pow[2] = Base * pow[1]
      <3>1. 1 - 1 = 0 /\ 2 - 1 = 1 /\ 1 \in 1..2 /\ 2 \in 1..2
        OBVIOUS
      <3> QED BY <2>1, <3>1
    <2>3. Base * 1 = Base
      BY <1>0
    <2> QED BY <2>1, <2>2, <2>3
  <1>9. Base * Base >= 8 * Base
    BY <1>0
  <1>10. Base * Base >= 64 /\ Base * Base \in Nat
    BY <1>0, <1>9
  <1> QED BY <1>2, <1>3, <1>5, <1>6, <1>7, <1>8, <1>10

\* What NewMsg makes of a payload; the length field keeps 16 bits of the length.
LEMMA NewMsgIs ==
    ASSUME NEW type \in Registered, NEW p, NEW id \in 0..(Base * Base - 1), NEW now \in Nat,
           EncodePayload(type, p) \in Seq(Int)
    PROVE  /\ Shaped(NewMsg(type, p, id, now))
           /\ Len(EncodePayload(type, p)) < Base * Base => Framed(NewMsg(type, p, id, now))
  <1> DEFINE m == NewMsg(type, p, id, now)
             payload == EncodePayload(type, p)
  <1>1. /\ m.Magic = MagicNumber /\ m.Version = 1 /\ m.Flags = 0 /\ m.Type = type /\ m.MsgID = id
        /\ m.PayloadLen = Len(payload) % (Base * Base)
        /\ m.Timestamp = NewTimestamp(now) /\ m.Payload = payload
    BY DEF NewMsg
  <1> HIDE DEF payload
  <1>2. Len(payload) \in Nat
    BY DEF payload
  <1>3. /\ m.PayloadLen \in Nat /\ m.PayloadLen < Power(2)
        /\ Len(payload) < Base * Base => m.PayloadLen = Len(payload)
    <2>1. PICK n \in Nat : n = Len(payload)
      BY <1>2
    <2>2. PICK b \in Nat : b = Base * Base /\ b = Power(2) /\ b > 0
      <3>1. PICK b \in Nat : b = Base * Base
        BY Powers
      <3> QED BY <3>1, Powers
    <2> HIDE DEF m
    <2>3. m.PayloadLen = n % b
      BY <1>1, <2>1, <2>2
    <2>4. n % b \in Nat /\ n % b < b
      BY <2>2
    <2>5. ASSUME n < b PROVE n % b = n
      BY <2>5
    <2> QED BY <2>1, <2>2, <2>3, <2>4, <2>5
  <1>4. NewTimestamp(now) \in Nat /\ NewTimestamp(now) < Power(4)
    <2>1. PICK b \in Nat : b = Power(4) /\ b > 0
      <3>1. Power(4) \in Nat /\ Power(4) >= 64
        <4>1. PICK c : c = Base * Base
          OBVIOUS
        <4> QED BY <4>1, Powers
      <3> QED BY <3>1
    <2>2. now % b \in Nat /\ now % b < b
      BY <2>1
    <2> QED BY <2>1, <2>2 DEF NewTimestamp
  <1>5. /\ MagicNumber \in Nat /\ MagicNumber < Power(2) /\ 1 < Power(1) /\ 0 < Power(1)
        /\ type \in Nat /\ type < Power(1) /\ id \in Nat /\ id < Power(2)
    <2>1. PICK b \in Nat : b = Base * Base
      BY Powers
    <2>2. MagicNumber \in 0..(b - 1) /\ id \in 0..(b - 1) /\ Power(2) = b
      BY <2>1, MagicAssumption, Powers
    <2>3. Base \in Nat /\ Base > 7 /\ Power(1) = Base
      BY BaseAssumption, Powers
    <2>4. type \in 1..7
      BY DEF Registered, Handshake, Notify
    <2> QED BY <1>2, <2>2, <2>3, <2>4
  <1> HIDE DEF m
  <1>6. /\ FitsField(Num("Magic", 2), m.Magic) /\ FitsField(Num("Version", 1), m.Version)
        /\ FitsField(Num("Flags", 1), m.Flags) /\ FitsField(Num("Type", 1), m.Type)
    BY <1>1, <1>5 DEF FitsField, Num
  <1>7. /\ FitsField(Num("MsgID", 2), m.MsgID) /\ FitsField(Num("PayloadLen", 2), m.PayloadLen)
        /\ FitsField(Num("Timestamp", 4), m.Timestamp)
    BY <1>1, <1>2, <1>3, <1>4, <1>5 DEF FitsField, Num
  <1>8. Fits(HeaderLayout, m)
    <2>1. SUFFICES ASSUME NEW i \in 1..7
          PROVE  FitsField(HeaderLayout[i], m[HeaderLayout[i].name])
      BY DEF Fits, HeaderLayout
    <2>2. /\ HeaderLayout[1] = Num("Magic", 2) /\ HeaderLayout[2] = Num("Version", 1)
          /\ HeaderLayout[3] = Num("Flags", 1) /\ HeaderLayout[4] = Num("Type", 1)
          /\ HeaderLayout[5] = Num("MsgID", 2) /\ HeaderLayout[6] = Num("PayloadLen", 2)
          /\ HeaderLayout[7] = Num("Timestamp", 4)
      BY DEF HeaderLayout
    <2>3. \A name, w : Num(name, w).name = name
      BY DEF Num
    <2>4. i = 1 \/ i = 2 \/ i = 3 \/ i = 4 \/ i = 5 \/ i = 6 \/ i = 7
      OBVIOUS
    <2> QED BY <1>6, <1>7, <2>2, <2>3, <2>4
  <1>9. Shaped(m)
    BY <1>1, <1>8 DEF Shaped, payload
  <1>10. Len(payload) < Base * Base => Framed(m)
    BY <1>1, <1>3, <1>9 DEF Framed
  <1> QED BY <1>9, <1>10 DEF m, payload

\* Payloads that a message can carry: of its type, and with fields that fit.
Sendable(type, p) ==
    \/ type = Upload /\ Uploadable(p)
    \/ /\ type \in Registered \ {Upload, Heartbeat}
       /\ p = [name \in NamesOf(LayoutOf(type)) |-> p[name]]
       /\ Fits(LayoutOf(type), p)
    \/ type = Heartbeat /\ p = <<>>

\* Something that a message can carry and whose bytes its length field can count.
Fitting(type, p) == Sendable(type, p) /\ Len(EncodePayload(type, p)) < Base * Base

\* The bytes of a payload.
LEMMA PayloadIs ==
    ASSUME NEW type, NEW p, Sendable(type, p)
    PROVE  EncodePayload(type, p) \in Seq(Int) /\ type \in Registered
  <1>0. /\ Handshake = 1 /\ HandshakeAck = 2 /\ Upload = 3 /\ UploadAck = 4 /\ Heartbeat = 5
        /\ HeartbeatAck = 6 /\ Notify = 7 /\ Registered = 1..7
    BY DEF Handshake, HandshakeAck, Upload, UploadAck, Heartbeat, HeartbeatAck, Notify, Registered
  <1>1. CASE type = Upload /\ Uploadable(p)
    <2>1. EncodePayload(type, p) = EncodeReadings(p)
      BY <1>1 DEF EncodePayload
    <2> QED BY <1>0, <1>1, <2>1, UploadLength
  <1>2. CASE type \in Registered \ {Upload, Heartbeat} /\ Fits(LayoutOf(type), p)
    <2>1. LayoutOf(type) \in {HandshakeLayout, NotifyLayout, AckLayout}
      BY <1>0, <1>2 DEF LayoutOf
    <2>2. LayoutOf(type) \in Seq(FieldType)
      BY <2>1, LayoutsAre
    <2>3. EncodePayload(type, p) = EncodeFields(LayoutOf(type), p)
      BY <1>2 DEF EncodePayload
    <2> QED BY <1>2, <2>2, <2>3, LayoutLength
  <1>3. CASE type = Heartbeat /\ p = <<>>
    <2>1. LayoutOf(type) = <<>> /\ <<>> \in Seq(FieldType) /\ Fits(<<>>, p)
      BY <1>0, <1>3 DEF LayoutOf, Fits
    <2>2. EncodePayload(type, p) = EncodeFields(<<>>, p)
      BY <1>0, <1>3, <2>1 DEF EncodePayload
    <2>3. EncodeFields(<<>>, p) \in Seq(Int)
      <3>1. PICK layout : layout = <<>>
        OBVIOUS
      <3>2. layout \in Seq(FieldType) /\ Fits(layout, p)
        BY <2>1, <3>1
      <3>3. EncodeFields(layout, p) \in Seq(Int)
        BY <3>2, LayoutLength
      <3> QED BY <3>1, <3>3
    <2> QED BY <1>0, <1>3, <2>2, <2>3
  <1> QED BY <1>1, <1>2, <1>3 DEF Sendable

\* A payload that is carried is read back by the decoder of its type.
LEMMA PayloadRoundTrip ==
    ASSUME NEW type, NEW p, Fitting(type, p), NEW m,
           m.Type = type, m.Payload = EncodePayload(type, p)
    PROVE  /\ EncodePayload(type, p) \in Seq(Int)
           /\ ParseMsg(m) = [ok |-> TRUE, p |-> p]
  <1>0. /\ Handshake = 1 /\ HandshakeAck = 2 /\ Upload = 3 /\ UploadAck = 4 /\ Heartbeat = 5
        /\ HeartbeatAck = 6 /\ Notify = 7 /\ Registered = 1..7
    BY DEF Handshake, HandshakeAck, Upload, UploadAck, Heartbeat, HeartbeatAck, Notify, Registered
  <1>1. CASE type = Upload /\ Uploadable(p)
    <2> DEFINE bytes == EncodeReadings(p)
    <2>1. EncodePayload(type, p) = bytes
      BY <1>1 DEF EncodePayload
    <2>2. bytes \in Seq(Int) /\ Len(bytes) >= 4 + 31 * Len(p) /\ Len(p) \in Nat
      BY <1>1, UploadLength DEF Uploadable
    <2>f. Len(bytes) < Base * Base
      BY <2>1 DEF Fitting
    <2> HIDE DEF bytes
    <2>c. Len(p) < Power(4)
      <3>1. PICK b \in Nat : b = Base * Base
        BY Powers
      <3>2. Power(4) \in Nat /\ Power(4) >= b
        BY <3>1, Powers
      <3>3. Len(bytes) < b /\ Len(bytes) \in Nat
        BY <2>2, <2>f, <3>1
      <3> QED BY <2>2, <3>2, <3>3
    <2>3. Holds(bytes, 0, bytes)
      BY <2>2 DEF Holds
    <2>4. bytes \in Seq(Cell)
      BY <2>2, TextsAreCells
    <2>5. DecodeReadings(bytes) = [ok |-> TRUE, rs |-> p]
      BY <1>1, <2>3, <2>4, <2>c, ReadingsRoundTrip DEF bytes
    <2>6. m.Type \in Registered /\ m.Type = Upload /\ m.Payload = bytes
      BY <1>0, <1>1, <2>1
    <2>7. ParseMsg(m) = [ok |-> DecodeReadings(bytes).ok, p |-> DecodeReadings(bytes).rs]
      BY <2>6 DEF ParseMsg
    <2>8. ParseMsg(m) = [ok |-> TRUE, p |-> p]
      BY <2>5, <2>7
    <2> QED BY <2>1, <2>2, <2>8
  <1>2. ASSUME type \in Registered \ {Upload}, LayoutOf(type) \in Seq(FieldType),
               p = [name \in NamesOf(LayoutOf(type)) |-> p[name]], Fits(LayoutOf(type), p),
               type = Heartbeat => EncodePayload(type, p) = <<>>
        PROVE  /\ EncodePayload(type, p) \in Seq(Int)
               /\ ParseMsg(m) = [ok |-> TRUE, p |-> p]
    <2> DEFINE bytes == EncodeFields(LayoutOf(type), p)
               d == DecodeFields(LayoutOf(type), bytes, 0)
    <2>1. EncodePayload(type, p) = bytes
      BY <1>2 DEF EncodePayload
    <2>2. bytes \in Seq(Int)
      BY <1>2, LayoutLength
    <2> HIDE DEF bytes
    <2>3. Holds(bytes, 0, bytes)
      BY <2>2 DEF Holds
    <2>4. bytes \in Seq(Cell)
      BY <2>2, TextsAreCells
    <2>5. Holds(bytes, 0, EncodeFields(LayoutOf(type), p))
      BY <2>3 DEF bytes
    <2>6. d = [ok |-> TRUE, rec |-> [name \in NamesOf(LayoutOf(type)) |-> p[name]]]
      <3> DEFINE layout == LayoutOf(type)
      <3>1. layout \in Seq(FieldType) /\ Fits(layout, p) /\ Holds(bytes, 0, EncodeFields(layout, p))
        BY <1>2, <2>5
      <3> HIDE DEF layout
      <3>2. DecodeFields(layout, bytes, 0) =
              [ok |-> TRUE, rec |-> [name \in NamesOf(layout) |-> p[name]]]
        BY <2>4, <3>1, LayoutRoundTrip
      <3> QED BY <3>2 DEF layout
    <2> HIDE DEF d
    <2>7. d.ok = TRUE /\ d.rec = p
      BY <1>2, <2>6
    <2>8. m.Type \in Registered /\ m.Type = type /\ m.Type # Upload /\ m.Payload = bytes
      BY <1>0, <1>2, <2>1
    <2>9. ParseMsg(m) = [ok |-> d.ok /\ (type = Heartbeat => bytes = <<>>), p |-> d.rec]
      BY <2>8 DEF ParseMsg, d
    <2>10. ParseMsg(m) = [ok |-> TRUE, p |-> p]
      BY <1>2, <2>1, <2>7, <2>9
    <2> QED BY <2>1, <2>2, <2>10
  <1>3. CASE /\ type \in Registered \ {Upload, Heartbeat}
             /\ p = [name \in NamesOf(LayoutOf(type)) |-> p[name]]
             /\ Fits(LayoutOf(type), p)
    <2>1. LayoutOf(type) \in {HandshakeLayout, NotifyLayout, AckLayout}
      BY <1>0, <1>3 DEF LayoutOf
    <2>2. LayoutOf(type) \in Seq(FieldType)
      BY <2>1, LayoutsAre
    <2> QED BY <1>2, <1>3, <2>2
  <1>4. CASE type = Heartbeat /\ p = <<>>
    <2>1. LayoutOf(type) = <<>>
      BY <1>0, <1>4 DEF LayoutOf
    <2>2. <<>> \in Seq(FieldType) /\ Len(<<>>) = 0
      OBVIOUS
    <2>3. Fits(<<>>, p)
      BY <2>2 DEF Fits
    <2>4. NamesOf(<<>>) = {}
      BY DEF NamesOf
    <2>5. p = [name \in {} |-> p[name]]
      BY <1>4
    <2>6. EncodeFields(<<>>, p) = <<>>
      <3>1. PICK bytes \in [0..Len(<<>>) -> Seq(Int)] :
               bytes[0] = <<>> /\ EncodeFields(<<>>, p) = bytes[Len(<<>>)]
        BY <2>2, <2>3, EncodeFieldsIs
      <3> QED BY <3>1, <2>2
    <2>7. EncodePayload(type, p) = <<>>
      BY <1>0, <1>4, <2>1, <2>6 DEF EncodePayload
    <2>8. type \in Registered \ {Upload}
      BY <1>0, <1>4
    <2> QED BY <1>2, <2>1, <2>2, <2>3, <2>4, <2>5, <2>7, <2>8
  <1> QED BY <1>1, <1>3, <1>4 DEF Fitting, Sendable

\* The frame of a message.
LEMMA FrameIs ==
    ASSUME NEW type, NEW p, Sendable(type, p),
           NEW id \in 0..(Base * Base - 1), NEW now \in Nat
    PROVE  /\ Shaped(NewMsg(type, p, id, now))
           /\ Fitting(type, p) => Framed(NewMsg(type, p, id, now))
           /\ EncodeFrame(NewMsg(type, p, id, now)) \in Seq(Cell)
           /\ Len(EncodeFrame(NewMsg(type, p, id, now))) > 0
  <1> DEFINE m == NewMsg(type, p, id, now)
  <1>1. EncodePayload(type, p) \in Seq(Int) /\ type \in Registered
    BY PayloadIs
  <1>3. Shaped(m) /\ (Fitting(type, p) => Framed(m))
    BY <1>1, NewMsgIs DEF Fitting
  <1> HIDE DEF m
  <1>4. EncodeFrame(m) \in Seq(Cell) /\ Len(EncodeFrame(m)) = HeaderSize + Len(m.Payload) + 2
    BY <1>3, FrameParts
  <1>5. HeaderSize \in Nat /\ Len(m.Payload) \in Nat
    <2>1. HeaderSize \in Nat
      BY <1>3, FrameParts
    <2>2. m.Payload \in Seq(Int)
      BY <1>3 DEF Shaped
    <2> QED BY <2>1, <2>2
  <1>6. Len(EncodeFrame(m)) > 0
    BY <1>4, <1>5
  <1> QED BY <1>3, <1>4, <1>6 DEF m

\* Read from data that begins with its frame, it is what it was.
LEMMA MessageRoundTrip ==
    ASSUME NEW type, NEW p, Fitting(type, p),
           NEW id \in 0..(Base * Base - 1), NEW now \in Nat, NEW data \in Seq(Cell),
           Holds(data, 0, EncodeFrame(NewMsg(type, p, id, now)))
    PROVE  LET d == DecodeFrame(data)
           IN  /\ d.res = "ok"
               /\ d.size = Len(EncodeFrame(NewMsg(type, p, id, now)))
               /\ d.m.Type = type /\ d.m.MsgID = id
               /\ ParseMsg(d.m) = [ok |-> TRUE, p |-> p]
  <1> DEFINE m == NewMsg(type, p, id, now)
             back == [k \in NamesOf(HeaderLayout) \cup {"Payload"} |-> m[k]]
  <1>1. Framed(m)
    BY FrameIs DEF Fitting
  <1>2. m.Type = type /\ m.MsgID = id /\ m.Payload = EncodePayload(type, p)
    BY DEF NewMsg
  <1> HIDE DEF m
  <1>3. DecodeFrame(data) = [res |-> "ok", size |-> Len(EncodeFrame(m)), m |-> back]
    BY <1>1, FrameRoundTrip DEF m
  <1>4. "Type" \in NamesOf(HeaderLayout) /\ "MsgID" \in NamesOf(HeaderLayout)
    <2>1. /\ 4 \in DOMAIN HeaderLayout /\ HeaderLayout[4].name = "Type"
          /\ 5 \in DOMAIN HeaderLayout /\ HeaderLayout[5].name = "MsgID"
      BY DEF HeaderLayout, Num
    <2> QED BY <2>1 DEF NamesOf
  <1>5. back.Type = type /\ back.MsgID = id /\ back.Payload = EncodePayload(type, p)
    BY <1>2, <1>4
  <1> HIDE DEF back
  <1>6. ParseMsg(back) = [ok |-> TRUE, p |-> p]
    BY <1>5, PayloadRoundTrip
  <1> DEFINE d == DecodeFrame(data)
  <1>7. d.res = "ok" /\ d.size = Len(EncodeFrame(m)) /\ d.m = back
    BY <1>3
  <1> HIDE DEF d
  <1>8. /\ d.res = "ok" /\ d.size = Len(EncodeFrame(m)) /\ d.m.Type = type /\ d.m.MsgID = id
        /\ ParseMsg(d.m) = [ok |-> TRUE, p |-> p]
    BY <1>5, <1>6, <1>7
  <1> QED BY <1>8 DEF d, m

\* What NewMsg and Encode write, DecodeFrame and ParseMsg read back, whatever
\* follows on the connection; of less than the whole frame they make nothing.
\* This is for every base, every string, every number of readings; only the
\* payload has to be one that the 16-bit PayloadLen can count.
THEOREM FramesComeBack ==
    ASSUME NEW type, NEW p, Fitting(type, p),
           NEW id \in 0..(Base * Base - 1), NEW now \in Nat, NEW rest \in Seq(Cell)
    PROVE  LET frame == EncodeFrame(NewMsg(type, p, id, now))
               d == DecodeFrame(frame \o rest)
           IN  /\ d.res = "ok" /\ d.size = Len(frame)
               /\ d.m.Type = type /\ d.m.MsgID = id
               /\ ParseMsg(d.m) = [ok |-> TRUE, p |-> p]
               /\ \A n \in 0..(Len(frame) - 1) :
                     DecodeFrame(SubSeq(frame, 1, n)) = [res |-> "short"]
  <1> DEFINE m     == NewMsg(type, p, id, now)
             frame == EncodeFrame(m)
             d     == DecodeFrame(frame \o rest)
  <1>1. Framed(m) /\ frame \in Seq(Cell)
    BY FrameIs DEF Fitting
  <1>2. frame \o rest \in Seq(Cell) /\ Holds(frame \o rest, 0, frame)
    <2> HIDE DEF frame
    <2> QED BY <1>1 DEF Holds
  <1>3. /\ d.res = "ok" /\ d.size = Len(frame) /\ d.m.Type = type /\ d.m.MsgID = id
        /\ ParseMsg(d.m) = [ok |-> TRUE, p |-> p]
    <2> DEFINE data == frame \o rest
               e    == DecodeFrame(data)
    <2>1. data \in Seq(Cell) /\ Holds(data, 0, EncodeFrame(NewMsg(type, p, id, now)))
      BY <1>2
    <2> HIDE DEF data
    <2>2. /\ e.res = "ok" /\ e.size = Len(EncodeFrame(NewMsg(type, p, id, now)))
          /\ e.m.Type = type /\ e.m.MsgID = id
          /\ ParseMsg(e.m) = [ok |-> TRUE, p |-> p]
      BY <2>1, MessageRoundTrip
    <2> QED BY <2>2 DEF data
  <1>4. ASSUME NEW n \in 0..(Len(frame) - 1)
        PROVE  DecodeFrame(SubSeq(frame, 1, n)) = [res |-> "short"]
    <2> DEFINE part == SubSeq(frame, 1, n)
    <2> HIDE DEF frame
    <2>1. part \in Seq(Cell) /\ Len(part) = n /\ n < Len(frame)
      BY <1>1
    <2>2. \A j \in 1..Len(part) : part[j] = frame[j]
      BY <1>1
    <2> HIDE DEF part, m
    <2>3. DecodeFrame(part) = [res |-> "short"]
      BY <1>1, <2>1, <2>2, PartialFrame DEF frame
    <2> QED BY <2>3 DEF part
  <1> QED BY <1>3, <1>4
=============================================================================
