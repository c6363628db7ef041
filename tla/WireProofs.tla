----------------------------- MODULE WireProofs ------------------------------
(***************************************************************************)
(* For any base, width, limit, junk and traffic, and wherever the network  *)
(* cuts the stream: the reader takes exactly the frames, hears what        *)
(* Ebbflow sent, and leaves what follows them to the proxy.                *)
(***************************************************************************)
EXTENDS Wire, SequenceTheorems, WellFoundedInduction, TLAPS

-----------------------------------------------------------------------------
(* Induction and recursion over the naturals, on sets.                     *)

\* A set that holds 0 and every successor holds every natural: its complement
\* would have a least element.
LEMMA Induction ==
    ASSUME NEW S, 0 \in S, \A n \in Nat : n \in S => n + 1 \in S
    PROVE  \A n \in Nat : n \in S
<1> SUFFICES ASSUME Nat \ S # {} PROVE FALSE
  OBVIOUS
<1> DEFINE R == {ss \in Nat \X Nat : ss[1] < ss[2]}
           T == Nat \ S
<1>1. IsWellFoundedOn(R, Nat)
  BY NatLessThanWellFounded DEF OpToRel
<1>2. PICK m \in T : \A k \in T : ~(<<k, m>> \in R)
  <2>1. T \subseteq Nat /\ T # {}
    OBVIOUS
  <2> HIDE DEF R, T
  <2> QED BY <1>1, <2>1, WFMin
<1>3. \A k \in T : ~(k < m)
  BY <1>2
<1>4. m \in Nat /\ m \notin S /\ m # 0 /\ m - 1 \in Nat /\ (m - 1) + 1 = m /\ m - 1 < m
  BY <1>2
<1>5. m - 1 \in S
  BY <1>3, <1>4
<1> QED BY ONLY <1>4, <1>5, \A n \in Nat : n \in S => n + 1 \in S

\* The same up to m.
LEMMA InductionUpTo ==
    ASSUME NEW m \in Nat, NEW S, 0 \in S, \A n \in 1 .. m : n - 1 \in S => n \in S
    PROVE  \A n \in 0 .. m : n \in S
<1> DEFINE U == {n \in Nat : n <= m => n \in S}
<1>1. 0 \in U
  OBVIOUS
<1>2. ASSUME NEW n \in Nat, n \in U PROVE n + 1 \in U
  <2> SUFFICES ASSUME n + 1 <= m PROVE n + 1 \in S
    OBVIOUS
  <2>1. n \in S /\ n + 1 \in 1 .. m /\ (n + 1) - 1 = n
    BY <1>2
  <2> QED BY <2>1
<1> HIDE DEF U
<1>3. \A n \in Nat : n \in U
  BY <1>1, <1>2, Induction
<1> QED BY <1>3 DEF U

\* f starts with x and takes the steps.
Recursion(f, x, step, m) == f[0] = x /\ \A n \in 1 .. m : f[n] = step[n][f[n - 1]]

\* Every recursion over 0 .. m is obeyed by some function.
LEMMA RecursionExists ==
    ASSUME NEW V, NEW x \in V, NEW step \in [Nat -> [V -> V]]
    PROVE  \A m \in Nat : \E f \in [0 .. m -> V] : Recursion(f, x, step, m)
<1> DEFINE S == {m \in Nat : \E f \in [0 .. m -> V] : Recursion(f, x, step, m)}
<1>1. 0 \in S
  <2> DEFINE f == [n \in 0 .. 0 |-> x]
  <2>1. f \in [0 .. 0 -> V] /\ f[0] = x
    OBVIOUS
  <2>2. \A n \in 1 .. 0 : FALSE
    OBVIOUS
  <2> HIDE DEF f
  <2>3. Recursion(f, x, step, 0)
    BY ONLY <2>1, <2>2 DEF Recursion
  <2> QED BY <2>1, <2>3
<1>2. ASSUME NEW m \in Nat, m \in S PROVE m + 1 \in S
  <2>1. PICK f \in [0 .. m -> V] : Recursion(f, x, step, m)
    BY <1>2
  <2> DEFINE last == step[m + 1][f[m]]
             g == [n \in 0 .. m + 1 |-> IF n <= m THEN f[n] ELSE last]
  <2>2. last \in V
    <3>1. m + 1 \in Nat /\ f[m] \in V
      BY <1>2
    <3> QED BY ONLY <3>1, step \in [Nat -> [V -> V]]
  <2> HIDE DEF last
  <2>3. g \in [0 .. m + 1 -> V]
    <3>1. \A n \in 0 .. m + 1 : n <= m => n \in 0 .. m
      OBVIOUS
    <3> QED BY ONLY <2>2, <3>1, f \in [0 .. m -> V]
  <2>4. \A n \in 0 .. m : g[n] = f[n]
    BY ONLY m \in Nat
  <2>5. g[m + 1] = last
    BY ONLY m \in Nat
  <2> HIDE DEF g
  <2>6. g[0] = x
    BY <1>2, <2>1, <2>4 DEF Recursion
  <2>7. ASSUME NEW n \in 1 .. m + 1 PROVE g[n] = step[n][g[n - 1]]
    <3>1. CASE n <= m
      <4>1. n \in 1 .. m /\ n \in 0 .. m /\ n - 1 \in 0 .. m
        BY <1>2, <2>7, <3>1
      <4> QED BY ONLY <2>1, <2>4, <4>1 DEF Recursion
    <3>2. CASE ~(n <= m)
      <4>1. n = m + 1 /\ n - 1 = m /\ m \in 0 .. m
        BY <1>2, <2>7, <3>2
      <4>2. g[n - 1] = f[m]
        BY ONLY <2>4, <4>1
      <4> QED BY ONLY <2>5, <4>1, <4>2 DEF last
    <3> QED BY <3>1, <3>2
  <2>8. Recursion(g, x, step, m + 1)
    BY ONLY <2>6, <2>7 DEF Recursion
  <2> QED BY <2>3, <2>8
<1> HIDE DEF S
<1>3. \A m \in Nat : m \in S
  BY <1>1, <1>2, Induction
<1> QED BY <1>3 DEF S

-----------------------------------------------------------------------------
(* Numbers and their bytes.                                                *)

Byte == 0 .. Base - 1

\* Pow obeys its definition.
LEMMA PowFacts ==
    /\ Pow[0] = 1
    /\ \A k \in 1 .. Width : Pow[k] = Base * Pow[k - 1]
    /\ \A k \in 0 .. Width : Pow[k] \in Nat
<1> DEFINE Eq(p) == p = [k \in 0 .. Width |-> IF k = 0 THEN 1 ELSE Base * p[k - 1]]
           step == [n \in Nat |-> [y \in Nat |-> Base * y]]
<1>0. Base \in Nat /\ Width \in Nat
  BY WireAssumption
<1>1. step \in [Nat -> [Nat -> Nat]]
  <2>1. \A y \in Nat : Base * y \in Nat
    BY <1>0
  <2> QED BY ONLY <2>1
<1>2. PICK f \in [0 .. Width -> Nat] : Recursion(f, 1, step, Width)
  <2> HIDE DEF step
  <2>1. 1 \in Nat
    OBVIOUS
  <2> QED BY ONLY <1>0, <1>1, <2>1, RecursionExists
<1>3. Eq(f)
  <2>1. f[0] = 1 /\ \A k \in 1 .. Width : f[k] = step[k][f[k - 1]]
    BY ONLY <1>2 DEF Recursion
  <2>2. \A k \in 0 .. Width : k # 0 => k \in 1 .. Width /\ k \in Nat /\ k - 1 \in 0 .. Width
    BY <1>0
  <2>3. \A k \in 0 .. Width : f[k] = IF k = 0 THEN 1 ELSE Base * f[k - 1]
    BY ONLY <2>1, <2>2, f \in [0 .. Width -> Nat]
  <2> QED BY ONLY <2>3, f \in [0 .. Width -> Nat]
<1>4. Eq(Pow)
  <2>1. \E p : Eq(p)
    BY <1>3
  <2> QED BY ONLY <2>1 DEF Pow
<1>5. Pow[0] = 1 /\ \A k \in 1 .. Width : Pow[k] = Base * Pow[k - 1]
  <2>1. \A k \in 0 .. Width : Pow[k] = IF k = 0 THEN 1 ELSE Base * Pow[k - 1]
    BY ONLY <1>4
  <2>2. 0 \in 0 .. Width /\ \A k \in 1 .. Width : k \in 0 .. Width /\ k # 0
    BY <1>0
  <2> QED BY ONLY <2>1, <2>2
<1>6. \A k \in 0 .. Width : Pow[k] \in Nat
  <2> DEFINE S == {k \in 0 .. Width : Pow[k] \in Nat}
  <2>1. 0 \in S
    BY <1>0, <1>5
  <2>2. ASSUME NEW k \in 1 .. Width, k - 1 \in S PROVE k \in S
    BY <1>0, <1>5, <2>2
  <2> HIDE DEF S
  <2>3. \A k \in 0 .. Width : k \in S
    BY ONLY <1>0, <2>1, <2>2, InductionUpTo
  <2> QED BY <2>3 DEF S
<1> QED BY <1>5, <1>6

\* A value with one more digit.
LEMMA ScaledNat == \A y, b, d \in Nat : y * b + d \in Nat
<1> SUFFICES ASSUME NEW y \in Nat, NEW b \in Nat, NEW d \in Nat PROVE y * b + d \in Nat
  OBVIOUS
<1>1. y * b \in Nat
  OBVIOUS
<1> QED BY ONLY <1>1, d \in Nat

\* v holds the values of the beginnings of s.
Values(v, s) ==
    /\ v \in [0 .. Len(s) -> Nat] /\ v[0] = 0
    /\ \A i \in 1 .. Len(s) : v[i] = v[i - 1] * Base + s[i]

\* FromBytes computes the last of them.
LEMMA FromBytesValues ==
    ASSUME NEW s \in Seq(Byte)
    PROVE  \E v : Values(v, s) /\ FromBytes(s) = v[Len(s)]
<1> DEFINE m == Len(s)
           digit == [n \in Nat |-> IF n \in 1 .. m THEN s[n] ELSE 0]
           step == [n \in Nat |-> [y \in Nat |-> y * Base + digit[n]]]
           Eq(v) == v = [i \in 0 .. m |-> IF i = 0 THEN 0 ELSE v[i - 1] * Base + s[i]]
           c == CHOOSE v : Eq(v)
<1>0. Base \in Nat /\ m \in Nat /\ \A n \in 1 .. m : s[n] \in Byte
  BY WireAssumption
<1>1. \A n \in 1 .. m : s[n] \in Nat
  BY ONLY <1>0 DEF Byte
<1> HIDE DEF m
<1>2. digit \in [Nat -> Nat] /\ \A n \in 1 .. m : digit[n] = s[n]
  BY <1>0, <1>1
<1>3. step \in [Nat -> [Nat -> Nat]]
  <2> HIDE DEF digit
  <2>1. \A n, y \in Nat : y * Base + digit[n] \in Nat
    <3>1. ASSUME NEW n \in Nat, NEW y \in Nat PROVE y * Base + digit[n] \in Nat
      BY ONLY <1>0, <1>2, <3>1, ScaledNat
    <3> QED BY <3>1
  <2> QED BY ONLY <2>1
<1>4. PICK f \in [0 .. m -> Nat] : Recursion(f, 0, step, m)
  <2> HIDE DEF step
  <2>1. 0 \in Nat
    OBVIOUS
  <2> QED BY ONLY <1>0, <1>3, <2>1, RecursionExists
<1>5. Eq(f)
  <2>1. f[0] = 0 /\ \A k \in 1 .. m : f[k] = step[k][f[k - 1]]
    BY ONLY <1>4 DEF Recursion
  <2>2. \A k \in 0 .. m : k # 0 => k \in 1 .. m /\ k \in Nat /\ k - 1 \in 0 .. m
    BY <1>0
  <2> HIDE DEF digit
  <2>3. \A k \in 0 .. m : f[k] = IF k = 0 THEN 0 ELSE f[k - 1] * Base + s[k]
    BY ONLY <1>2, <2>1, <2>2, f \in [0 .. m -> Nat]
  <2> QED BY ONLY <2>3, f \in [0 .. m -> Nat]
<1>6. Eq(c)
  BY ONLY <1>5
<1>7. FromBytes(s) = c[m]
  BY DEF FromBytes, m
<1> HIDE DEF c
<1>8. c[0] = 0 /\ \A i \in 1 .. m : c[i] = c[i - 1] * Base + s[i]
  <2>1. \A i \in 0 .. m : c[i] = IF i = 0 THEN 0 ELSE c[i - 1] * Base + s[i]
    BY ONLY <1>6
  <2>2. 0 \in 0 .. m /\ \A i \in 1 .. m : i \in 0 .. m /\ i # 0
    BY <1>0
  <2> QED BY ONLY <2>1, <2>2
<1>9. \A i \in 0 .. m : c[i] \in Nat
  <2> DEFINE S == {i \in 0 .. m : c[i] \in Nat}
  <2>1. 0 \in S
    BY <1>0, <1>8
  <2>2. ASSUME NEW i \in 1 .. m, i - 1 \in S PROVE i \in S
    <3>1. c[i - 1] \in Nat /\ s[i] \in Nat /\ c[i] = c[i - 1] * Base + s[i] /\ i \in 0 .. m
      BY <1>0, <1>1, <1>8, <2>2
    <3>2. c[i - 1] * Base + s[i] \in Nat
      BY ONLY <1>0, <3>1, ScaledNat
    <3> QED BY ONLY <3>1, <3>2
  <2> HIDE DEF S
  <2>3. \A i \in 0 .. m : i \in S
    BY ONLY <1>0, <2>1, <2>2, InductionUpTo
  <2> QED BY <2>3 DEF S
<1>10. c \in [0 .. m -> Nat]
  BY ONLY <1>6, <1>9
<1> QED BY ONLY <1>7, <1>8, <1>10 DEF Values, m

\* What is read is a natural.
LEMMA FromBytesNat == ASSUME NEW s \in Seq(Byte) PROVE FromBytes(s) \in Nat
<1>1. Len(s) \in Nat
  OBVIOUS
<1> QED BY <1>1, FromBytesValues DEF Values

\* Division by the base.
Quot(y) == y \div Base
Digit(y) == y % Base

\* q holds the quotients of n by the powers of the base.
Quotients(q, n) ==
    /\ q \in [0 .. Width -> Nat] /\ q[0] = n
    /\ \A i \in 1 .. Width : q[i] = Quot(q[i - 1])

\* One digit less, and the digit.
LEMMA Division ==
    \A y \in Nat : /\ Quot(y) \in Nat /\ Digit(y) \in Byte
                   /\ y = Quot(y) * Base + Digit(y)
<1>1. Base \in Nat /\ Base > 0
  BY WireAssumption
<1> SUFFICES ASSUME NEW y \in Nat
             PROVE  /\ Quot(y) \in Nat /\ Digit(y) \in Byte
                    /\ y = Quot(y) * Base + Digit(y)
  OBVIOUS
<1>2. Quot(y) \in Nat
  BY <1>1 DEF Quot
<1>3. Digit(y) \in Byte
  BY <1>1 DEF Byte, Digit
<1>4. PICK d, r : d = Quot(y) /\ r = Digit(y)
  OBVIOUS
<1>5. y = d * Base + r
  BY ONLY <1>1, <1>4, y \in Nat DEF Quot, Digit
<1> QED BY ONLY <1>2, <1>3, <1>4, <1>5

\* ToBytes takes its digits from them.
LEMMA ToBytesQuotients ==
    ASSUME NEW n \in Nat
    PROVE  \E q : Quotients(q, n) /\ ToBytes(n) = [i \in 1 .. Width |-> Digit(q[Width - i])]
<1> DEFINE step == [i \in Nat |-> [y \in Nat |-> Quot(y)]]
           Eq(q) == q = [i \in 0 .. Width |-> IF i = 0 THEN n ELSE Quot(q[i - 1])]
           c == CHOOSE q : Eq(q)
<1>0. Width \in Nat /\ \A y \in Nat : Quot(y) \in Nat
  BY WireAssumption, Division
<1>1. step \in [Nat -> [Nat -> Nat]]
  BY ONLY <1>0
<1>2. PICK f \in [0 .. Width -> Nat] : Recursion(f, n, step, Width)
  <2> HIDE DEF step
  <2> QED BY ONLY <1>0, <1>1, n \in Nat, RecursionExists
<1>3. Eq(f)
  <2>1. f[0] = n /\ \A k \in 1 .. Width : f[k] = step[k][f[k - 1]]
    BY ONLY <1>2 DEF Recursion
  <2>2. \A k \in 0 .. Width : k # 0 => k \in 1 .. Width /\ k \in Nat /\ k - 1 \in 0 .. Width
    BY <1>0
  <2>3. \A k \in 0 .. Width : f[k] = IF k = 0 THEN n ELSE Quot(f[k - 1])
    BY ONLY <2>1, <2>2, f \in [0 .. Width -> Nat]
  <2> QED BY ONLY <2>3, f \in [0 .. Width -> Nat]
<1>4. Eq(c)
  BY ONLY <1>3
<1>5. ToBytes(n) = [i \in 1 .. Width |-> Digit(c[Width - i])]
  BY DEF ToBytes, Quot, Digit
<1> HIDE DEF c
<1>6. c[0] = n /\ \A i \in 1 .. Width : c[i] = Quot(c[i - 1])
  <2>1. \A i \in 0 .. Width : c[i] = IF i = 0 THEN n ELSE Quot(c[i - 1])
    BY ONLY <1>4
  <2>2. 0 \in 0 .. Width /\ \A i \in 1 .. Width : i \in 0 .. Width /\ i # 0
    BY <1>0
  <2> QED BY ONLY <2>1, <2>2
<1>7. \A i \in 0 .. Width : c[i] \in Nat
  <2> DEFINE S == {i \in 0 .. Width : c[i] \in Nat}
  <2>1. 0 \in S
    <3>1. 0 \in 0 .. Width
      BY <1>0
    <3>2. c[0] = n
      BY <1>6
    <3> QED BY ONLY <3>1, <3>2, n \in Nat
  <2>2. ASSUME NEW i \in 1 .. Width, i - 1 \in S PROVE i \in S
    <3>1. c[i - 1] \in Nat /\ i \in 0 .. Width
      BY <1>0, <2>2
    <3>2. c[i] = Quot(c[i - 1])
      BY ONLY <1>6, <2>2
    <3> QED BY ONLY <1>0, <3>1, <3>2
  <2> HIDE DEF S
  <2>3. \A i \in 0 .. Width : i \in S
    BY ONLY <1>0, <2>1, <2>2, InductionUpTo
  <2> QED BY <2>3 DEF S
<1>8. c \in [0 .. Width -> Nat]
  BY ONLY <1>4, <1>7
<1> QED BY ONLY <1>5, <1>6, <1>8 DEF Quotients

\* A number takes Width bytes.
LEMMA ToBytesTyped ==
    ASSUME NEW n \in Nat
    PROVE  ToBytes(n) \in Seq(Byte) /\ Len(ToBytes(n)) = Width
<1>1. PICK q : Quotients(q, n) /\ ToBytes(n) = [i \in 1 .. Width |-> Digit(q[Width - i])]
  BY ToBytesQuotients
<1>2. Width \in Nat /\ \A i \in 1 .. Width : Width - i \in 0 .. Width
  BY WireAssumption
<1>3. \A i \in 1 .. Width : Digit(q[Width - i]) \in Byte
  BY ONLY <1>1, <1>2, Division DEF Quotients
<1>4. ToBytes(n) \in [1 .. Width -> Byte]
  BY ONLY <1>1, <1>3
<1> HIDE DEF Byte
<1> QED BY ONLY <1>2, <1>4

\* Whoever divides by the base is below one power less.
LEMMA DivideBound == \A y, p \in Nat : y < Base * p => Quot(y) < p
<1>1. Base \in Nat /\ Base > 0
  BY WireAssumption
<1> SUFFICES ASSUME NEW y \in Nat, NEW p \in Nat, y < Base * p, ~(Quot(y) < p) PROVE FALSE
  OBVIOUS
<1> DEFINE d == Quot(y)
           r == Digit(y)
<1>2. d \in Nat /\ r \in Nat /\ y = d * Base + r
  <2>1. d \in Nat /\ r \in Byte /\ y = d * Base + r
    BY ONLY Division, y \in Nat
  <2> QED BY ONLY <1>1, <2>1 DEF Byte
<1>3. d >= p
  BY <1>2
<1> HIDE DEF d, r
<1>4. PICK e \in Nat : d = p + e
  <2>1. d - p \in Nat /\ d = p + (d - p)
    BY ONLY <1>2, <1>3, p \in Nat
  <2> QED BY <2>1
<1>5. d * Base = Base * p + e * Base
  BY ONLY <1>1, <1>4, p \in Nat
<1>6. e * Base \in Nat /\ Base * p \in Nat
  BY ONLY <1>1, <1>4, p \in Nat
<1> QED BY ONLY <1>2, <1>5, <1>6, y < Base * p

\* u32::from_be_bytes undoes u32::to_be_bytes.
LEMMA RoundTrip ==
    ASSUME NEW n \in Nat, n < Pow[Width]
    PROVE  FromBytes(ToBytes(n)) = n
<1>0. Width \in Nat /\ Base \in Nat
  BY WireAssumption
<1>1. PICK q : Quotients(q, n) /\ ToBytes(n) = [i \in 1 .. Width |-> Digit(q[Width - i])]
  BY ToBytesQuotients
<1>2. ToBytes(n) \in Seq(Byte) /\ Len(ToBytes(n)) = Width
  BY ToBytesTyped
<1>3. PICK v : Values(v, ToBytes(n)) /\ FromBytes(ToBytes(n)) = v[Len(ToBytes(n))]
  BY ONLY <1>2, FromBytesValues
<1>4. /\ v \in [0 .. Width -> Nat] /\ v[0] = 0
      /\ \A i \in 1 .. Width : v[i] = v[i - 1] * Base + Digit(q[Width - i])
      /\ FromBytes(ToBytes(n)) = v[Width]
  <2>1. \A i \in 1 .. Width : ToBytes(n)[i] = Digit(q[Width - i])
    BY ONLY <1>1
  <2> QED BY ONLY <1>2, <1>3, <2>1 DEF Values
<1>5. \A k \in 0 .. Width : q[k] < Pow[Width - k]
  <2> DEFINE S == {k \in 0 .. Width : q[k] < Pow[Width - k]}
  <2>1. 0 \in S
    <3>1. 0 \in 0 .. Width /\ Width - 0 = Width /\ q[0] = n
      BY ONLY <1>0, <1>1 DEF Quotients
    <3> QED BY ONLY <3>1, n < Pow[Width]
  <2>2. ASSUME NEW k \in 1 .. Width, k - 1 \in S PROVE k \in S
    <3>1. /\ k \in 0 .. Width /\ k - 1 \in 0 .. Width /\ Width - (k - 1) \in 1 .. Width
          /\ (Width - (k - 1)) - 1 = Width - k /\ Width - k \in 0 .. Width
      BY ONLY <1>0, k \in 1 .. Width
    <3>2. /\ q[k - 1] \in Nat /\ q[k] = Quot(q[k - 1])
          /\ q[k - 1] < Pow[Width - (k - 1)]
      BY ONLY <1>1, <2>2, <3>1 DEF Quotients
    <3>3. Pow[Width - (k - 1)] = Base * Pow[Width - k] /\ Pow[Width - k] \in Nat
      BY ONLY <3>1, PowFacts
    <3>4. q[k - 1] < Base * Pow[Width - k]
      BY ONLY <3>2, <3>3
    <3>5. q[k] < Pow[Width - k]
      BY ONLY <3>2, <3>3, <3>4, DivideBound
    <3> QED BY ONLY <3>1, <3>5
  <2> HIDE DEF S
  <2>3. \A k \in 0 .. Width : k \in S
    BY ONLY <1>0, <2>1, <2>2, InductionUpTo
  <2> QED BY <2>3 DEF S
<1>6. q[Width] = 0
  <2>1. Width \in 0 .. Width /\ Width - Width = 0
    BY <1>0
  <2>2. q[Width] \in Nat /\ q[Width] < Pow[0]
    BY ONLY <1>1, <1>5, <2>1 DEF Quotients
  <2> QED BY ONLY <2>2, PowFacts
<1>7. \A i \in 0 .. Width : v[i] = q[Width - i]
  <2> DEFINE S == {i \in 0 .. Width : v[i] = q[Width - i]}
  <2>1. 0 \in S
    <3>1. 0 \in 0 .. Width /\ Width - 0 = Width
      BY <1>0
    <3> QED BY ONLY <1>4, <1>6, <3>1
  <2>2. ASSUME NEW i \in 1 .. Width, i - 1 \in S PROVE i \in S
    <3>1. /\ i \in 0 .. Width /\ Width - (i - 1) \in 1 .. Width /\ Width - i \in 0 .. Width
          /\ (Width - (i - 1)) - 1 = Width - i
      BY ONLY <1>0, i \in 1 .. Width
    <3>2. v[i - 1] = q[Width - (i - 1)]
      BY ONLY <2>2
    <3>3. q[Width - (i - 1)] = Quot(q[Width - i]) /\ q[Width - i] \in Nat
      BY ONLY <1>1, <3>1 DEF Quotients
    <3>4. v[i] = Quot(q[Width - i]) * Base + Digit(q[Width - i])
      BY ONLY <1>4, <3>2, <3>3, i \in 1 .. Width
    <3>5. v[i] = q[Width - i]
      BY ONLY <3>3, <3>4, Division
    <3> QED BY ONLY <3>1, <3>5
  <2> HIDE DEF S
  <2>3. \A i \in 0 .. Width : i \in S
    BY ONLY <1>0, <2>1, <2>2, InductionUpTo
  <2> QED BY <2>3 DEF S
<1>8. v[Width] = q[0]
  <2>1. Width \in 0 .. Width /\ Width - Width = 0
    BY <1>0
  <2> QED BY ONLY <1>7, <2>1
<1> QED BY ONLY <1>1, <1>4, <1>8 DEF Quotients

-----------------------------------------------------------------------------
(* Cutting and joining streams.                                            *)

Cat(a, b) == a \o b

\* t holds a and then b.
Joins(t, a, b) ==
    /\ Len(t) = Len(a) + Len(b)
    /\ \A i \in 1 .. Len(a) : t[i] = a[i]
    /\ \A i \in 1 .. Len(b) : t[Len(a) + i] = b[i]

\* What a joined stream holds.
LEMMA CatFacts ==
    ASSUME NEW S, NEW a \in Seq(S), NEW b \in Seq(S)
    PROVE  Cat(a, b) \in Seq(S) /\ Joins(Cat(a, b), a, b)
<1>1. /\ Cat(a, b) \in Seq(S) /\ Len(Cat(a, b)) = Len(a) + Len(b)
      /\ \A i \in 1 .. Len(a) + Len(b) :
            Cat(a, b)[i] = IF i <= Len(a) THEN a[i] ELSE b[i - Len(a)]
  BY ConcatProperties DEF Cat
<1>2. Len(a) \in Nat /\ Len(b) \in Nat
  OBVIOUS
<1>3. ASSUME NEW i \in 1 .. Len(a) PROVE Cat(a, b)[i] = a[i]
  <2>1. i \in 1 .. Len(a) + Len(b) /\ i <= Len(a)
    BY <1>2
  <2> QED BY ONLY <1>1, <2>1
<1>4. ASSUME NEW i \in 1 .. Len(b) PROVE Cat(a, b)[Len(a) + i] = b[i]
  <2>1. Len(a) + i \in 1 .. Len(a) + Len(b) /\ ~(Len(a) + i <= Len(a)) /\ (Len(a) + i) - Len(a) = i
    BY <1>2
  <2> QED BY ONLY <1>1, <2>1
<1> QED BY ONLY <1>1, <1>3, <1>4 DEF Joins

\* What the parts of a cut stream hold.
LEMMA CutFacts ==
    ASSUME NEW S, NEW s \in Seq(S), NEW k \in 0 .. Len(s)
    PROVE  /\ First(s, k) \in Seq(S) /\ Len(First(s, k)) = k
           /\ \A i \in 1 .. k : First(s, k)[i] = s[i]
           /\ Drop(s, k) \in Seq(S) /\ Len(Drop(s, k)) = Len(s) - k
           /\ \A i \in 1 .. Len(s) - k : Drop(s, k)[i] = s[k + i]
<1>1. /\ First(s, k) \in Seq(S) /\ Len(First(s, k)) = k
      /\ \A i \in 1 .. k : First(s, k)[i] = s[i]
  BY DEF First
<1>2. /\ Drop(s, k) \in Seq(S) /\ Len(Drop(s, k)) = Len(s) - k
      /\ \A i \in 1 .. Len(s) - k : Drop(s, k)[i] = s[k + i]
  BY DEF Drop
<1> QED BY ONLY <1>1, <1>2

\* Joining is associative.
LEMMA CatAssociative ==
    ASSUME NEW S, NEW a \in Seq(S), NEW b \in Seq(S), NEW c \in Seq(S)
    PROVE  Cat(Cat(a, b), c) = Cat(a, Cat(b, c))
BY ConcatAssociative DEF Cat

\* The empty stream adds nothing.
LEMMA CatEmpty ==
    ASSUME NEW S, NEW a \in Seq(S)
    PROVE  Cat(a, <<>>) = a /\ Cat(<<>>, a) = a
BY ConcatEmptySeq DEF Cat

\* The parts of a cut stream make it up again.
LEMMA CatCut ==
    ASSUME NEW S, NEW s \in Seq(S), NEW k \in 0 .. Len(s)
    PROVE  Cat(First(s, k), Drop(s, k)) = s
<1> DEFINE a == First(s, k)
           b == Drop(s, k)
<1>1. /\ a \in Seq(S) /\ Len(a) = k /\ \A i \in 1 .. k : a[i] = s[i]
      /\ b \in Seq(S) /\ Len(b) = Len(s) - k /\ \A i \in 1 .. Len(s) - k : b[i] = s[k + i]
  BY CutFacts
<1>2. Len(s) \in Nat /\ k \in Nat /\ k + (Len(s) - k) = Len(s)
  OBVIOUS
<1> HIDE DEF a, b
<1> DEFINE t == Cat(a, b)
<1>a. t \in Seq(S) /\ Joins(t, a, b)
  BY ONLY <1>1, CatFacts
<1> HIDE DEF t
<1>3. /\ t \in Seq(S) /\ Len(t) = Len(s)
      /\ \A i \in 1 .. k : t[i] = a[i]
      /\ \A i \in 1 .. Len(s) - k : t[k + i] = b[i]
  BY ONLY <1>1, <1>2, <1>a DEF Joins
<1>4. ASSUME NEW i \in 1 .. Len(s) PROVE t[i] = s[i]
  <2>1. CASE i <= k
    BY ONLY <1>1, <1>2, <1>3, <2>1, i \in 1 .. Len(s)
  <2>2. CASE ~(i <= k)
    <3>1. i - k \in 1 .. Len(s) - k /\ k + (i - k) = i
      BY ONLY <1>2, <2>2, i \in 1 .. Len(s)
    <3>2. t[k + (i - k)] = b[i - k] /\ b[i - k] = s[k + (i - k)]
      BY ONLY <1>1, <1>3, <3>1
    <3> QED BY ONLY <3>1, <3>2
  <2> QED BY <2>1, <2>2
<1> QED BY ONLY <1>3, <1>4, s \in Seq(S), SeqEqual DEF a, b, t

\* A cut inside the first of two joined streams leaves the second alone.
LEMMA CutFirst ==
    ASSUME NEW S, NEW a \in Seq(S), NEW b \in Seq(S), NEW k \in 0 .. Len(a)
    PROVE  First(Cat(a, b), k) = First(a, k) /\ Drop(Cat(a, b), k) = Cat(Drop(a, k), b)
<1> DEFINE t == Cat(a, b)
           d == Drop(a, k)
           u == Cat(d, b)
<1>1. Len(a) \in Nat /\ Len(b) \in Nat /\ k \in Nat
  OBVIOUS
<1>a. t \in Seq(S) /\ Joins(t, a, b)
  BY CatFacts
<1> HIDE DEF t
<1>2. /\ t \in Seq(S) /\ Len(t) = Len(a) + Len(b)
      /\ \A i \in 1 .. Len(a) : t[i] = a[i]
      /\ \A i \in 1 .. Len(b) : t[Len(a) + i] = b[i]
  BY ONLY <1>a DEF Joins
<1>3. k \in 0 .. Len(t)
  BY ONLY <1>1, <1>2, k \in 0 .. Len(a)
<1>4. /\ First(t, k) \in Seq(S) /\ Len(First(t, k)) = k
      /\ \A i \in 1 .. k : First(t, k)[i] = t[i]
      /\ Drop(t, k) \in Seq(S) /\ Len(Drop(t, k)) = Len(t) - k
      /\ \A i \in 1 .. Len(t) - k : Drop(t, k)[i] = t[k + i]
  BY ONLY <1>2, <1>3, CutFacts
<1>5. /\ First(a, k) \in Seq(S) /\ Len(First(a, k)) = k
      /\ \A i \in 1 .. k : First(a, k)[i] = a[i]
      /\ d \in Seq(S) /\ Len(d) = Len(a) - k
      /\ \A i \in 1 .. Len(a) - k : d[i] = a[k + i]
  BY CutFacts
<1>6. First(t, k) = First(a, k)
  <2>1. \A i \in 1 .. k : i \in 1 .. Len(a)
    BY <1>1
  <2>2. \A i \in 1 .. k : First(t, k)[i] = First(a, k)[i]
    BY ONLY <1>2, <1>4, <1>5, <2>1
  <2> QED BY ONLY <1>4, <1>5, <2>2, SeqEqual
<1> HIDE DEF d
<1>b. u \in Seq(S) /\ Joins(u, d, b)
  BY ONLY <1>5, b \in Seq(S), CatFacts
<1> HIDE DEF u
<1>7. /\ u \in Seq(S) /\ Len(u) = Len(d) + Len(b)
      /\ \A i \in 1 .. Len(d) : u[i] = d[i]
      /\ \A i \in 1 .. Len(b) : u[Len(d) + i] = b[i]
  BY ONLY <1>b DEF Joins
<1>8. ASSUME NEW i \in 1 .. Len(t) - k PROVE Drop(t, k)[i] = u[i]
  <2>1. CASE i <= Len(d)
    <3>1. i \in 1 .. Len(d) /\ i \in 1 .. Len(a) - k /\ k + i \in 1 .. Len(a)
      BY ONLY <1>1, <1>5, <1>8, <2>1
    <3> QED BY ONLY <1>2, <1>4, <1>5, <1>7, <1>8, <3>1
  <2>2. CASE ~(i <= Len(d))
    <3>1. i - Len(d) \in 1 .. Len(b) /\ Len(d) + (i - Len(d)) = i /\ Len(a) + (i - Len(d)) = k + i
      BY ONLY <1>1, <1>2, <1>5, <1>8, <2>2, k \in 0 .. Len(a)
    <3>2. u[i] = b[i - Len(d)]
      BY ONLY <1>7, <3>1
    <3>3. t[k + i] = b[i - Len(d)]
      BY ONLY <1>2, <3>1
    <3> QED BY ONLY <1>4, <1>8, <3>2, <3>3
  <2> QED BY <2>1, <2>2
<1>9. Len(Drop(t, k)) = Len(u) /\ Len(Drop(t, k)) = Len(t) - k
  BY ONLY <1>1, <1>2, <1>4, <1>5, <1>7, k \in 0 .. Len(a)
<1>10. Drop(t, k) = u
  BY ONLY <1>4, <1>7, <1>8, <1>9, SeqEqual
<1> QED BY ONLY <1>6, <1>10 DEF t, u, d

\* A cut between two joined streams gives them back.
LEMMA CutBetween ==
    ASSUME NEW S, NEW a \in Seq(S), NEW b \in Seq(S)
    PROVE  First(Cat(a, b), Len(a)) = a /\ Drop(Cat(a, b), Len(a)) = b
<1>1. Len(a) \in 0 .. Len(a)
  OBVIOUS
<1>2. First(Cat(a, b), Len(a)) = First(a, Len(a)) /\ Drop(Cat(a, b), Len(a)) = Cat(Drop(a, Len(a)), b)
  BY ONLY <1>1, CutFirst, a \in Seq(S), b \in Seq(S)
<1>3. First(a, Len(a)) = a
  BY SubSeqFull DEF First
<1>4. Drop(a, Len(a)) = <<>>
  BY SubSeqEmpty DEF Drop
<1>5. Cat(<<>>, b) = b
  BY CatEmpty
<1> QED BY ONLY <1>2, <1>3, <1>4, <1>5

-----------------------------------------------------------------------------
(* The stream of several items.                                            *)

Bytes == Seq(Byte)

\* f holds the bytes of the first elements of ss.
Flattened(f, ss) ==
    /\ f \in [0 .. Len(ss) -> Bytes] /\ f[0] = <<>>
    /\ \A n \in 1 .. Len(ss) : f[n] = Cat(f[n - 1], ss[n])

\* FlattenSeq computes the last of them.
LEMMA FlattenValue ==
    ASSUME NEW ss \in Seq(Bytes)
    PROVE  \E f : Flattened(f, ss) /\ FlattenSeq(ss) = f[Len(ss)]
<1> DEFINE m == Len(ss)
           Extend(n, y) == IF n \in 1 .. m THEN Cat(y, ss[n]) ELSE y
           step == [n \in Nat |-> [y \in Bytes |-> Extend(n, y)]]
<1>0. m \in Nat /\ <<>> \in Bytes /\ \A n \in 1 .. m : ss[n] \in Bytes
  BY DEF Bytes
<1> HIDE DEF m
<1>1. \A y, z \in Bytes : Cat(y, z) \in Bytes
  BY ONLY CatFacts DEF Bytes
<1>2. \A n \in Nat : \A y \in Bytes : Extend(n, y) \in Bytes
  BY ONLY <1>0, <1>1
<1> HIDE DEF Extend
<1>3. step \in [Nat -> [Bytes -> Bytes]]
  BY ONLY <1>2
<1>4. PICK f \in [0 .. m -> Bytes] : Recursion(f, <<>>, step, m)
  <2> HIDE DEF step
  <2> QED BY ONLY <1>0, <1>3, RecursionExists
<1>5. f[0] = <<>> /\ \A n \in 1 .. m : f[n] = Cat(f[n - 1], ss[n])
  <2>1. f[0] = <<>> /\ \A n \in 1 .. m : f[n] = step[n][f[n - 1]]
    BY ONLY <1>4 DEF Recursion
  <2>2. \A n \in 1 .. m : n \in Nat /\ n - 1 \in 0 .. m
    BY <1>0
  <2>3. \A n \in 1 .. m : f[n] = Extend(n, f[n - 1])
    BY ONLY <2>1, <2>2, f \in [0 .. m -> Bytes]
  <2> QED BY ONLY <2>1, <2>3 DEF Extend
<1>6. Flattened(f, ss)
  BY ONLY <1>5, f \in [0 .. m -> Bytes] DEF Flattened, m
<1>7. FlattenSeq(ss) = f[m]
  <2>1. CASE m = 0
    <3>1. ss = <<>>
      BY <2>1 DEF m
    <3>2. FlattenSeq(ss) = ss
      BY ONLY <2>1 DEF FlattenSeq, m
    <3> QED BY ONLY <1>5, <2>1, <3>1, <3>2
  <2>2. CASE m # 0
    <3> DEFINE Eq(g) == g = [i \in 1 .. m |-> IF i = 1 THEN ss[i] ELSE Cat(g[i - 1], ss[i])]
               c == CHOOSE g : Eq(g)
               g == [i \in 1 .. m |-> f[i]]
    <3>1. 1 \in 1 .. m /\ \A i \in 1 .. m : i # 1 => i - 1 \in 1 .. m
      BY ONLY <1>0, <2>2
    <3>2. f[1] = ss[1]
      <4>1. f[1] = Cat(<<>>, ss[1])
        BY ONLY <1>5, <3>1
      <4>2. ss[1] \in Seq(Byte)
        BY ONLY <1>0, <3>1 DEF Bytes
      <4> QED BY ONLY <4>1, <4>2, CatEmpty
    <3>3. Eq(g)
      <4>1. \A i \in 1 .. m : g[i] = IF i = 1 THEN ss[i] ELSE Cat(g[i - 1], ss[i])
        BY ONLY <1>5, <3>1, <3>2
      <4> QED BY ONLY <4>1
    <3>4. Eq(c)
      <4> HIDE DEF g
      <4> QED BY ONLY <3>3
    <3>5. FlattenSeq(ss) = c[m]
      BY <2>2 DEF FlattenSeq, Cat, m
    <3> HIDE DEF c
    <3>6. \A i \in 1 .. m : c[i] = IF i = 1 THEN ss[i] ELSE Cat(c[i - 1], ss[i])
      BY ONLY <3>4
    <3>e. PICK e : e = [i \in 0 .. m |-> IF i = 0 THEN <<>> ELSE c[i]]
      OBVIOUS
    <3>7. e[0] = f[0]
      BY ONLY <1>0, <1>5, <3>e
    <3>8. ASSUME NEW n \in 1 .. m, e[n - 1] = f[n - 1] PROVE e[n] = f[n]
      <4>1. e[n] = c[n]
        BY ONLY <3>e, n \in 1 .. m
      <4>2. CASE n = 1
        BY ONLY <3>2, <3>6, <4>1, <4>2, n \in 1 .. m
      <4>3. CASE n # 1
        <5>1. n - 1 \in 1 .. m
          BY ONLY <3>1, <4>3, n \in 1 .. m
        <5>2. e[n - 1] = c[n - 1]
          BY ONLY <3>e, <5>1
        <5> QED BY ONLY <1>5, <3>6, <3>8, <4>1, <4>3, <5>2
      <4> QED BY <4>2, <4>3
    <3>9. e[m] = c[m] /\ m \in 0 .. m
      BY ONLY <1>0, <2>2, <3>e
    <3>10. \A n \in 0 .. m : e[n] = f[n]
      <4>1. \A n \in 1 .. m : e[n - 1] = f[n - 1] => e[n] = f[n]
        BY ONLY <3>8
      <4>2. m \in Nat
        BY <1>0
      <4> DEFINE S == {n \in 0 .. m : e[n] = f[n]}
      <4>3. 0 \in S
        BY ONLY <3>7, <4>2
      <4>4. ASSUME NEW n \in 1 .. m, n - 1 \in S PROVE n \in S
        <5>1. n \in 0 .. m /\ e[n] = f[n]
          BY ONLY <4>1, <4>2, <4>4
        <5> QED BY ONLY <5>1
      <4> HIDE DEF S
      <4>5. \A n \in 0 .. m : n \in S
        BY ONLY <4>2, <4>3, <4>4, InductionUpTo
      <4> QED BY ONLY <4>5 DEF S
    <3> QED BY ONLY <3>5, <3>9, <3>10
  <2> QED BY <2>1, <2>2
<1> QED BY ONLY <1>6, <1>7 DEF m

\* The concatenation of streams is a stream.
LEMMA FlattenTyped == ASSUME NEW ss \in Seq(Bytes) PROVE FlattenSeq(ss) \in Bytes
<1>1. Len(ss) \in 0 .. Len(ss)
  OBVIOUS
<1> QED BY ONLY <1>1, FlattenValue, ss \in Seq(Bytes) DEF Flattened

\* One more stream at the end.
LEMMA FlattenAppend ==
    ASSUME NEW ss \in Seq(Bytes), NEW x \in Bytes
    PROVE  FlattenSeq(Append(ss, x)) = Cat(FlattenSeq(ss), x)
<1> DEFINE m == Len(ss)
           tt == Append(ss, x)
<1>0. m \in Nat
  OBVIOUS
<1>1. /\ tt \in Seq(Bytes) /\ Len(tt) = m + 1 /\ tt[m + 1] = x
      /\ \A i \in 1 .. m : tt[i] = ss[i]
  BY AppendProperties
<1>2. PICK f : Flattened(f, ss) /\ FlattenSeq(ss) = f[m]
  BY FlattenValue
<1> HIDE DEF tt
<1>3. PICK g : Flattened(g, tt) /\ FlattenSeq(tt) = g[Len(tt)]
  BY ONLY <1>1, FlattenValue
<1> HIDE DEF m
<1>4. f[0] = <<>> /\ \A n \in 1 .. m : f[n] = Cat(f[n - 1], ss[n])
  BY ONLY <1>2 DEF Flattened, m
<1>5. g[0] = <<>> /\ \A n \in 1 .. m + 1 : g[n] = Cat(g[n - 1], tt[n])
  BY ONLY <1>1, <1>3 DEF Flattened
<1>6. ASSUME NEW n \in 1 .. m, f[n - 1] = g[n - 1] PROVE f[n] = g[n]
  <2>1. n \in 1 .. m + 1
    BY <1>0
  <2> QED BY ONLY <1>1, <1>4, <1>5, <1>6, <2>1
<1>7. f[m] = g[m]
  <2>1. f[0] = g[0] /\ m \in 0 .. m
    BY ONLY <1>0, <1>4, <1>5
  <2> DEFINE S == {n \in 0 .. m : f[n] = g[n]}
  <2>2. 0 \in S
    BY ONLY <1>0, <2>1
  <2>3. ASSUME NEW n \in 1 .. m, n - 1 \in S PROVE n \in S
    <3>1. n \in 0 .. m /\ f[n] = g[n]
      BY ONLY <1>0, <1>6, <2>3
    <3> QED BY ONLY <3>1
  <2> HIDE DEF S
  <2>4. \A n \in 0 .. m : n \in S
    BY ONLY <1>0, <2>2, <2>3, InductionUpTo
  <2> QED BY ONLY <2>1, <2>4 DEF S
<1>8. g[m + 1] = Cat(g[m], x)
  <2>1. m + 1 \in 1 .. m + 1 /\ (m + 1) - 1 = m
    BY <1>0
  <2>2. g[m + 1] = Cat(g[(m + 1) - 1], tt[m + 1])
    BY ONLY <1>5, <2>1
  <2> QED BY ONLY <1>1, <2>1, <2>2
<1> QED BY ONLY <1>1, <1>2, <1>3, <1>7, <1>8 DEF tt

\* The first stream and the others; tt is what follows the first of ss.
LEMMA FlattenFirst ==
    ASSUME NEW ss \in Seq(Bytes), NEW tt \in Seq(Bytes), Len(ss) = Len(tt) + 1,
           \A i \in 1 .. Len(tt) : tt[i] = ss[i + 1]
    PROVE  FlattenSeq(ss) = Cat(ss[1], FlattenSeq(tt))
<1> DEFINE m == Len(tt)
<1>0. m \in Nat /\ 1 \in 1 .. m + 1 /\ Len(ss) = m + 1
  OBVIOUS
<1>1. ss[1] \in Bytes /\ \A i \in 1 .. m : tt[i] \in Bytes
  BY <1>0
<1>2. PICK f : Flattened(f, ss) /\ FlattenSeq(ss) = f[m + 1]
  BY ONLY <1>0, ss \in Seq(Bytes), FlattenValue
<1>3. PICK g : Flattened(g, tt) /\ FlattenSeq(tt) = g[m]
  BY FlattenValue
<1>4. f[0] = <<>> /\ \A n \in 1 .. m + 1 : f[n] = Cat(f[n - 1], ss[n])
  BY ONLY <1>0, <1>2 DEF Flattened
<1>5. /\ g \in [0 .. m -> Bytes] /\ g[0] = <<>>
      /\ \A n \in 1 .. m : g[n] = Cat(g[n - 1], tt[n])
  BY ONLY <1>3 DEF Flattened
<1>6. \A i \in 1 .. m : tt[i] = ss[i + 1]
  OBVIOUS
<1> HIDE DEF m
<1> DEFINE S == {k \in 0 .. m : f[k + 1] = Cat(ss[1], g[k])}
<1>7. 0 \in S
  <2>1. f[1] = Cat(f[0], ss[1])
    BY ONLY <1>0, <1>4
  <2>2. Cat(<<>>, ss[1]) = Cat(ss[1], <<>>)
    BY ONLY <1>1, CatEmpty DEF Bytes
  <2>3. f[0 + 1] = Cat(ss[1], g[0])
    BY ONLY <1>4, <1>5, <2>1, <2>2
  <2> QED BY ONLY <1>0, <2>3
<1>8. ASSUME NEW k \in 1 .. m, k - 1 \in S PROVE k \in S
  <2>1. k + 1 \in 1 .. m + 1 /\ (k + 1) - 1 = (k - 1) + 1 /\ k \in 0 .. m /\ k - 1 \in 0 .. m
    BY ONLY <1>0, k \in 1 .. m
  <2>2. f[k + 1] = Cat(f[(k - 1) + 1], tt[k])
    BY ONLY <1>4, <1>6, <2>1, k \in 1 .. m
  <2>3. f[(k - 1) + 1] = Cat(ss[1], g[k - 1])
    BY ONLY <1>8
  <2>4. g[k - 1] \in Bytes /\ tt[k] \in Bytes /\ g[k] = Cat(g[k - 1], tt[k])
    BY ONLY <1>1, <1>5, <2>1, k \in 1 .. m
  <2>5. Cat(Cat(ss[1], g[k - 1]), tt[k]) = Cat(ss[1], Cat(g[k - 1], tt[k]))
    BY ONLY <1>1, <2>4, CatAssociative DEF Bytes
  <2>6. f[k + 1] = Cat(ss[1], g[k])
    BY ONLY <2>2, <2>3, <2>4, <2>5
  <2> QED BY ONLY <2>1, <2>6
<1> HIDE DEF S
<1>9. \A k \in 0 .. m : k \in S
  BY ONLY <1>0, <1>7, <1>8, InductionUpTo
<1>10. m \in 0 .. m
  BY <1>0
<1>11. f[m + 1] = Cat(ss[1], g[m])
  BY ONLY <1>9, <1>10 DEF S
<1> QED BY ONLY <1>2, <1>3, <1>11

-----------------------------------------------------------------------------
(* Frames.                                                                 *)

\* A payload belongs to one message of its id, and has at most one byte.
LEMMA MessageFacts ==
    ASSUME NEW m \in Message
    PROVE  /\ m.id \in 1 .. 8
           /\ Payload(m) \in Bytes /\ Len(Payload(m)) <= 1
           /\ m.id \in {2, 5, 7} => m = [id |-> m.id]
           /\ m.id \notin {2, 5, 7} =>
                 \A o \in Message : o.id = m.id /\ Payload(o) = Payload(m) => o = m
<1>0. \A d \in 0 .. 3 : <<d>> \in Bytes /\ Len(<<d>>) = 1
  <2>1. Base \in Nat /\ Base > 3
    BY WireAssumption
  <2>2. \A d \in 0 .. 3 : d \in Byte
    BY <2>1 DEF Byte
  <2> QED BY ONLY <2>2 DEF Bytes
<1>1. <<>> \in Bytes /\ Len(<<>>) = 0
  BY DEF Bytes
<1>2. ASSUME NEW o \in [id : {2, 5, 7}] PROVE o = [id |-> o.id] /\ o.id \in {2, 5, 7} /\ Payload(o) = <<>>
  BY <1>2 DEF Payload
<1>3. ASSUME NEW o \in [id : {1, 3, 4}, fields : {0}]
      PROVE  o = [id |-> o.id, fields |-> 0] /\ o.id \in {1, 3, 4} /\ Payload(o) = <<0>>
  BY <1>3 DEF Payload
<1>4. ASSUME NEW o \in [id : {6}, issue : Issues]
      PROVE  /\ o = [id |-> 6, issue |-> o.issue] /\ o.id = 6 /\ o.issue \in Issues
             /\ Payload(o) = <<IssueCode[o.issue]>>
  BY <1>4 DEF Payload
<1>5. ASSUME NEW o \in [id : {8}, ready : BOOLEAN]
      PROVE  /\ o = [id |-> 8, ready |-> o.ready] /\ o.id = 8 /\ o.ready \in BOOLEAN
             /\ Payload(o) = <<IF o.ready THEN 1 ELSE 0>>
  <2>1. o = [id |-> 8, ready |-> o.ready] /\ o.id = 8
    BY <1>5
  <2>2. o.ready \in BOOLEAN
    BY <1>5
  <2>3. Payload(o) = <<IF o.ready THEN 1 ELSE 0>>
    BY <2>1 DEF Payload
  <2> QED BY ONLY <2>1, <2>2, <2>3
<1>6. /\ \A i \in Issues : IssueCode[i] \in 0 .. 3
      /\ \A i, j \in Issues : IssueCode[i] = IssueCode[j] => i = j
  BY DEF Issues, IssueCode
<1>7. \A o \in Message : \/ o \in [id : {2, 5, 7}] \/ o \in [id : {1, 3, 4}, fields : {0}]
                         \/ o \in [id : {6}, issue : Issues] \/ o \in [id : {8}, ready : BOOLEAN]
  BY DEF Message
<1>8. CASE m \in [id : {2, 5, 7}]
  <2>1. m = [id |-> m.id] /\ m.id \in {2, 5, 7} /\ Payload(m) = <<>>
    BY ONLY <1>2, <1>8
  <2> QED BY ONLY <1>1, <2>1
<1>9. CASE m \in [id : {1, 3, 4}, fields : {0}]
  <2>1. m = [id |-> m.id, fields |-> 0] /\ m.id \in {1, 3, 4} /\ Payload(m) = <<0>>
    BY ONLY <1>3, <1>9
  <2>2. ASSUME NEW o \in Message, o.id = m.id PROVE o = m
    <3>1. o \in [id : {1, 3, 4}, fields : {0}]
      BY ONLY <1>2, <1>4, <1>5, <1>7, <2>1, <2>2
    <3> QED BY ONLY <1>3, <2>1, <2>2, <3>1
  <2>3. 0 \in 0 .. 3
    OBVIOUS
  <2> QED BY ONLY <1>0, <2>1, <2>2, <2>3
<1>10. CASE m \in [id : {6}, issue : Issues]
  <2>1. /\ m = [id |-> 6, issue |-> m.issue] /\ m.id = 6 /\ m.issue \in Issues
        /\ Payload(m) = <<IssueCode[m.issue]>>
    BY ONLY <1>4, <1>10
  <2>2. ASSUME NEW o \in Message, o.id = m.id, Payload(o) = Payload(m) PROVE o = m
    <3>1. o \in [id : {6}, issue : Issues]
      BY ONLY <1>2, <1>3, <1>5, <1>7, <2>1, <2>2
    <3>2. /\ o = [id |-> 6, issue |-> o.issue] /\ o.issue \in Issues
          /\ Payload(o) = <<IssueCode[o.issue]>>
      BY ONLY <1>4, <3>1
    <3>3. IssueCode[o.issue] = IssueCode[m.issue]
      BY ONLY <2>1, <2>2, <3>2
    <3>4. o.issue = m.issue
      BY ONLY <1>6, <2>1, <3>2, <3>3
    <3> QED BY ONLY <2>1, <3>2, <3>4
  <2>3. IssueCode[m.issue] \in 0 .. 3
    BY ONLY <1>6, <2>1
  <2> QED BY ONLY <1>0, <2>1, <2>2, <2>3
<1>11. CASE m \in [id : {8}, ready : BOOLEAN]
  <2>1. /\ m = [id |-> 8, ready |-> m.ready] /\ m.id = 8 /\ m.ready \in BOOLEAN
        /\ Payload(m) = <<IF m.ready THEN 1 ELSE 0>>
    BY ONLY <1>5, <1>11
  <2>2. ASSUME NEW o \in Message, o.id = m.id, Payload(o) = Payload(m) PROVE o = m
    <3>1. o \in [id : {8}, ready : BOOLEAN]
      BY ONLY <1>2, <1>3, <1>4, <1>7, <2>1, <2>2
    <3>2. /\ o = [id |-> 8, ready |-> o.ready] /\ o.ready \in BOOLEAN
          /\ Payload(o) = <<IF o.ready THEN 1 ELSE 0>>
      BY ONLY <1>5, <3>1
    <3>3. (IF o.ready THEN 1 ELSE 0) = IF m.ready THEN 1 ELSE 0
      BY ONLY <2>1, <2>2, <3>2
    <3>4. o.ready = m.ready
      BY ONLY <2>1, <3>2, <3>3
    <3> QED BY ONLY <2>1, <3>2, <3>4
  <2>3. (IF m.ready THEN 1 ELSE 0) \in 0 .. 3
    OBVIOUS
  <2> QED BY ONLY <1>0, <2>1, <2>2, <2>3
<1> QED BY ONLY <1>7, <1>8, <1>9, <1>10, <1>11, m \in Message

\* The id and the payload of a message.
Body(m) == Cat(ToBytes(m.id), Payload(m))

\* A number in front of a stream is read back, and the stream is left.
LEMMA WordInFront ==
    ASSUME NEW n \in Nat, n < Pow[Width], NEW t \in Bytes
    PROVE  /\ Cat(ToBytes(n), t) \in Bytes
           /\ Len(Cat(ToBytes(n), t)) = Width + Len(t)
           /\ Word(Cat(ToBytes(n), t)) = n
           /\ Drop(Cat(ToBytes(n), t), Width) = t
<1>1. ToBytes(n) \in Seq(Byte) /\ Len(ToBytes(n)) = Width /\ t \in Seq(Byte)
  BY ToBytesTyped DEF Bytes
<1>2. Cat(ToBytes(n), t) \in Seq(Byte) /\ Joins(Cat(ToBytes(n), t), ToBytes(n), t)
  BY ONLY <1>1, CatFacts
<1>3. /\ First(Cat(ToBytes(n), t), Width) = ToBytes(n)
      /\ Drop(Cat(ToBytes(n), t), Width) = t
  BY ONLY <1>1, CutBetween
<1>4. FromBytes(ToBytes(n)) = n
  BY RoundTrip
<1> QED BY ONLY <1>1, <1>2, <1>3, <1>4 DEF Bytes, Joins, Word

\* Message::from_wire_without_the_length_prefix undoes to_wire_message.
LEMMA Decoded ==
    ASSUME NEW m \in Message
    PROVE  Body(m) \in Bytes /\ Len(Body(m)) = Width + Len(Payload(m)) /\ FromWire(Body(m)) = m
<1>1. /\ m.id \in 1 .. 8 /\ Payload(m) \in Bytes
      /\ m.id \in {2, 5, 7} => m = [id |-> m.id]
      /\ m.id \notin {2, 5, 7} =>
            \A o \in Message : o.id = m.id /\ Payload(o) = Payload(m) => o = m
  BY MessageFacts
<1>2. m.id \in Nat /\ m.id < Pow[Width]
  <2>1. Width \in 0 .. Width /\ 8 < Pow[Width]
    BY WireAssumption
  <2>2. Pow[Width] \in Nat
    BY ONLY <2>1, PowFacts
  <2> QED BY ONLY <1>1, <2>1, <2>2
<1>3. /\ Body(m) \in Bytes /\ Len(Body(m)) = Width + Len(Payload(m))
      /\ Word(Body(m)) = m.id /\ Drop(Body(m), Width) = Payload(m)
  BY ONLY <1>1, <1>2, WordInFront DEF Body
<1>4. ~(Len(Body(m)) < Width)
  <2>1. Len(Payload(m)) \in Nat /\ Width \in Nat
    BY <1>1, WireAssumption DEF Bytes
  <2> QED BY ONLY <1>3, <2>1
<1>5. CASE m.id \in {2, 5, 7}
  BY ONLY <1>1, <1>3, <1>4, <1>5 DEF FromWire
<1>6. CASE m.id \notin {2, 5, 7}
  <2> DEFINE D == {o \in Message : o.id = m.id /\ Payload(o) = Payload(m)}
  <2>1. m \in D /\ \A o \in D : o = m
    BY ONLY <1>1, <1>6, m \in Message
  <2>2. (CHOOSE o \in D : TRUE) = m /\ D # {}
    <3> HIDE DEF D
    <3> QED BY ONLY <2>1
  <2>3. m.id \in {1, 3, 4, 6, 8}
    BY ONLY <1>1, <1>6
  <2>4. FromWire(Body(m)) = IF D = {} THEN Error("Parse") ELSE CHOOSE o \in D : TRUE
    BY ONLY <1>3, <1>4, <1>6, <2>3 DEF FromWire
  <2> HIDE DEF D
  <2> QED BY ONLY <1>3, <2>2, <2>4
<1> QED BY <1>3, <1>5, <1>6

\* The reader of a stream that begins with a message finds that message, and
\* what follows it.
LEMMA FrameInFront ==
    ASSUME NEW m \in Message, NEW t \in Bytes
    PROVE  /\ Cat(ToWire(m), t) \in Bytes /\ ToWire(m) \in Bytes
           /\ FromWire(FrameOf(Cat(ToWire(m), t))) = m
           /\ After(Cat(ToWire(m), t)) = t
<1> DEFINE n == Width + Len(Payload(m))
           s == Cat(ToWire(m), t)
<1>1. Payload(m) \in Bytes /\ Len(Payload(m)) <= 1 /\ m.id \in Nat
  BY MessageFacts
<1>2. n \in Nat /\ n < Pow[Width]
  <2>1. Len(Payload(m)) \in Nat
    BY <1>1 DEF Bytes
  <2>2. /\ Width \in 0 .. Width /\ Width \in Nat /\ Limit \in Nat /\ Width < Limit
        /\ Limit < Pow[Width]
    BY WireAssumption
  <2>3. Pow[Width] \in Nat
    BY ONLY <2>2, PowFacts
  <2> QED BY ONLY <1>1, <2>1, <2>2, <2>3
<1>3. Body(m) \in Bytes /\ Len(Body(m)) = n /\ FromWire(Body(m)) = m
  BY Decoded
<1>4. ToWire(m) = Cat(ToBytes(n), Body(m))
  <2>1. ToBytes(n) \in Seq(Byte) /\ ToBytes(m.id) \in Seq(Byte) /\ Payload(m) \in Seq(Byte)
    BY ONLY <1>1, <1>2, ToBytesTyped DEF Bytes
  <2>2. Cat(Cat(ToBytes(n), ToBytes(m.id)), Payload(m)) = Cat(ToBytes(n), Cat(ToBytes(m.id), Payload(m)))
    BY ONLY <2>1, CatAssociative
  <2> QED BY ONLY <2>2 DEF ToWire, Body, Cat
<1> HIDE DEF n
<1>5. ToWire(m) \in Bytes
  BY ONLY <1>2, <1>3, <1>4, WordInFront
<1>6. Cat(Body(m), t) \in Bytes
  BY ONLY <1>3, t \in Bytes, CatFacts DEF Bytes
<1>7. s = Cat(ToBytes(n), Cat(Body(m), t))
  <2>1. ToBytes(n) \in Seq(Byte) /\ Body(m) \in Seq(Byte) /\ t \in Seq(Byte)
    BY ONLY <1>2, <1>3, t \in Bytes, ToBytesTyped DEF Bytes
  <2> QED BY ONLY <1>4, <2>1, CatAssociative
<1> HIDE DEF s
<1>8. s \in Bytes /\ Word(s) = n /\ Drop(s, Width) = Cat(Body(m), t)
  BY ONLY <1>2, <1>6, <1>7, WordInFront
<1>9. First(Cat(Body(m), t), n) = Body(m) /\ Drop(Cat(Body(m), t), n) = t
  BY ONLY <1>3, t \in Bytes, CutBetween DEF Bytes
<1> QED BY ONLY <1>3, <1>5, <1>8, <1>9 DEF s, FrameOf, After

\* The first frame of the stream is all there.
Complete(s) == Width <= Len(s) /\ Width + Word(s) <= Len(s)

\* A length is a natural, and a stream follows it.
LEMMA WordFacts ==
    ASSUME NEW s \in Bytes, Width <= Len(s)
    PROVE  Word(s) \in Nat /\ Drop(s, Width) \in Bytes /\ Len(Drop(s, Width)) = Len(s) - Width
<1>1. Width \in 0 .. Len(s) /\ s \in Seq(Byte)
  BY WireAssumption DEF Bytes
<1>2. /\ First(s, Width) \in Seq(Byte) /\ Drop(s, Width) \in Seq(Byte)
      /\ Len(Drop(s, Width)) = Len(s) - Width
  BY ONLY <1>1, CutFacts
<1>3. Word(s) \in Nat
  BY ONLY <1>2, FromBytesNat DEF Word
<1> QED BY ONLY <1>2, <1>3 DEF Bytes

\* What follows a complete frame is a stream.
LEMMA AfterTyped == ASSUME NEW s \in Bytes, Complete(s) PROVE After(s) \in Bytes
<1>1. Word(s) \in Nat /\ Drop(s, Width) \in Bytes /\ Len(Drop(s, Width)) = Len(s) - Width
  BY WordFacts DEF Complete
<1>2. Width \in Nat /\ Len(s) \in Nat /\ Width + Word(s) <= Len(s)
  BY WireAssumption DEF Bytes, Complete
<1>3. Word(s) \in 0 .. Len(Drop(s, Width)) /\ Drop(s, Width) \in Seq(Byte)
  BY ONLY <1>1, <1>2 DEF Bytes
<1> QED BY ONLY <1>3, CutFacts DEF After, Bytes

\* More bytes at the end do not change the length that is there.
LEMMA WordStable ==
    ASSUME NEW s \in Bytes, NEW b \in Bytes, Width <= Len(s)
    PROVE  /\ Word(Cat(s, b)) = Word(s) /\ Drop(Cat(s, b), Width) = Cat(Drop(s, Width), b)
           /\ Cat(s, b) \in Bytes /\ Len(Cat(s, b)) = Len(s) + Len(b) /\ Width <= Len(Cat(s, b))
<1>1. Width \in 0 .. Len(s) /\ s \in Seq(Byte) /\ b \in Seq(Byte) /\ Len(s) \in Nat /\ Len(b) \in Nat
  BY WireAssumption DEF Bytes
<1>2. First(Cat(s, b), Width) = First(s, Width) /\ Drop(Cat(s, b), Width) = Cat(Drop(s, Width), b)
  BY ONLY <1>1, CutFirst
<1>3. Cat(s, b) \in Seq(Byte) /\ Joins(Cat(s, b), s, b)
  BY ONLY <1>1, CatFacts
<1>4. Len(Cat(s, b)) = Len(s) + Len(b)
  BY ONLY <1>3 DEF Joins
<1>5. Width <= Len(Cat(s, b))
  BY ONLY <1>1, <1>4
<1> QED BY ONLY <1>2, <1>3, <1>4, <1>5 DEF Word, Bytes

\* Nor do they change a frame that is there, wherever the network cut it.
LEMMA FrameStable ==
    ASSUME NEW s \in Bytes, NEW b \in Bytes, Complete(s)
    PROVE  /\ Complete(Cat(s, b)) /\ FrameOf(Cat(s, b)) = FrameOf(s)
           /\ After(Cat(s, b)) = Cat(After(s), b)
<1>1. Width <= Len(s) /\ Width + Word(s) <= Len(s)
  BY DEF Complete
<1>2. /\ Word(Cat(s, b)) = Word(s) /\ Drop(Cat(s, b), Width) = Cat(Drop(s, Width), b)
      /\ Len(Cat(s, b)) = Len(s) + Len(b) /\ Width <= Len(Cat(s, b))
  BY ONLY <1>1, s \in Bytes, b \in Bytes, WordStable
<1>3. Word(s) \in Nat /\ Drop(s, Width) \in Bytes /\ Len(Drop(s, Width)) = Len(s) - Width
  BY ONLY <1>1, s \in Bytes, WordFacts
<1>4. Width \in Nat /\ Len(s) \in Nat /\ Len(b) \in Nat
  BY WireAssumption DEF Bytes
<1>5. Word(s) \in 0 .. Len(Drop(s, Width)) /\ Drop(s, Width) \in Seq(Byte) /\ b \in Seq(Byte)
  BY ONLY <1>1, <1>3, <1>4, b \in Bytes DEF Bytes
<1>6. /\ First(Cat(Drop(s, Width), b), Word(s)) = First(Drop(s, Width), Word(s))
      /\ Drop(Cat(Drop(s, Width), b), Word(s)) = Cat(Drop(Drop(s, Width), Word(s)), b)
  BY ONLY <1>5, CutFirst
<1>7. Complete(Cat(s, b))
  BY ONLY <1>1, <1>2, <1>3, <1>4 DEF Complete
<1> QED BY ONLY <1>2, <1>6, <1>7 DEF FrameOf, After

-----------------------------------------------------------------------------
(* The inductive invariant.                                                *)

\* What is left of stream s after n frames.
RestOf(s, n) == IF n = 0 THEN s ELSE IF n = 1 THEN After(s) ELSE After(After(s))

\* What the reader may hear.
Heard == Message \cup [error : {"Parse", "UnknownMessage"}]

Hello == [id |-> 6, issue |-> "none"]
Start == [id |-> 7]

Typed ==
    /\ items \in Seq(Item) /\ Len(items) <= MaxItems /\ finished \in BOOLEAN
    /\ arrived \in Bytes /\ coming \in Bytes
    /\ pc \in {"hello", "traffic", "local", "proxy", "failed"}
    /\ want \in {NoLength} \cup 0 .. Limit
    /\ heard \in Seq(Heard) /\ out \in Seq({"hello", "ready", "not ready"})

\* How far the handshake is.
Stage ==
    /\ Len(heard) <= 2 /\ Len(out) <= 2
    /\ pc = "hello" => Len(heard) = 0
    /\ pc = "traffic" => Len(heard) = 1 /\ heard[1] = Hello
    /\ pc \in {"local", "proxy"} => Len(heard) = 2 /\ heard[1] = Hello /\ heard[2] = Start
    /\ pc \in {"hello", "traffic", "local"} => Len(out) = 1
    /\ pc \in {"local", "proxy"} => want = NoLength

\* What was heard is what a reader of the whole stream would hear.
HeardOf(s) ==
    \A k \in 1 .. Len(heard) :
       Complete(RestOf(s, k - 1)) /\ heard[k] = FromWire(FrameOf(RestOf(s, k - 1)))

\* What has not been read is what such a reader would have left.
LeftOf(s) ==
    IF want = NoLength THEN Cat(arrived, coming) = RestOf(s, Len(heard))
    ELSE /\ Width <= Len(RestOf(s, Len(heard))) /\ want = Word(RestOf(s, Len(heard)))
         /\ Cat(arrived, coming) = Drop(RestOf(s, Len(heard)), Width)

Inv == Typed /\ Stage /\ HeardOf(BytesFrom(1)) /\ (pc # "failed" => LeftOf(BytesFrom(1)))

-----------------------------------------------------------------------------
(* The stream of the items sent.                                           *)

\* The bytes of the items of s from the n-th on, by item and in one.
ListOf(s, n) == [i \in 1 .. Len(s) - n + 1 |-> BytesOf(s[n - 1 + i])]
StreamOf(s, n) == FlattenSeq(ListOf(s, n))

\* A message takes the bytes of its frame.
LEMMA ItemFacts ==
    ASSUME NEW i \in Item
    PROVE  /\ BytesOf(i) \in Bytes
           /\ i.tag = "message" => i.message \in Message /\ BytesOf(i) = ToWire(i.message)
<1>1. CASE i \in [tag : {"message"}, message : Message]
  <2>1. i.tag = "message" /\ i.message \in Message
    BY <1>1
  <2>2. BytesOf(i) = ToWire(i.message)
    BY ONLY <2>1 DEF BytesOf
  <2>3. <<>> \in Bytes
    BY DEF Bytes
  <2>4. ToWire(i.message) \in Bytes
    BY ONLY <2>1, <2>3, FrameInFront
  <2> QED BY ONLY <2>1, <2>2, <2>4
<1>2. CASE i \in [tag : {"junk"}, bytes : Junk] \cup [tag : {"traffic"}, bytes : Traffic]
  <2>1. i.tag # "message" /\ i.bytes \in Junk \cup Traffic
    BY <1>2
  <2>2. Junk \subseteq Bytes /\ Traffic \subseteq Bytes
    BY WireAssumption DEF Bytes, Byte
  <2> QED BY ONLY <2>1, <2>2 DEF BytesOf
<1> QED BY <1>1, <1>2 DEF Item

\* A list of items is a list of streams.
LEMMA ListTyped ==
    ASSUME NEW s \in Seq(Item), NEW n \in 1 .. Len(s) + 1
    PROVE  /\ ListOf(s, n) \in Seq(Bytes) /\ Len(ListOf(s, n)) = Len(s) - n + 1
           /\ \A i \in 1 .. Len(s) - n + 1 : ListOf(s, n)[i] = BytesOf(s[n - 1 + i])
<1> DEFINE m == Len(s) - n + 1
<1>1. Len(s) \in Nat /\ m \in Nat /\ \A i \in 1 .. m : n - 1 + i \in 1 .. Len(s)
  OBVIOUS
<1>2. \A i \in 1 .. m : s[n - 1 + i] \in Item
  BY <1>1
<1>3. \A i \in 1 .. m : BytesOf(s[n - 1 + i]) \in Bytes
  BY ONLY <1>2, ItemFacts
<1> HIDE DEF m
<1>4. ListOf(s, n) = [i \in 1 .. m |-> BytesOf(s[n - 1 + i])]
  BY DEF ListOf, m
<1>5. ListOf(s, n) \in [1 .. m -> Bytes]
  BY ONLY <1>3, <1>4
<1>6. ListOf(s, n) \in Seq(Bytes) /\ Len(ListOf(s, n)) = m
  BY ONLY <1>1, <1>5
<1> QED BY ONLY <1>4, <1>6 DEF m

\* And a stream as a whole.
LEMMA StreamTyped ==
    ASSUME NEW s \in Seq(Item), NEW n \in 1 .. Len(s) + 1
    PROVE  StreamOf(s, n) \in Bytes
BY ListTyped, FlattenTyped DEF StreamOf

\* The next item comes at the end.
LEMMA StreamAppend ==
    ASSUME NEW s \in Seq(Item), NEW i \in Item
    PROVE  StreamOf(Append(s, i), 1) = Cat(StreamOf(s, 1), BytesOf(i))
<1> DEFINE t == Append(s, i)
<1>1. /\ t \in Seq(Item) /\ Len(t) = Len(s) + 1 /\ t[Len(s) + 1] = i
      /\ \A k \in 1 .. Len(s) : t[k] = s[k]
  BY AppendProperties
<1>2. Len(s) \in Nat /\ 1 \in 1 .. Len(s) + 1 /\ Len(s) - 1 + 1 = Len(s)
  OBVIOUS
<1> HIDE DEF t
<1>3. 1 \in 1 .. Len(t) + 1 /\ Len(t) - 1 + 1 = Len(s) + 1
  BY ONLY <1>1, <1>2
<1>4. /\ ListOf(s, 1) \in Seq(Bytes) /\ Len(ListOf(s, 1)) = Len(s)
      /\ \A k \in 1 .. Len(s) : ListOf(s, 1)[k] = BytesOf(s[1 - 1 + k])
  BY ONLY <1>2, s \in Seq(Item), ListTyped
<1>5. /\ ListOf(t, 1) \in Seq(Bytes) /\ Len(ListOf(t, 1)) = Len(s) + 1
      /\ \A k \in 1 .. Len(s) + 1 : ListOf(t, 1)[k] = BytesOf(t[1 - 1 + k])
  BY ONLY <1>1, <1>3, ListTyped
<1>6. BytesOf(i) \in Bytes
  BY ItemFacts
<1>7. /\ Append(ListOf(s, 1), BytesOf(i)) \in Seq(Bytes)
      /\ Len(Append(ListOf(s, 1), BytesOf(i))) = Len(s) + 1
      /\ \A k \in 1 .. Len(s) : Append(ListOf(s, 1), BytesOf(i))[k] = ListOf(s, 1)[k]
      /\ Append(ListOf(s, 1), BytesOf(i))[Len(s) + 1] = BytesOf(i)
  BY ONLY <1>4, <1>6, AppendProperties
<1>8. ASSUME NEW k \in 1 .. Len(s) + 1
      PROVE  ListOf(t, 1)[k] = Append(ListOf(s, 1), BytesOf(i))[k]
  <2>1. 1 - 1 + k = k
    BY ONLY <1>2, k \in 1 .. Len(s) + 1
  <2>2. ListOf(t, 1)[k] = BytesOf(t[k])
    BY ONLY <1>5, <2>1, k \in 1 .. Len(s) + 1
  <2>3. CASE k \in 1 .. Len(s)
    BY ONLY <1>1, <1>4, <1>7, <2>1, <2>2, <2>3
  <2>4. CASE k = Len(s) + 1
    BY ONLY <1>1, <1>7, <2>2, <2>4
  <2>5. k \in 1 .. Len(s) \/ k = Len(s) + 1
    BY ONLY <1>2, k \in 1 .. Len(s) + 1
  <2> QED BY ONLY <2>3, <2>4, <2>5
<1>9. ListOf(t, 1) = Append(ListOf(s, 1), BytesOf(i))
  BY ONLY <1>5, <1>7, <1>8, SeqEqual
<1> QED BY ONLY <1>4, <1>6, <1>9, FlattenAppend DEF StreamOf, t

\* The n-th item comes before the others.
LEMMA StreamFirst ==
    ASSUME NEW s \in Seq(Item), NEW n \in 1 .. Len(s)
    PROVE  StreamOf(s, n) = Cat(BytesOf(s[n]), StreamOf(s, n + 1))
<1>1. /\ Len(s) \in Nat /\ n \in 1 .. Len(s) + 1 /\ n + 1 \in 1 .. Len(s) + 1
      /\ Len(s) - n + 1 = Len(s) - (n + 1) + 1 + 1 /\ 1 \in 1 .. Len(s) - n + 1 /\ n - 1 + 1 = n
  OBVIOUS
<1>2. /\ ListOf(s, n) \in Seq(Bytes) /\ Len(ListOf(s, n)) = Len(s) - n + 1
      /\ \A i \in 1 .. Len(s) - n + 1 : ListOf(s, n)[i] = BytesOf(s[n - 1 + i])
  BY ONLY <1>1, s \in Seq(Item), ListTyped
<1>3. /\ ListOf(s, n + 1) \in Seq(Bytes) /\ Len(ListOf(s, n + 1)) = Len(s) - (n + 1) + 1
      /\ \A i \in 1 .. Len(s) - (n + 1) + 1 : ListOf(s, n + 1)[i] = BytesOf(s[(n + 1) - 1 + i])
  BY ONLY <1>1, s \in Seq(Item), ListTyped
<1>4. ASSUME NEW i \in 1 .. Len(s) - (n + 1) + 1 PROVE ListOf(s, n + 1)[i] = ListOf(s, n)[i + 1]
  <2>1. i + 1 \in 1 .. Len(s) - n + 1 /\ (n + 1) - 1 + i = n - 1 + (i + 1)
    BY ONLY <1>1, i \in 1 .. Len(s) - (n + 1) + 1, n \in 1 .. Len(s)
  <2> QED BY ONLY <1>2, <1>3, <1>4, <2>1
<1>5. ListOf(s, n)[1] = BytesOf(s[n])
  BY ONLY <1>1, <1>2
<1>6. FlattenSeq(ListOf(s, n)) = Cat(ListOf(s, n)[1], FlattenSeq(ListOf(s, n + 1)))
  <2>1. Len(ListOf(s, n)) = Len(ListOf(s, n + 1)) + 1
    BY ONLY <1>1, <1>2, <1>3
  <2>2. \A i \in 1 .. Len(ListOf(s, n + 1)) : ListOf(s, n + 1)[i] = ListOf(s, n)[i + 1]
    BY ONLY <1>3, <1>4
  <2> QED BY ONLY <1>2, <1>3, <2>1, <2>2, FlattenFirst
<1> QED BY ONLY <1>5, <1>6 DEF StreamOf

\* Nothing has been sent.
LEMMA StreamEmpty == StreamOf(<<>>, 1) = <<>>
<1>1. <<>> \in Seq(Item) /\ Len(<<>>) = 0 /\ 1 \in 1 .. Len(<<>>) + 1
  OBVIOUS
<1>2. ListOf(<<>>, 1) \in Seq(Bytes) /\ Len(ListOf(<<>>, 1)) = Len(<<>>) - 1 + 1
  BY ONLY <1>1, ListTyped
<1>3. ListOf(<<>>, 1) = <<>>
  BY ONLY <1>1, <1>2
<1> QED BY ONLY <1>3 DEF StreamOf, FlattenSeq

\* BytesFrom is that stream of the items.
LEMMA BytesFromStream == \A n : BytesFrom(n) = StreamOf(items, n)
BY DEF BytesFrom, StreamOf, ListOf

\* The first n frames of s are all there.
FramesBefore(s, n) == \A k \in 1 .. n : Complete(RestOf(s, k - 1))

\* Then what follows them is a stream.
LEMMA RestTyped ==
    ASSUME NEW s \in Bytes, NEW n \in 0 .. 2, FramesBefore(s, n)
    PROVE  RestOf(s, n) \in Bytes
<1>1. n >= 1 => Complete(s)
  <2>1. 1 - 1 = 0 /\ (n >= 1 => 1 \in 1 .. n)
    OBVIOUS
  <2> QED BY ONLY <2>1, FramesBefore(s, n) DEF FramesBefore, RestOf
<1>2. n = 2 => Complete(After(s))
  <2>1. 2 - 1 = 1 /\ (n = 2 => 2 \in 1 .. n)
    OBVIOUS
  <2> QED BY ONLY <2>1, FramesBefore(s, n) DEF FramesBefore, RestOf
<1>3. n >= 1 => After(s) \in Bytes
  BY ONLY <1>1, s \in Bytes, AfterTyped
<1>4. n = 2 => After(After(s)) \in Bytes
  BY ONLY <1>2, <1>3, n \in 0 .. 2, AfterTyped
<1> QED BY ONLY <1>3, <1>4, s \in Bytes, n \in 0 .. 2 DEF RestOf

\* One frame more is taken from what is left.
LEMMA RestNext ==
    ASSUME NEW s, NEW n \in 0 .. 1 PROVE RestOf(s, n + 1) = After(RestOf(s, n))
BY DEF RestOf

\* More bytes at the end only add to what is left.
LEMMA RestStable ==
    ASSUME NEW s \in Bytes, NEW b \in Bytes, NEW n \in 0 .. 2, FramesBefore(s, n)
    PROVE  /\ RestOf(Cat(s, b), n) = Cat(RestOf(s, n), b)
           /\ \A k \in 1 .. n : /\ Complete(RestOf(Cat(s, b), k - 1))
                                /\ FrameOf(RestOf(Cat(s, b), k - 1)) = FrameOf(RestOf(s, k - 1))
<1>1. n >= 1 => Complete(s)
  <2>1. 1 - 1 = 0 /\ (n >= 1 => 1 \in 1 .. n)
    OBVIOUS
  <2> QED BY ONLY <2>1, FramesBefore(s, n) DEF FramesBefore, RestOf
<1>2. n = 2 => Complete(After(s))
  <2>1. 2 - 1 = 1 /\ (n = 2 => 2 \in 1 .. n)
    OBVIOUS
  <2> QED BY ONLY <2>1, FramesBefore(s, n) DEF FramesBefore, RestOf
<1>3. n >= 1 => After(s) \in Bytes
  BY ONLY <1>1, s \in Bytes, AfterTyped
<1>4. n >= 1 => /\ Complete(Cat(s, b)) /\ FrameOf(Cat(s, b)) = FrameOf(s)
                /\ After(Cat(s, b)) = Cat(After(s), b)
  BY ONLY <1>1, s \in Bytes, b \in Bytes, FrameStable
<1>5. n = 2 => /\ Complete(Cat(After(s), b)) /\ FrameOf(Cat(After(s), b)) = FrameOf(After(s))
               /\ After(Cat(After(s), b)) = Cat(After(After(s)), b)
  BY ONLY <1>2, <1>3, n \in 0 .. 2, b \in Bytes, FrameStable
<1>6. RestOf(Cat(s, b), n) = Cat(RestOf(s, n), b)
  BY ONLY <1>4, <1>5, n \in 0 .. 2 DEF RestOf
<1>7. ASSUME NEW k \in 1 .. n
      PROVE  /\ Complete(RestOf(Cat(s, b), k - 1))
             /\ FrameOf(RestOf(Cat(s, b), k - 1)) = FrameOf(RestOf(s, k - 1))
  <2>1. CASE k = 1
    <3>1. k - 1 = 0 /\ n >= 1
      BY <2>1
    <3> QED BY ONLY <1>4, <3>1 DEF RestOf
  <2>2. CASE k # 1
    <3>1. k - 1 = 1 /\ n = 2
      BY ONLY <2>2, k \in 1 .. n, n \in 0 .. 2
    <3> QED BY ONLY <1>4, <1>5, <3>1 DEF RestOf
  <2> QED BY <2>1, <2>2
<1> QED BY ONLY <1>6, <1>7

\* Whatever is read, it is a message or an error.
LEMMA FromWireTyped == \A s : FromWire(s) \in Heard
<1> TAKE s
<1> DEFINE id == Word(s)
           D == {m \in Message : m.id = id /\ Payload(m) = Drop(s, Width)}
<1>1. Error("Parse") \in Heard /\ Error("UnknownMessage") \in Heard
  BY DEF Error, Heard
<1>2. id \in {2, 5, 7} => [id |-> id] \in Heard
  BY DEF Heard, Message
<1>3. D # {} => (CHOOSE m \in D : TRUE) \in Heard
  <2>1. D \subseteq Heard
    BY DEF Heard
  <2> HIDE DEF D
  <2> QED BY ONLY <2>1
<1>4. FromWire(s) = IF Len(s) < Width THEN Error("Parse")
                    ELSE IF id \in {2, 5, 7} THEN [id |-> id]
                    ELSE IF id \in {1, 3, 4, 6, 8}
                         THEN IF D = {} THEN Error("Parse") ELSE CHOOSE m \in D : TRUE
                    ELSE Error("UnknownMessage")
  BY DEF FromWire
<1> HIDE DEF id, D
<1> QED BY ONLY <1>1, <1>2, <1>3, <1>4

-----------------------------------------------------------------------------
(* The steps.                                                              *)

Sent == StreamOf(items, 1)

\* What the invariant says of the stream.
LEMMA InvFacts ==
    ASSUME Inv
    PROVE  /\ Sent \in Bytes /\ Len(heard) \in 0 .. 2 /\ HeardOf(Sent)
           /\ pc # "failed" => LeftOf(Sent)
           /\ FramesBefore(Sent, Len(heard)) /\ RestOf(Sent, Len(heard)) \in Bytes
<1>1. items \in Seq(Item) /\ heard \in Seq(Heard) /\ Len(heard) <= 2
  BY DEF Inv, Typed, Stage
<1>2. Len(heard) \in 0 .. 2 /\ 1 \in 1 .. Len(items) + 1
  <2>1. Len(heard) \in Nat /\ Len(items) \in Nat
    BY ONLY <1>1
  <2>2. \A k \in Nat : (k <= 2 => k \in 0 .. 2) /\ 1 \in 1 .. k + 1
    OBVIOUS
  <2> QED BY ONLY <1>1, <2>1, <2>2
<1>3. Sent \in Bytes
  BY ONLY <1>1, <1>2, StreamTyped DEF Sent
<1>4. HeardOf(Sent) /\ (pc # "failed" => LeftOf(Sent))
  BY BytesFromStream DEF Inv, Sent
<1>5. FramesBefore(Sent, Len(heard))
  BY ONLY <1>4 DEF HeardOf, FramesBefore
<1>6. RestOf(Sent, Len(heard)) \in Bytes
  BY ONLY <1>2, <1>3, <1>5, RestTyped
<1> QED BY ONLY <1>2, <1>3, <1>4, <1>5, <1>6

\* And what is enough for it after a step.
LEMMA InvNow ==
    ASSUME Typed', Stage', HeardOf(Sent)', (pc # "failed" => LeftOf(Sent))'
    PROVE  Inv'
<1>1. (BytesFrom(1) = Sent)'
  BY DEF BytesFrom, Sent, StreamOf, ListOf
<1>2. HeardOf(BytesFrom(1))' /\ (pc # "failed" => LeftOf(BytesFrom(1)))'
  BY <1>1 DEF HeardOf, LeftOf
<1> QED BY <1>2 DEF Inv

\* The hello has been sent and nothing has come.
LEMMA InvInit == Init => Inv
<1> SUFFICES ASSUME Init PROVE Inv
  OBVIOUS
<1>0. MaxItems \in Nat /\ <<>> \in Bytes /\ Cat(<<>>, <<>>) = <<>>
  <2>1. <<>> \in Seq(Byte)
    OBVIOUS
  <2> QED BY ONLY <2>1, WireAssumption, CatEmpty DEF Bytes
<1>1. Typed
  <2>1. items \in Seq(Item) /\ Len(items) <= MaxItems /\ finished \in BOOLEAN
    <3>1. items = <<>> /\ finished = FALSE
      BY DEF Init
    <3>2. <<>> \in Seq(Item) /\ Len(<<>>) = 0
      OBVIOUS
    <3>3. 0 <= MaxItems
      BY ONLY <1>0
    <3>4. FALSE \in BOOLEAN
      OBVIOUS
    <3> QED BY ONLY <3>1, <3>2, <3>3, <3>4
  <2>2. heard \in Seq(Heard)
    BY ONLY Init DEF Init
  <2>3. out \in Seq({"hello", "ready", "not ready"})
    <3>1. <<"hello">> \in Seq({"hello", "ready", "not ready"})
      OBVIOUS
    <3> QED BY ONLY <3>1, Init DEF Init
  <2>4. /\ arrived \in Bytes /\ coming \in Bytes
        /\ pc \in {"hello", "traffic", "local", "proxy", "failed"}
        /\ want \in {NoLength} \cup 0 .. Limit
    BY ONLY <1>0, Init DEF Init
  <2> QED BY ONLY <2>1, <2>2, <2>3, <2>4 DEF Typed
<1>2. Stage
  BY DEF Init, Stage
<1>3. BytesFrom(1) = <<>>
  BY BytesFromStream, StreamEmpty DEF Init
<1>4. HeardOf(BytesFrom(1))
  <2>1. Len(heard) = 0
    BY DEF Init
  <2> QED BY ONLY <2>1 DEF HeardOf
<1>5. LeftOf(BytesFrom(1))
  <2>1. Len(heard) = 0 /\ want = NoLength /\ arrived = <<>> /\ coming = <<>>
    BY DEF Init
  <2> QED BY ONLY <1>0, <1>3, <2>1 DEF LeftOf, RestOf
<1> QED BY <1>1, <1>2, <1>4, <1>5 DEF Inv

\* Ebbflow sends an item: it is added to the end of what is left.
LEMMA InvSends == ASSUME Inv, NEW i \in Item, EbbflowSends(i) PROVE Inv'
<1>1. /\ Sent \in Bytes /\ Len(heard) \in 0 .. 2 /\ HeardOf(Sent) /\ LeftOf(Sent)
      /\ FramesBefore(Sent, Len(heard)) /\ RestOf(Sent, Len(heard)) \in Bytes
  BY InvFacts DEF EbbflowSends, Open
<1>2. BytesOf(i) \in Bytes
  BY ItemFacts
<1>3. /\ items' = Append(items, i) /\ coming' = Cat(coming, BytesOf(i)) /\ Len(items) < MaxItems
      /\ UNCHANGED <<arrived, finished, pc, want, heard, out>>
  BY DEF EbbflowSends, Cat
<1>4. /\ items \in Seq(Item) /\ arrived \in Bytes /\ coming \in Bytes
  BY DEF Inv, Typed
<1>5. Sent' = Cat(Sent, BytesOf(i))
  BY ONLY <1>3, <1>4, i \in Item, StreamAppend DEF Sent
<1>6. /\ RestOf(Sent', Len(heard)) = Cat(RestOf(Sent, Len(heard)), BytesOf(i))
      /\ \A k \in 1 .. Len(heard) :
            /\ Complete(RestOf(Sent', k - 1))
            /\ FrameOf(RestOf(Sent', k - 1)) = FrameOf(RestOf(Sent, k - 1))
  BY ONLY <1>1, <1>2, <1>5, RestStable
<1>7. Typed'
  <2>1. items' \in Seq(Item) /\ Len(items') <= MaxItems
    <3>1. items' \in Seq(Item) /\ Len(items') = Len(items) + 1
      BY ONLY <1>3, <1>4, i \in Item, AppendProperties
    <3>2. MaxItems \in Nat /\ Len(items) \in Nat
      BY <1>4, WireAssumption
    <3> QED BY ONLY <1>3, <3>1, <3>2
  <2>2. coming' \in Bytes
    BY ONLY <1>2, <1>3, <1>4, CatFacts DEF Bytes
  <2> QED BY <1>3, <2>1, <2>2 DEF Inv, Typed
<1>8. Stage'
  BY <1>3 DEF Inv, Stage
<1>9. HeardOf(Sent)'
  BY ONLY <1>1, <1>3, <1>6 DEF HeardOf
<1>10. LeftOf(Sent)'
  <2> DEFINE r == RestOf(Sent, Len(heard))
             b == BytesOf(i)
  <2>1. Cat(arrived', coming') = Cat(Cat(arrived, coming), b)
    <3>1. Cat(Cat(arrived, coming), b) = Cat(arrived, Cat(coming, b))
      BY ONLY <1>2, <1>4, CatAssociative DEF Bytes
    <3> QED BY ONLY <1>3, <3>1
  <2>2. RestOf(Sent', Len(heard')) = Cat(r, b) /\ want' = want
    BY ONLY <1>3, <1>6
  <2>3. CASE want = NoLength
    <3>1. Cat(arrived, coming) = r
      BY ONLY <1>1, <2>3 DEF LeftOf
    <3>2. Cat(arrived', coming') = RestOf(Sent', Len(heard'))
      BY ONLY <2>1, <2>2, <3>1
    <3> QED BY ONLY <2>2, <2>3, <3>2 DEF LeftOf
  <2>4. CASE want # NoLength
    <3>1. Width <= Len(r) /\ want = Word(r) /\ Cat(arrived, coming) = Drop(r, Width)
      BY ONLY <1>1, <2>4 DEF LeftOf
    <3>2. /\ Word(Cat(r, b)) = Word(r) /\ Drop(Cat(r, b), Width) = Cat(Drop(r, Width), b)
          /\ Width <= Len(Cat(r, b))
      BY ONLY <1>1, <1>2, <3>1, WordStable
    <3> QED BY ONLY <2>1, <2>2, <2>4, <3>1, <3>2 DEF LeftOf
  <2> QED BY <2>3, <2>4
<1> QED BY <1>7, <1>8, <1>9, <1>10, InvNow

\* Bytes arrive: nothing but the place of some bytes changes.
LEMMA InvArrive == ASSUME Inv, NEW n \in 1 .. Len(coming), Arrive(n) PROVE Inv'
<1>1. HeardOf(Sent) /\ LeftOf(Sent)
  BY InvFacts DEF Arrive, Open
<1>2. arrived \in Bytes /\ coming \in Bytes /\ n \in 0 .. Len(coming)
  <2>1. arrived \in Bytes /\ coming \in Bytes
    BY DEF Inv, Typed
  <2>2. Len(coming) \in Nat
    BY ONLY <2>1 DEF Bytes
  <2> QED BY ONLY <2>1, <2>2, n \in 1 .. Len(coming)
<1>3. /\ arrived' = Cat(arrived, First(coming, n)) /\ coming' = Drop(coming, n)
      /\ UNCHANGED <<items, finished, pc, want, heard, out>>
  BY DEF Arrive, Cat
<1>4. First(coming, n) \in Bytes /\ Drop(coming, n) \in Bytes
  BY ONLY <1>2, CutFacts DEF Bytes
<1>5. Cat(arrived', coming') = Cat(arrived, coming)
  <2>1. Cat(Cat(arrived, First(coming, n)), Drop(coming, n))
          = Cat(arrived, Cat(First(coming, n), Drop(coming, n)))
    BY ONLY <1>2, <1>4, CatAssociative DEF Bytes
  <2>2. Cat(First(coming, n), Drop(coming, n)) = coming
    BY ONLY <1>2, CatCut DEF Bytes
  <2> QED BY ONLY <1>3, <2>1, <2>2
<1>6. arrived' \in Bytes /\ coming' \in Bytes
  BY ONLY <1>2, <1>3, <1>4, CatFacts DEF Bytes
<1>7. Typed'
  BY <1>3, <1>6 DEF Inv, Typed
<1>8. Stage'
  BY <1>3 DEF Inv, Stage
<1>9. Sent' = Sent
  BY <1>3 DEF Sent, StreamOf, ListOf
<1>10. HeardOf(Sent)'
  BY ONLY <1>1, <1>3, <1>9 DEF HeardOf
<1>11. LeftOf(Sent)'
  BY ONLY <1>1, <1>3, <1>5, <1>9 DEF LeftOf
<1> QED BY <1>7, <1>8, <1>10, <1>11, InvNow

\* Steps that read nothing: a close, the end of the stream, a timeout, and the
\* connection to the local server.
LEMMA InvQuiet ==
    ASSUME Inv, EbbflowCloses \/ ReadEof \/ GiveUp \/ ConnectLocal \/ UNCHANGED vars
    PROVE  Inv'
<1>1. HeardOf(Sent) /\ (pc # "failed" => LeftOf(Sent))
  BY InvFacts
<1>0. ASSUME ConnectLocal
      PROVE  /\ out' \in Seq({"hello", "ready", "not ready"})
             /\ Len(out') = Len(out) + 1 \/ (out' = out /\ pc' = "failed")
  <2>1. out \in Seq({"hello", "ready", "not ready"})
    BY DEF Inv, Typed
  <2>2. \/ \E e \in {"ready", "not ready"} : out' = Append(out, e)
        \/ out' = out /\ pc' = "failed"
    BY <1>0 DEF ConnectLocal
  <2>3. CASE out' = out /\ pc' = "failed"
    BY ONLY <2>1, <2>3
  <2>4. CASE \E e \in {"ready", "not ready"} : out' = Append(out, e)
    <3>1. PICK e \in {"ready", "not ready"} : out' = Append(out, e)
      BY <2>4
    <3>2. e \in {"hello", "ready", "not ready"}
      OBVIOUS
    <3> QED BY ONLY <2>1, <3>1, <3>2, AppendProperties
  <2> QED BY <2>2, <2>3, <2>4
<1>2. UNCHANGED <<items, arrived, coming, heard>>
  BY DEF EbbflowCloses, ReadEof, GiveUp, ConnectLocal, vars, network
<1>3. Sent' = Sent
  BY <1>2 DEF Sent, StreamOf, ListOf
<1>4. HeardOf(Sent)'
  BY ONLY <1>1, <1>2, <1>3 DEF HeardOf
<1>5. (pc # "failed" => LeftOf(Sent))'
  <2>1. pc' # "failed" => pc # "failed" /\ want' = want
    BY DEF EbbflowCloses, ReadEof, GiveUp, Fail, ConnectLocal, vars, network
  <2> QED BY ONLY <1>1, <1>2, <1>3, <2>1 DEF LeftOf
<1>6. Typed'
  <2>1. finished' \in BOOLEAN
    BY DEF EbbflowCloses, ReadEof, GiveUp, ConnectLocal, vars, network, Inv, Typed
  <2>2. pc' \in {"hello", "traffic", "local", "proxy", "failed"}
    BY DEF EbbflowCloses, ReadEof, GiveUp, Fail, ConnectLocal, vars, network, Inv, Typed
  <2>3. want' \in {NoLength} \cup 0 .. Limit
    BY DEF EbbflowCloses, ReadEof, GiveUp, Fail, ConnectLocal, vars, network, Inv, Typed
  <2>4. out' \in Seq({"hello", "ready", "not ready"})
    BY <1>0 DEF EbbflowCloses, ReadEof, GiveUp, vars, network, Inv, Typed
  <2> QED BY <1>2, <2>1, <2>2, <2>3, <2>4 DEF Inv, Typed
<1>7. Stage'
  <2>1. CASE ConnectLocal
    <3>1. Len(out') = Len(out) + 1 \/ (out' = out /\ pc' = "failed")
      BY <1>0, <2>1
    <3>2. pc = "local" /\ pc' \in {"proxy", "failed"} /\ want' = want
      BY <2>1 DEF ConnectLocal
    <3> QED BY <1>2, <3>1, <3>2 DEF Inv, Stage
  <2>2. CASE EbbflowCloses \/ UNCHANGED vars
    BY <1>2, <2>2 DEF EbbflowCloses, vars, Inv, Stage
  <2>3. CASE ReadEof \/ GiveUp
    BY <1>2, <2>3 DEF ReadEof, GiveUp, Fail, Inv, Stage
  <2> QED BY <2>1, <2>2, <2>3
<1> QED BY <1>4, <1>5, <1>6, <1>7, InvNow

\* The length is read: what is left is the rest behind it.
LEMMA InvReadLength == ASSUME Inv, ReadLength PROVE Inv'
<1> DEFINE r == RestOf(Sent, Len(heard))
<1>0. pc \in {"hello", "traffic"} /\ want = NoLength /\ Width <= Len(arrived)
  <2>1. Width \in Nat /\ Len(arrived) \in Nat /\ Len(arrived) >= Width
    <3>1. arrived \in Seq(Byte) /\ Len(arrived) >= Width
      BY DEF ReadLength, Inv, Typed, Bytes
    <3> QED BY ONLY <3>1, WireAssumption
  <2> QED BY <2>1 DEF ReadLength, Awaiting
<1>1. HeardOf(Sent) /\ LeftOf(Sent)
  BY <1>0, InvFacts
<1>2. arrived \in Bytes /\ coming \in Bytes
  BY DEF Inv, Typed
<1>3. arrived' = Drop(arrived, Width) /\ UNCHANGED <<items, coming, finished, heard, out>>
  BY DEF ReadLength, Take
<1>4. /\ Word(arrived) > Limit => pc' = "failed" /\ want' = NoLength
      /\ ~(Word(arrived) > Limit) => want' = Word(arrived) /\ pc' = pc
  BY DEF ReadLength, Fail
<1>5. Cat(arrived, coming) = r
  BY ONLY <1>0, <1>1 DEF LeftOf
<1>6. /\ Word(r) = Word(arrived) /\ Drop(r, Width) = Cat(Drop(arrived, Width), coming)
      /\ Width <= Len(r)
  BY ONLY <1>0, <1>2, <1>5, WordStable
<1>7. Word(arrived) \in Nat /\ Drop(arrived, Width) \in Bytes
  BY ONLY <1>0, <1>2, WordFacts
<1>8. Sent' = Sent
  BY <1>3 DEF Sent, StreamOf, ListOf
<1>9. \/ want' # NoLength /\ pc' = pc /\ want' = Word(arrived)
      \/ want' = NoLength /\ pc' = "failed"
  <2>1. Word(arrived) # NoLength
    BY ONLY <1>7 DEF NoLength
  <2>2. CASE Word(arrived) > Limit
    BY ONLY <1>4, <2>2
  <2>3. CASE ~(Word(arrived) > Limit)
    BY ONLY <1>4, <2>1, <2>3
  <2> QED BY ONLY <2>2, <2>3
<1>10. Typed'
  <2>1. want' \in {NoLength} \cup 0 .. Limit
    <3>1. Limit \in Nat
      BY WireAssumption
    <3> QED BY ONLY <1>4, <1>7, <3>1
  <2>2. pc' \in {"hello", "traffic", "local", "proxy", "failed"}
    BY ONLY <1>0, <1>9
  <2> QED BY <1>3, <1>7, <2>1, <2>2 DEF Inv, Typed
<1>11. Stage'
  BY <1>0, <1>3, <1>9 DEF Inv, Stage
<1>12. HeardOf(Sent)'
  BY ONLY <1>1, <1>3, <1>8 DEF HeardOf
<1>13. (pc # "failed" => LeftOf(Sent))'
  <2> SUFFICES ASSUME pc' # "failed" PROVE LeftOf(Sent)'
    OBVIOUS
  <2>1. want' = Word(arrived) /\ want' # NoLength
    BY ONLY <1>4, <1>9, pc' # "failed"
  <2>2. RestOf(Sent', Len(heard')) = r
    BY ONLY <1>3, <1>8
  <2>3. Cat(arrived', coming') = Drop(r, Width)
    BY ONLY <1>3, <1>6
  <2> QED BY ONLY <1>6, <2>1, <2>2, <2>3 DEF LeftOf
<1> QED BY <1>10, <1>11, <1>12, <1>13, InvNow

\* The frame is read: it is the next one of the stream.
LEMMA InvReadFrame == ASSUME Inv, ReadFrame PROVE Inv'
<1> DEFINE n == Len(heard)
           r == RestOf(Sent, n)
           m == FromWire(First(arrived, want))
<1>0. /\ pc \in {"hello", "traffic"} /\ want # NoLength /\ want \in Nat /\ n \in 0 .. 1
      /\ want \in 0 .. Len(arrived)
  <2>1. pc \in {"hello", "traffic"} /\ want # NoLength /\ Len(arrived) >= want
    BY DEF ReadFrame, Awaiting
  <2>2. want \in 0 .. Limit /\ Limit \in Nat /\ Len(arrived) \in Nat
    <3>1. arrived \in Seq(Byte) /\ want \in {NoLength} \cup 0 .. Limit
      BY DEF Inv, Typed, Bytes
    <3> QED BY ONLY <2>1, <3>1, WireAssumption
  <2>3. n = 0 \/ n = 1
    BY <2>1 DEF Inv, Stage
  <2> QED BY ONLY <2>1, <2>2, <2>3
<1>1. /\ Sent \in Bytes /\ HeardOf(Sent) /\ LeftOf(Sent) /\ FramesBefore(Sent, n) /\ r \in Bytes
  BY <1>0, InvFacts
<1>2. arrived \in Bytes /\ coming \in Bytes /\ heard \in Seq(Heard)
  BY DEF Inv, Typed
<1>3. /\ arrived' = Drop(arrived, want) /\ heard' = Append(heard, m) /\ pc' = Advance(m)
      /\ want' = NoLength /\ UNCHANGED <<items, coming, finished, out>>
  BY DEF ReadFrame, Take
<1>4. /\ Width <= Len(r) /\ want = Word(r) /\ Cat(arrived, coming) = Drop(r, Width)
  BY ONLY <1>0, <1>1 DEF LeftOf
<1>5. /\ First(Cat(arrived, coming), want) = First(arrived, want)
      /\ Drop(Cat(arrived, coming), want) = Cat(Drop(arrived, want), coming)
  BY ONLY <1>0, <1>2, CutFirst DEF Bytes
<1>6. First(arrived, want) = FrameOf(r) /\ Cat(arrived', coming') = After(r)
  BY ONLY <1>3, <1>4, <1>5 DEF FrameOf, After
<1>7. Complete(r)
  <2>1. Len(Cat(arrived, coming)) = Len(arrived) + Len(coming) /\ Len(arrived) \in Nat /\ Len(coming) \in Nat
    <3>1. arrived \in Seq(Byte) /\ coming \in Seq(Byte)
      BY ONLY <1>2 DEF Bytes
    <3>2. Joins(Cat(arrived, coming), arrived, coming)
      BY ONLY <3>1, CatFacts
    <3> QED BY ONLY <3>1, <3>2 DEF Joins
  <2>2. Len(Drop(r, Width)) = Len(r) - Width /\ Width \in Nat /\ Len(r) \in Nat
    BY <1>1, <1>4, WordFacts, WireAssumption DEF Bytes
  <2>3. Len(arrived) + Len(coming) = Len(r) - Width
    BY ONLY <1>4, <2>1, <2>2
  <2>4. Width + want <= Len(r)
    BY ONLY <1>0, <2>1, <2>2, <2>3
  <2> QED BY ONLY <1>4, <2>4 DEF Complete
<1>8. m \in Heard
  BY FromWireTyped
<1>9. /\ heard' \in Seq(Heard) /\ Len(heard') = n + 1 /\ heard'[n + 1] = m
      /\ \A k \in 1 .. n : heard'[k] = heard[k]
  BY ONLY <1>2, <1>3, <1>8, AppendProperties
<1>10. Sent' = Sent
  BY <1>3 DEF Sent, StreamOf, ListOf
<1>11. /\ pc' \in {"traffic", "local", "failed"}
       /\ pc' = "traffic" => pc = "hello" /\ m = Hello
       /\ pc' = "local" => pc = "traffic" /\ m = Start
  <2>1. CASE m \in Message
    <3>1. m.id = 6 => m = [id |-> 6, issue |-> m.issue]
      BY <2>1 DEF Message
    <3>2. m.id = 7 => m = [id |-> 7]
      BY <2>1 DEF Message
    <3> HIDE DEF m
    <3>3. ~IsError(m)
      BY <2>1 DEF IsError, Message
    <3> QED BY ONLY <1>0, <1>3, <3>1, <3>2, <3>3 DEF Advance, AfterHello, AfterStart, Hello, Start
  <2>2. CASE m \notin Message
    <3>1. m \in [error : {"Parse", "UnknownMessage"}]
      BY ONLY <1>8, <2>2 DEF Heard
    <3> HIDE DEF m
    <3>2. IsError(m)
      BY ONLY <3>1 DEF IsError
    <3> QED BY ONLY <1>3, <3>2 DEF Advance, AfterHello, AfterStart
  <2> QED BY <2>1, <2>2
<1> HIDE DEF m
<1>12. Typed'
  <2>1. Drop(arrived, want) \in Bytes
    BY ONLY <1>0, <1>2, CutFacts DEF Bytes
  <2> QED BY <1>3, <1>9, <1>11, <2>1 DEF Inv, Typed
<1>13. Stage'
  <2>1. pc = "hello" => n = 0
    BY DEF Inv, Stage
  <2>2. pc = "traffic" => n = 1 /\ heard[1] = Hello
    BY DEF Inv, Stage
  <2>3. Len(out') = 1 /\ want' = NoLength
    BY <1>0, <1>3 DEF Inv, Stage
  <2>4. Len(heard') <= 2
    BY ONLY <1>0, <1>9
  <2>5. pc' = "traffic" => Len(heard') = 1 /\ heard'[1] = Hello
    BY ONLY <1>9, <1>11, <2>1
  <2>6. pc' = "local" => Len(heard') = 2 /\ heard'[1] = Hello /\ heard'[2] = Start
    <3>1. pc' = "local" => n = 1 /\ heard[1] = Hello /\ m = Start
      BY ONLY <1>11, <2>2
    <3>2. n = 1 => 1 \in 1 .. n /\ n + 1 = 2
      OBVIOUS
    <3> HIDE DEF n
    <3> QED BY ONLY <1>9, <3>1, <3>2
  <2> QED BY ONLY <1>11, <2>3, <2>4, <2>5, <2>6 DEF Stage
<1>14. HeardOf(Sent)'
  <2>1. ASSUME NEW k \in 1 .. n + 1
        PROVE  /\ Complete(RestOf(Sent, k - 1))
               /\ heard'[k] = FromWire(FrameOf(RestOf(Sent, k - 1)))
    <3>1. CASE k = n + 1
      <4>1. k - 1 = n
        BY <1>0, <3>1
      <4> QED BY ONLY <1>6, <1>7, <1>9, <3>1, <4>1 DEF m
    <3>2. CASE k # n + 1
      <4>1. k \in 1 .. n
        BY ONLY <1>0, <3>2, k \in 1 .. n + 1
      <4> QED BY ONLY <1>1, <1>9, <4>1 DEF HeardOf
    <3> QED BY <3>1, <3>2
  <2>2. Len(heard') = n + 1
    BY <1>9
  <2> HIDE DEF n
  <2>3. \A k \in 1 .. Len(heard') :
           Complete(RestOf(Sent', k - 1)) /\ heard'[k] = FromWire(FrameOf(RestOf(Sent', k - 1)))
    BY ONLY <1>10, <2>1, <2>2
  <2> QED BY ONLY <2>3 DEF HeardOf
<1>15. LeftOf(Sent)'
  <2>1. RestOf(Sent', Len(heard')) = After(r)
    BY ONLY <1>0, <1>9, <1>10, RestNext
  <2> QED BY ONLY <1>3, <1>6, <2>1 DEF LeftOf
<1> QED BY <1>12, <1>13, <1>14, <1>15, InvNow

\* Every step keeps the invariant.
LEMMA InvNext == Inv /\ [Next]_vars => Inv'
<1> SUFFICES ASSUME Inv, [Next]_vars PROVE Inv'
  OBVIOUS
<1> QED BY InvSends, InvArrive, InvQuiet, InvReadLength, InvReadFrame DEF Next

-----------------------------------------------------------------------------
(* The theorems.                                                           *)

\* The invariant holds in every reachable state.
THEOREM Invariant == Spec => []Inv
BY InvInit, InvNext, PTL DEF Spec

\* Every variable keeps its type; no length above the limit is accepted.
THEOREM TypeCorrect == Spec => []TypeOK
<1>1. Inv => TypeOK
  BY DEF Inv, Typed, Stage, TypeOK, Bytes, Byte
<1> QED BY <1>1, Invariant, PTL

\* Only a hello response without issue and StartTraffic lead to the proxy, for
\* any junk, and it finds the stream as Ebbflow left it behind them.
THEOREM TrafficTheorem == Spec => []TrafficIntact
<1>1. Inv => TrafficIntact
  <2> SUFFICES ASSUME Inv, pc \in {"local", "proxy"}
               PROVE  /\ FromWire(FrameOf(BytesFrom(1))) = Hello
                      /\ FromWire(FrameOf(After(BytesFrom(1)))) = Start
                      /\ Cat(arrived, coming) = After(After(BytesFrom(1)))
    BY DEF TrafficIntact, Hello, Start, Cat
  <2>1. HeardOf(BytesFrom(1)) /\ LeftOf(BytesFrom(1))
    BY DEF Inv
  <2>2. Len(heard) = 2 /\ heard[1] = Hello /\ heard[2] = Start /\ want = NoLength
    BY DEF Inv, Stage
  <2>3. 1 \in 1 .. Len(heard) /\ 2 \in 1 .. Len(heard) /\ 1 - 1 = 0 /\ 2 - 1 = 1
    BY ONLY <2>2
  <2>4. heard[1] = FromWire(FrameOf(BytesFrom(1)))
    BY ONLY <2>1, <2>3 DEF HeardOf, RestOf
  <2>5. heard[2] = FromWire(FrameOf(After(BytesFrom(1))))
    BY ONLY <2>1, <2>3 DEF HeardOf, RestOf
  <2>6. Cat(arrived, coming) = After(After(BytesFrom(1)))
    BY ONLY <2>1, <2>2 DEF LeftOf, RestOf
  <2> QED BY ONLY <2>2, <2>4, <2>5, <2>6
<1> QED BY <1>1, Invariant, PTL

\* Messages that Ebbflow sends first are the frames the reader finds.
LEMMA MessagesFirst ==
    ASSUME NEW s \in Seq(Item), NEW n \in 0 .. 2, n <= Len(s),
           \A i \in 1 .. n : s[i].tag = "message"
    PROVE  /\ RestOf(StreamOf(s, 1), n) = StreamOf(s, n + 1)
           /\ \A k \in 1 .. n : FromWire(FrameOf(RestOf(StreamOf(s, 1), k - 1))) = s[k].message
<1>0. Len(s) \in Nat
  OBVIOUS
<1>1. ASSUME NEW k \in 1 .. n
      PROVE  /\ FromWire(FrameOf(StreamOf(s, k))) = s[k].message
             /\ After(StreamOf(s, k)) = StreamOf(s, k + 1)
  <2>1. k \in 1 .. Len(s) /\ k + 1 \in 1 .. Len(s) + 1
    BY <1>0
  <2>2. s[k] \in Item /\ s[k].tag = "message"
    BY <2>1
  <2>3. s[k].message \in Message /\ BytesOf(s[k]) = ToWire(s[k].message)
    BY ONLY <2>2, ItemFacts
  <2>4. StreamOf(s, k) = Cat(ToWire(s[k].message), StreamOf(s, k + 1))
    BY ONLY <2>1, <2>3, s \in Seq(Item), StreamFirst
  <2>5. StreamOf(s, k + 1) \in Bytes
    BY ONLY <2>1, s \in Seq(Item), StreamTyped
  <2> QED BY ONLY <2>3, <2>4, <2>5, FrameInFront
<1>2. ASSUME NEW k \in 0 .. n PROVE RestOf(StreamOf(s, 1), k) = StreamOf(s, k + 1)
  <2>1. CASE k = 0
    <3>1. k + 1 = 1
      BY <2>1
    <3> QED BY ONLY <2>1, <3>1 DEF RestOf
  <2>2. CASE k = 1
    <3>1. 1 \in 1 .. n /\ k + 1 = 1 + 1
      BY <2>2
    <3> QED BY ONLY <1>1, <2>2, <3>1 DEF RestOf
  <2>3. CASE k = 2
    <3>1. 1 \in 1 .. n /\ 2 \in 1 .. n /\ 1 + 1 = 2 /\ k + 1 = 2 + 1 /\ k # 0 /\ k # 1
      BY <2>3
    <3>2. After(StreamOf(s, 1)) = StreamOf(s, 2) /\ After(StreamOf(s, 2)) = StreamOf(s, 2 + 1)
      BY ONLY <1>1, <3>1
    <3> QED BY ONLY <3>1, <3>2 DEF RestOf
  <2>4. k = 0 \/ k = 1 \/ k = 2
    BY ONLY k \in 0 .. n, n \in 0 .. 2
  <2> QED BY ONLY <2>1, <2>2, <2>3, <2>4
<1>3. ASSUME NEW k \in 1 .. n
      PROVE  FromWire(FrameOf(RestOf(StreamOf(s, 1), k - 1))) = s[k].message
  <2>1. k - 1 \in 0 .. n /\ (k - 1) + 1 = k
    BY ONLY k \in 1 .. n, n \in 0 .. 2
  <2>2. RestOf(StreamOf(s, 1), k - 1) = StreamOf(s, k)
    BY ONLY <1>2, <2>1
  <2> QED BY ONLY <1>1, <2>2, k \in 1 .. n
<1>4. n \in 0 .. n
  OBVIOUS
<1> QED BY ONLY <1>2, <1>3, <1>4

\* Of an Ebbflow that sends well-formed frames the reader hears exactly these,
\* and what it has not read begins where a frame does, or behind its length.
THEOREM AlignedTheorem == Spec => []Aligned
<1>1. Inv => Aligned
  <2> SUFFICES ASSUME Inv, Len(heard) <= Len(items),
                      \A i \in 1 .. Len(heard) : items[i].tag = "message"
               PROVE  /\ \A i \in 1 .. Len(heard) : heard[i] = items[i].message
                      /\ pc # "failed" =>
                           Cat(arrived, coming) =
                             IF want = NoLength THEN BytesFrom(Len(heard) + 1)
                             ELSE Drop(BytesFrom(Len(heard) + 1), Width)
    BY DEF Aligned, Cat
  <2>1. /\ Len(heard) \in 0 .. 2 /\ HeardOf(Sent) /\ (pc # "failed" => LeftOf(Sent))
    BY InvFacts
  <2>2. items \in Seq(Item)
    BY DEF Inv, Typed
  <2>3. /\ RestOf(Sent, Len(heard)) = StreamOf(items, Len(heard) + 1)
        /\ \A k \in 1 .. Len(heard) : FromWire(FrameOf(RestOf(Sent, k - 1))) = items[k].message
    BY <2>1, <2>2, MessagesFirst DEF Sent
  <2>4. BytesFrom(Len(heard) + 1) = StreamOf(items, Len(heard) + 1)
    BY BytesFromStream
  <2>5. \A i \in 1 .. Len(heard) : heard[i] = items[i].message
    BY ONLY <2>1, <2>3 DEF HeardOf
  <2>6. ASSUME pc # "failed"
        PROVE  Cat(arrived, coming) =
                 IF want = NoLength THEN BytesFrom(Len(heard) + 1)
                 ELSE Drop(BytesFrom(Len(heard) + 1), Width)
    BY ONLY <2>1, <2>3, <2>4, <2>6 DEF LeftOf
  <2> QED BY ONLY <2>5, <2>6
<1> QED BY <1>1, Invariant, PTL
=============================================================================
