--------------------------- MODULE ParsingProofs ---------------------------
(***************************************************************************)
(* Proofs about what is read from command lines and configuration files:   *)
(* numbers, addresses, and the sections of a file, of any length.          *)
(***************************************************************************)
EXTENDS MCParsing, FiniteSetTheorems, SequenceTheorems, WellFoundedInduction, TLAPS

----------------------------------------------------------------------------
(* Induction, about a set of numbers in place of a predicate               *)

\* A set of numbers that is not empty has a least element.
LEMMA Least ==
    ASSUME NEW T \in SUBSET Nat, T # {}
    PROVE  \E x \in T : \A y \in T : x <= y
<1> DEFINE R == OpToRel(<, Nat)
<1>1. IsWellFoundedOn(R, Nat)
  BY NatLessThanWellFounded
<1>2. \A y, x \in Nat : <<y, x>> \in R <=> y < x
  BY DEF OpToRel
<1> HIDE DEF R
<1>3. PICK x \in T : \A y \in T : ~(<<y, x>> \in R)
  BY <1>1, WFMin
<1>4. ASSUME NEW y \in T PROVE x <= y
  <2>1. x \in Nat /\ y \in Nat
    OBVIOUS
  <2>2. ~(y < x)
    BY <1>2, <1>3, <2>1, Zenon
  <2> QED  BY <2>1, <2>2
<1> QED  BY <1>4

\* A set of numbers with 0 that is closed under successors has them all.
LEMMA Induction ==
    ASSUME NEW S, 0 \in S, \A n \in Nat : n \in S => n + 1 \in S
    PROVE  Nat \subseteq S
<1> SUFFICES ASSUME Nat \ S # {} PROVE FALSE
  OBVIOUS
<1>1. PICK x \in Nat \ S : \A y \in Nat \ S : x <= y
  BY Least
<1>2. x # 0 /\ x - 1 \in Nat /\ x - 1 < x
  BY <1>1
<1>3. x - 1 \in S
  BY <1>1, <1>2
<1> QED  BY <1>1, <1>2, <1>3

\* A function of 0 .. n that is computed from its value before: f[k] is b times
\* that, plus d[k].
Computed(f, n, a, b, d) == f[0] = a /\ \A k \in 1 .. n : f[k] = b * f[k - 1] + d[k]

\* There is such a function.
LEMMA Computable ==
    ASSUME NEW a \in Nat, NEW b \in Nat, NEW d \in [Nat -> Nat], NEW n \in Nat
    PROVE  \E f \in [0 .. n -> Nat] : Computed(f, n, a, b, d)
<1> DEFINE S == {m \in Nat : \E f \in [0 .. m -> Nat] : Computed(f, m, a, b, d)}
<1>1. 0 \in S
  <2> DEFINE f == [k \in 0 .. 0 |-> a]
  <2>1. f \in [0 .. 0 -> Nat] /\ Computed(f, 0, a, b, d)
    BY DEF Computed
  <2> QED  BY <2>1
<1>2. ASSUME NEW m \in Nat, m \in S PROVE m + 1 \in S
  <2>1. PICK f \in [0 .. m -> Nat] : Computed(f, m, a, b, d)
    BY <1>2
  <2> DEFINE v == b * f[m] + d[m + 1]
             g == [k \in 0 .. m + 1 |-> IF k = m + 1 THEN v ELSE f[k]]
  <2>2. v \in Nat
    <3>1. PICK x \in Nat : x = f[m]
      OBVIOUS
    <3>2. PICK y \in Nat : y = d[m + 1]
      OBVIOUS
    <3>3. b * x \in Nat
      OBVIOUS
    <3>4. PICK z \in Nat : z = b * x
      BY <3>3
    <3>5. z + y \in Nat
      OBVIOUS
    <3> QED  BY <3>1, <3>2, <3>4, <3>5
  <2>3. \A k \in 0 .. m + 1 : k = m + 1 \/ k \in 0 .. m
    OBVIOUS
  <2>4. g \in [0 .. m + 1 -> Nat]
    <3> HIDE DEF v
    <3> QED  BY <2>2, <2>3
  <2>5. Computed(g, m + 1, a, b, d)
    <3>1. g[0] = a
      BY <2>1 DEF Computed
    <3>2. ASSUME NEW k \in 1 .. m + 1 PROVE g[k] = b * g[k - 1] + d[k]
      <4>1. k - 1 \in 0 .. m /\ g[k - 1] = f[k - 1]
        OBVIOUS
      <4>2. CASE k = m + 1
        <5>1. g[k] = v /\ k - 1 = m
          BY <4>2
        <5> QED  BY <4>1, <4>2, <5>1
      <4>3. CASE k # m + 1
        <5>1. k \in 1 .. m /\ g[k] = f[k]
          BY <4>3
        <5> QED  BY <2>1, <4>1, <5>1 DEF Computed
      <4> QED  BY <4>2, <4>3
    <3> QED  BY <3>1, <3>2 DEF Computed
  <2> HIDE DEF g
  <2>6. m + 1 \in Nat
    OBVIOUS
  <2> QED  BY <2>4, <2>5, <2>6, Zenon
<1> HIDE DEF S
<1>3. n \in S
  BY <1>1, <1>2, Induction
<1> QED  BY <1>3 DEF S

\* A function that follows the rule where the value before is a number has
\* numbers as values.
Follows(f, n, a, b, d) ==
    f[0] = a /\ \A k \in 1 .. n : f[k - 1] \in Nat => f[k] = b * f[k - 1] + d[k]

\* It is computed everywhere.
LEMMA ComputedType ==
    ASSUME NEW a \in Nat, NEW b \in Nat, NEW d \in [Nat -> Nat], NEW n \in Nat, NEW f,
           Follows(f, n, a, b, d)
    PROVE  Computed(f, n, a, b, d) /\ \A k \in 0 .. n : f[k] \in Nat
<1> DEFINE S == {m \in Nat : m <= n => f[m] \in Nat}
<1>1. 0 \in S
  BY DEF Follows
<1>2. ASSUME NEW m \in Nat, m \in S PROVE m + 1 \in S
  <2> SUFFICES ASSUME m + 1 <= n PROVE f[m + 1] \in Nat
    OBVIOUS
  <2>1. m + 1 \in 1 .. n /\ (m + 1) - 1 = m /\ f[m] \in Nat
    BY <1>2
  <2>2. f[m + 1] = b * f[m] + d[m + 1]
    BY <2>1 DEF Follows
  <2>3. b * f[m] \in Nat /\ d[m + 1] \in Nat
    BY <2>1
  <2> QED  BY <2>2, <2>3
<1> HIDE DEF S
<1>3. Nat \subseteq S
  BY <1>1, <1>2, Induction
<1>4. \A k \in 0 .. n : f[k] \in Nat
  BY <1>3 DEF S
<1>5. ASSUME NEW k \in 1 .. n PROVE f[k] = b * f[k - 1] + d[k]
  <2>1. k - 1 \in 0 .. n
    OBVIOUS
  <2> QED  BY <1>4, <2>1 DEF Follows
<1> QED  BY <1>4, <1>5 DEF Computed, Follows

----------------------------------------------------------------------------
(* Digits, and the two ways to read them                                   *)

\* A digit counts 0 to 9 and is no sign.
LEMMA DigitType ==
    ASSUME NEW c \in Range(digits)
    PROVE  DigitValue(c) \in 0 .. 9 /\ c # "-"
<1>1. DOMAIN digits = 1 .. 10 /\ \A k \in 1 .. 10 : digits[k] # "-"
  BY DEF digits
<1>2. \E k \in DOMAIN digits : digits[k] = c
  BY DEF Range
<1>3. (CHOOSE k \in DOMAIN digits : digits[k] = c) \in DOMAIN digits
  BY <1>2
<1>4. DigitValue(c) \in 0 .. 9
  BY <1>1, <1>3 DEF DigitValue
<1> QED  BY <1>1, <1>2, <1>4

\* The digits of a text of digits, as a function of all numbers.
DigitOf(s) == [k \in Nat |-> IF k \in 1 .. Len(s) THEN DigitValue(s[k]) ELSE 0]

Digital(s) == s \in Seq(STRING) /\ Range(s) \subseteq Range(digits)

\* It is one of numbers, and gives the digits of the text.
LEMMA DigitOfType ==
    ASSUME NEW s, Digital(s)
    PROVE  /\ Len(s) \in Nat /\ DigitOf(s) \in [Nat -> Nat]
           /\ \A k \in 1 .. Len(s) : DigitOf(s)[k] = DigitValue(s[k]) /\ DigitValue(s[k]) \in Nat
<1>1. Len(s) \in Nat /\ DOMAIN s = 1 .. Len(s)
  BY DEF Digital
<1>2. ASSUME NEW k \in 1 .. Len(s) PROVE DigitValue(s[k]) \in Nat /\ k \in Nat
  <2>1. s[k] \in Range(digits)
    BY <1>1 DEF Digital, Range
  <2> QED  BY <1>1, <2>1, DigitType
<1> QED  BY <1>1, <1>2 DEF DigitOf

\* What strtoull accumulates.
LEMMA AccumulateRule ==
    ASSUME NEW s, Digital(s)
    PROVE  /\ Computed(Accumulate(s), Len(s), 0, 10, DigitOf(s))
           /\ \A k \in 0 .. Len(s) : Accumulate(s)[k] \in Nat
<1>1. PICK n \in Nat : n = Len(s)
  BY DigitOfType
<1> DEFINE Rule(f) == [k \in 0 .. Len(s) |-> IF k = 0 THEN 0 ELSE 10 * f[k - 1] + DigitValue(s[k])]
<1>2. PICK f \in [0 .. n -> Nat] : Computed(f, n, 0, 10, DigitOf(s))
  BY DigitOfType, Computable
<1>3. f = Rule(f)
  <2>1. \A k \in 0 .. n : f[k] = IF k = 0 THEN 0 ELSE 10 * f[k - 1] + DigitValue(s[k])
    <3>1. f[0] = 0 /\ \A k \in 1 .. n : f[k] = 10 * f[k - 1] + DigitOf(s)[k]
      BY <1>2 DEF Computed
    <3>2. \A k \in 1 .. n : DigitOf(s)[k] = DigitValue(s[k])
      BY <1>1, DigitOfType
    <3>3. \A k \in 0 .. n : k = 0 \/ k \in 1 .. n
      OBVIOUS
    <3> QED  BY <3>1, <3>2, <3>3, Zenon
  <2> QED  BY <1>1, <2>1
<1>4. Accumulate(s) = CHOOSE g : g = Rule(g)
  BY Zenon DEF Accumulate
<1> DEFINE A == Accumulate(s)
<1> HIDE DEF A
<1>5. A = Rule(A)
  BY <1>3, <1>4, Zenon DEF A
<1>6. A[0] = 0 /\ \A k \in 1 .. n : A[k] = 10 * A[k - 1] + DigitOf(s)[k]
  <2>1. 0 \in 0 .. n /\ \A k \in 1 .. n : k \in 0 .. n /\ k # 0
    OBVIOUS
  <2>2. \A k \in 0 .. n : A[k] = IF k = 0 THEN 0 ELSE 10 * A[k - 1] + DigitValue(s[k])
    BY <1>1, <1>5, Zenon
  <2> QED  BY <1>1, <2>1, <2>2, DigitOfType, Zenon
<1>7. DigitOf(s) \in [Nat -> Nat]
  BY DigitOfType
<1>8. Follows(A, n, 0, 10, DigitOf(s)) /\ 0 \in Nat /\ 10 \in Nat
  BY <1>6 DEF Follows
<1>9. Computed(A, n, 0, 10, DigitOf(s)) /\ \A k \in 0 .. n : A[k] \in Nat
  BY <1>7, <1>8, ComputedType, Zenon
<1> QED  BY <1>1, <1>9 DEF A

\* The powers of ten.
LEMMA PowersRule ==
    ASSUME NEW n \in Nat
    PROVE  /\ Powers(n)[0] = 1 /\ \A k \in 1 .. n : Powers(n)[k] = 10 * Powers(n)[k - 1]
           /\ \A k \in 0 .. n : Powers(n)[k] \in Nat
<1> DEFINE Rule(f) == [k \in 0 .. n |-> IF k = 0 THEN 1 ELSE 10 * f[k - 1]]
           d == [k \in Nat |-> 0]
<1>1. d \in [Nat -> Nat] /\ \A k \in 1 .. n : d[k] = 0
  OBVIOUS
<1> HIDE DEF d
<1>2. PICK f \in [0 .. n -> Nat] : Computed(f, n, 1, 10, d)
  BY <1>1, Computable
<1>3. f = Rule(f)
  <2>1. \A k \in 1 .. n : f[k] = 10 * f[k - 1] + d[k] /\ k - 1 \in 0 .. n
    BY <1>2 DEF Computed
  <2>2. \A k \in 1 .. n : f[k] = 10 * f[k - 1]
    BY <1>1, <2>1
  <2>3. f[0] = 1 /\ \A k \in 0 .. n : k = 0 \/ k \in 1 .. n
    BY <1>2 DEF Computed
  <2>4. \A k \in 0 .. n : f[k] = IF k = 0 THEN 1 ELSE 10 * f[k - 1]
    BY <2>2, <2>3, Zenon
  <2> QED  BY <2>4
<1>4. Powers(n) = CHOOSE g : g = Rule(g)
  BY Zenon DEF Powers
<1> DEFINE P == Powers(n)
<1> HIDE DEF P
<1>5. P = Rule(P)
  BY <1>3, <1>4, Zenon DEF P
<1>6. P[0] = 1 /\ \A k \in 1 .. n : P[k] = 10 * P[k - 1]
  <2>1. 0 \in 0 .. n /\ \A k \in 1 .. n : k \in 0 .. n /\ k # 0
    OBVIOUS
  <2>2. \A k \in 0 .. n : P[k] = IF k = 0 THEN 1 ELSE 10 * P[k - 1]
    BY <1>5, Zenon
  <2> QED  BY <2>1, <2>2, Zenon
<1>7. Follows(P, n, 1, 10, d) /\ 1 \in Nat /\ 10 \in Nat
  <2>1. ASSUME NEW k \in 1 .. n, P[k - 1] \in Nat PROVE P[k] = 10 * P[k - 1] + d[k]
    <3>1. PICK x \in Nat : x = P[k - 1]
      BY <2>1
    <3>2. P[k] = 10 * x /\ d[k] = 0
      BY <1>1, <1>6, <3>1
    <3> QED  BY <3>1, <3>2
  <2> QED  BY <1>6, <2>1 DEF Follows
<1>8. \A k \in 0 .. n : P[k] \in Nat
  BY <1>1, <1>7, ComputedType, Zenon
<1> QED  BY <1>6, <1>8 DEF P

\* What each digit counts in its place.
PlaceOf(s) ==
    [k \in Nat |-> IF k \in 1 .. Len(s) THEN DigitValue(s[k]) * Powers(Len(s))[Len(s) - k] ELSE 0]

\* It is one of numbers.
LEMMA PlaceOfType ==
    ASSUME NEW s, Digital(s)
    PROVE  /\ PlaceOf(s) \in [Nat -> Nat]
           /\ \A k \in 1 .. Len(s) :
                  PlaceOf(s)[k] = DigitValue(s[k]) * Powers(Len(s))[Len(s) - k]
<1>1. PICK n \in Nat : n = Len(s)
  BY DigitOfType
<1>2. ASSUME NEW k \in 1 .. n PROVE DigitValue(s[k]) * Powers(n)[n - k] \in Nat
  <2>1. PICK x \in Nat : x = DigitValue(s[k])
    BY <1>1, DigitOfType
  <2>2. n - k \in 0 .. n
    OBVIOUS
  <2>3. PICK y \in Nat : y = Powers(n)[n - k]
    BY <2>2, PowersRule
  <2>4. x * y \in Nat
    OBVIOUS
  <2> QED  BY <2>1, <2>3, <2>4
<1>3. \A k \in 1 .. n : k \in Nat
  OBVIOUS
<1> QED  BY <1>1, <1>2, <1>3 DEF PlaceOf

\* What Denotes sums up.
LEMMA SumsRule ==
    ASSUME NEW s, Digital(s)
    PROVE  /\ Computed(Sums(s), Len(s), 0, 1, PlaceOf(s))
           /\ \A k \in 0 .. Len(s) : Sums(s)[k] \in Nat
<1>1. PICK n \in Nat : n = Len(s)
  BY DigitOfType
<1> DEFINE Rule(f) ==
        [k \in 0 .. Len(s) |->
            IF k = 0 THEN 0 ELSE f[k - 1] + DigitValue(s[k]) * Powers(Len(s))[Len(s) - k]]
<1>2. PICK d \in [Nat -> Nat] : d = PlaceOf(s)
  BY PlaceOfType
<1>3. \A k \in 1 .. n : d[k] = DigitValue(s[k]) * Powers(Len(s))[Len(s) - k]
  BY <1>1, <1>2, PlaceOfType
<1>4. PICK f \in [0 .. n -> Nat] : Computed(f, n, 0, 1, d)
  BY Computable
<1>5. f = Rule(f)
  <2>1. \A k \in 1 .. n : f[k] = 1 * f[k - 1] + d[k] /\ k - 1 \in 0 .. n
    BY <1>4 DEF Computed
  <2>2. \A k \in 1 .. n : f[k] = f[k - 1] + d[k]
    BY <2>1
  <2>3. f[0] = 0 /\ \A k \in 0 .. n : k = 0 \/ k \in 1 .. n
    BY <1>4 DEF Computed
  <2>4. \A k \in 0 .. Len(s) :
            f[k] = IF k = 0 THEN 0
                   ELSE f[k - 1] + DigitValue(s[k]) * Powers(Len(s))[Len(s) - k]
    BY <1>1, <1>3, <2>2, <2>3, Zenon
  <2>5. f = [k \in 0 .. Len(s) |-> f[k]]
    BY <1>1
  <2> QED  BY <2>4, <2>5, Zenon
<1>6. Sums(s) = CHOOSE g : g = Rule(g)
  BY Zenon DEF Sums
<1> DEFINE U == Sums(s)
<1> HIDE DEF U
<1>7. U = Rule(U)
  BY <1>5, <1>6, Zenon DEF U
<1>8. U[0] = 0 /\ \A k \in 1 .. n : U[k] = U[k - 1] + d[k]
  <2>1. 0 \in 0 .. n /\ \A k \in 1 .. n : k \in 0 .. n /\ k # 0
    OBVIOUS
  <2>2. \A k \in 0 .. n : U[k] = IF k = 0 THEN 0
                                 ELSE U[k - 1] + DigitValue(s[k]) * Powers(Len(s))[Len(s) - k]
    BY <1>1, <1>7, Zenon
  <2> QED  BY <1>3, <2>1, <2>2, Zenon
<1>9. Follows(U, n, 0, 1, d) /\ 0 \in Nat /\ 1 \in Nat
  <2>1. ASSUME NEW k \in 1 .. n, U[k - 1] \in Nat PROVE U[k] = 1 * U[k - 1] + d[k]
    <3>1. PICK x \in Nat : x = U[k - 1]
      BY <2>1
    <3>2. U[k] = x + d[k]
      BY <1>8, <3>1, Zenon
    <3>3. x = 1 * x
      OBVIOUS
    <3> QED  BY <3>1, <3>2, <3>3, Zenon
  <2> QED  BY <1>8, <2>1 DEF Follows
<1>10. Computed(U, n, 0, 1, d) /\ \A k \in 0 .. n : U[k] \in Nat
  BY <1>9, ComputedType, Zenon
<1> QED  BY <1>1, <1>2, <1>10 DEF U

\* Reading from the left, a value is short of the sum by the power of ten of
\* the digits to come.
LEMMA LeftToRight ==
    ASSUME NEW s, Digital(s)
    PROVE  Accumulate(s)[Len(s)] = Denotes(s) /\ Denotes(s) \in Nat
<1>1. PICK n \in Nat : n = Len(s)
  BY DigitOfType
<1> DEFINE A == Accumulate(s)
           P == Powers(n)
           U == Sums(s)
           S == {m \in Nat : m <= n => A[m] * P[n - m] = U[m]}
<1>2. A[0] = 0 /\ \A k \in 1 .. n : A[k] = 10 * A[k - 1] + DigitValue(s[k]) /\ DigitValue(s[k]) \in Nat
  BY <1>1, AccumulateRule, DigitOfType DEF Computed
<1>3. U[0] = 0 /\ \A k \in 1 .. n : U[k] = 1 * U[k - 1] + DigitValue(s[k]) * P[n - k]
  <2>1. U[0] = 0 /\ \A k \in 1 .. n : U[k] = 1 * U[k - 1] + PlaceOf(s)[k]
    BY <1>1, SumsRule DEF Computed
  <2>2. \A k \in 1 .. n : PlaceOf(s)[k] = DigitValue(s[k]) * P[n - k]
    BY <1>1, PlaceOfType
  <2> QED  BY <2>1, <2>2, Zenon
<1>4. P[0] = 1 /\ \A k \in 1 .. n : P[k] = 10 * P[k - 1]
  BY PowersRule
<1>5. \A k \in 0 .. n : A[k] \in Nat /\ U[k] \in Nat /\ P[k] \in Nat
  BY <1>1, AccumulateRule, SumsRule, PowersRule
<1> HIDE DEF A, P, U
<1>6. 0 \in S
  <2>1. PICK p \in Nat : p = P[n - 0]
    BY <1>5
  <2>2. 0 * p = 0
    OBVIOUS
  <2> QED  BY <1>2, <1>3, <2>1, <2>2
<1>7. ASSUME NEW m \in Nat, m \in S PROVE m + 1 \in S
  <2> SUFFICES ASSUME m + 1 <= n PROVE A[m + 1] * P[n - (m + 1)] = U[m + 1]
    OBVIOUS
  <2>1. PICK k \in 1 .. n : k = m + 1 /\ k - 1 = m
    OBVIOUS
  <2>2. PICK q \in 0 .. n : q = n - k /\ q + 1 = n - m /\ q + 1 \in 1 .. n /\ (q + 1) - 1 = q
    BY <2>1
  <2>3. PICK x \in Nat, u \in Nat : x = A[m] /\ u = U[m]
    BY <1>5, <2>1
  <2>4. PICK z \in Nat : z = P[q]
    BY <1>5
  <2>5. PICK y \in Nat : y = DigitValue(s[k])
    BY <1>2
  <2>6. P[n - m] = 10 * z
    BY <1>4, <2>2, <2>4
  <2>7. A[k] = 10 * x + y
    BY <1>2, <2>1, <2>3, <2>5
  <2>8. U[k] = u + y * z
    <3>1. U[k] = 1 * u + y * z
      BY <1>3, <2>1, <2>2, <2>3, <2>4, <2>5
    <3> QED  BY <3>1
  <2>9. x * (10 * z) = u
    BY <1>7, <2>3, <2>6
  <2>10. (10 * x + y) * z = x * (10 * z) + y * z
    OBVIOUS
  <2> QED  BY <2>1, <2>2, <2>4, <2>7, <2>8, <2>9, <2>10
<1>8. n \in S
  <2> HIDE DEF S
  <2> QED  BY <1>6, <1>7, Induction
<1>9. PICK x \in Nat, u \in Nat : x = A[n] /\ u = U[n]
  BY <1>5
<1>10. x * 1 = u
  BY <1>4, <1>8, <1>9
<1>11. x = u
  BY <1>10
<1> QED  BY <1>1, <1>9, <1>11 DEF A, U, Denotes

----------------------------------------------------------------------------
(* str_to_integral                                                         *)

\* There is a first character that is no digit, or there are only digits.
LEMMA DigitsOfRule ==
    ASSUME NEW s \in Seq(STRING)
    PROVE  /\ DigitsOf(s) \in 0 .. Len(s)
           /\ \A i \in 1 .. DigitsOf(s) : s[i] \in Range(digits)
           /\ DigitsOf(s) < Len(s) => s[DigitsOf(s) + 1] \notin Range(digits)
<1> DEFINE Stops(k) == /\ \A i \in 1 .. k : s[i] \in Range(digits)
                       /\ k < Len(s) => s[k + 1] \notin Range(digits)
           T == {i \in 1 .. Len(s) : s[i] \notin Range(digits)}
<1>1. \E k \in 0 .. Len(s) : Stops(k)
  <2>1. CASE T = {}
    <3>1. Stops(Len(s)) /\ Len(s) \in 0 .. Len(s)
      BY <2>1
    <3> QED  BY <3>1, Zenon
  <2>2. CASE T # {}
    <3>1. T \in SUBSET Nat
      OBVIOUS
    <3>2. PICK x \in T : \A y \in T : x <= y
      <4> HIDE DEF T
      <4> QED  BY <2>2, <3>1, Least
    <3>3. PICK k \in 0 .. Len(s) : k = x - 1 /\ k + 1 = x
      BY <3>2
    <3>4. Stops(k)
      BY <3>2, <3>3
    <3> QED  BY <3>4
  <2> QED  BY <2>1, <2>2
<1>2. DigitsOf(s) = CHOOSE k \in 0 .. Len(s) : Stops(k)
  BY Zenon DEF DigitsOf
<1>3. DigitsOf(s) \in 0 .. Len(s) /\ Stops(DigitsOf(s))
  <2> HIDE DEF Stops
  <2> QED  BY <1>1, <1>2
<1> QED  BY <1>3

\* Every character of a text is in its range.
LEMMA CharactersOf ==
    ASSUME NEW s \in Seq(STRING), NEW C, Range(s) \subseteq C
    PROVE  \A i \in 1 .. Len(s) : s[i] \in C
BY DEF Range

\* What strtoull makes of a text: no digits, or the number of the first of them.
LEMMA StrtoullRule ==
    ASSUME NEW s \in Seq(STRING)
    PROVE  /\ strtoull(s) \in {NoDigits, Threw} \/ \E v \in Nat : strtoull(s) = <<v>>
           /\ s # <<>> /\ Range(s) \subseteq Range(digits) =>
                  strtoull(s) = IF Denotes(s) > ULLONG_MAX THEN Threw ELSE <<Denotes(s)>>
<1>1. PICK n \in 0 .. Len(s) :
          /\ n = DigitsOf(s)
          /\ \A i \in 1 .. n : s[i] \in Range(digits)
          /\ n < Len(s) => s[n + 1] \notin Range(digits)
  BY DigitsOfRule
<1> DEFINE t == SubSeq(s, 1, n)
<1>2. t \in Seq(STRING) /\ Len(t) = n /\ \A i \in 1 .. n : t[i] = s[i]
  OBVIOUS
<1>3. Digital(t)
  BY <1>1, <1>2 DEF Digital, Range
<1>4. n = Len(s) => t = s
  BY <1>2
<1> HIDE DEF t
<1>5. PICK v \in Nat : v = Accumulate(t)[n] /\ v = Denotes(t)
  BY <1>2, <1>3, LeftToRight
<1>6. strtoull(s) = IF n = 0 THEN NoDigits ELSE IF v > ULLONG_MAX THEN Threw ELSE <<v>>
  BY <1>1, <1>5, Zenon DEF strtoull, t
<1>7. ASSUME s # <<>>, Range(s) \subseteq Range(digits)
      PROVE  strtoull(s) = IF Denotes(s) > ULLONG_MAX THEN Threw ELSE <<Denotes(s)>>
  <2>1. \A i \in 1 .. Len(s) : s[i] \in Range(digits)
    BY <1>7, CharactersOf
  <2>2. n = Len(s) /\ n # 0
    BY <1>1, <1>7, <2>1
  <2>3. v = Denotes(s)
    BY <1>4, <1>5, <2>2
  <2> QED  BY <1>6, <2>2, <2>3
<1>8. strtoull(s) \in {NoDigits, Threw} \/ \E u \in Nat : strtoull(s) = <<u>>
  BY <1>6
<1> QED  BY <1>7, <1>8

\* str_to_integral is exact for every text and type.
LEMMA NumberIsExact ==
    ASSUME NEW s \in Seq(STRING), NEW max \in Nat, max <= ULLONG_MAX
    PROVE  NumberExact(max, s)
<1> DEFINE value == stoull_with_checks(s)
           r == str_to_integral(max, s)
<1>1. r = IF value # Threw /\ value[1] <= max THEN value ELSE Threw
  BY DEF str_to_integral, within_bounds
<1>2. value = IF s = <<>> \/ ~contains_only_valid_characters(s, numbers) \/ s[1] = "-"
              THEN Threw ELSE strtoull(s)
  BY DEF stoull_with_checks
<1> HIDE DEF value, r
<1>3. s = <<>> \/ s[1] = "-" => r = Threw
  BY <1>1, <1>2
<1>4. ASSUME s # <<>>, Range(s) \subseteq Range(digits)
      PROVE  r = IF Denotes(s) <= max THEN <<Denotes(s)>> ELSE Threw
  <2>1. contains_only_valid_characters(s, numbers)
    BY <1>4 DEF contains_only_valid_characters, numbers
  <2>2. s[1] # "-"
    <3>1. s[1] \in Range(digits)
      BY <1>4, CharactersOf
    <3> QED  BY <3>1, DigitType
  <2>3. PICK v \in Nat : v = Denotes(s)
    BY <1>4, LeftToRight DEF Digital
  <2>4. value = IF v > ULLONG_MAX THEN Threw ELSE <<v>>
    BY <1>2, <1>4, <2>1, <2>2, <2>3, StrtoullRule
  <2>5. <<v>> # Threw /\ <<v>>[1] = v /\ ULLONG_MAX \in Nat
    BY NumbersAssumption DEF Threw
  <2>6. CASE v > ULLONG_MAX
    BY <1>1, <2>3, <2>4, <2>5, <2>6
  <2>7. CASE ~(v > ULLONG_MAX)
    BY <1>1, <2>3, <2>4, <2>5, <2>7
  <2> QED  BY <2>6, <2>7
<1>5. ASSUME r # Threw PROVE r[1] \in 0 .. max
  <2>1. r = value /\ value # Threw /\ value[1] <= max
    BY <1>1, <1>5
  <2>2. value = strtoull(s)
    BY <1>2, <2>1
  <2>3. value = <<0>> \/ \E v \in Nat : value = <<v>>
    BY <2>1, <2>2, StrtoullRule, NumbersAssumption
  <2>4. value[1] \in Nat
    BY <2>3
  <2> QED  BY <2>1, <2>4
<1> QED  BY <1>3, <1>4, <1>5 DEF NumberExact, r

----------------------------------------------------------------------------
(* Ranks in a set of line numbers                                          *)

\* What is up to i in a set of numbers is finite, and i is the only element
\* that comes in with i.
LEMMA RankType ==
    ASSUME NEW S \in SUBSET Nat, NEW i \in Nat
    PROVE  /\ IsFiniteSet({j \in S : j <= i})
           /\ Rank(S, i) \in Nat
<1> DEFINE U == {j \in S : j <= i}
<1>1. U \in SUBSET Nat /\ \A j \in U : j <= i
  OBVIOUS
<1>2. IsFiniteSet(U)
  BY <1>1, FS_BoundedSetOfNaturals
<1> QED  BY <1>2, FS_CardinalityType DEF Rank

\* A rank grows by one at an element, and nowhere else.
LEMMA RankStep ==
    ASSUME NEW S \in SUBSET Nat, NEW i \in Nat
    PROVE  Rank(S, i + 1) = IF i + 1 \in S THEN Rank(S, i) + 1 ELSE Rank(S, i)
<1> DEFINE U == {j \in S : j <= i}
           V == {j \in S : j <= i + 1}
<1>1. IsFiniteSet(U) /\ i + 1 \notin U
  BY RankType
<1>2. \A j \in S : j <= i + 1 <=> j <= i \/ j = i + 1
  <2> TAKE j \in S
  <2>1. j \in Nat
    OBVIOUS
  <2> QED  BY <2>1
<1>3. CASE i + 1 \in S
  <2>1. V = U \cup {i + 1}
    BY <1>2, <1>3, Zenon
  <2>2. Cardinality(V) = Cardinality(U) + 1
    BY <1>1, <2>1, FS_AddElement
  <2> QED  BY <1>3, <2>2 DEF Rank
<1>4. CASE i + 1 \notin S
  <2>1. V = U
    BY <1>2, <1>4, Zenon
  <2> QED  BY <1>4, <2>1 DEF Rank
<1> QED  BY <1>3, <1>4

\* It never falls.
LEMMA RankMonotonic ==
    ASSUME NEW S \in SUBSET Nat, NEW i \in Nat, NEW k \in Nat, i <= k
    PROVE  Rank(S, i) <= Rank(S, k)
<1> DEFINE U == {j \in S : j <= i}
           V == {j \in S : j <= k}
<1>1. \A j \in S : j <= i => j <= k
  <2> TAKE j \in S
  <2>1. j \in Nat
    OBVIOUS
  <2> QED  BY <2>1
<1>2. U \in SUBSET V
  BY <1>1, Zenon
<1>3. IsFiniteSet(V)
  BY RankType
<1> HIDE DEF U, V
<1>4. Cardinality(U) <= Cardinality(V)
  BY <1>3, <1>2, FS_Subset
<1> QED  BY <1>4 DEF Rank, U, V

\* Elements above a set leave the ranks in it, and come behind them.
LEMMA NthKept ==
    ASSUME NEW S \in SUBSET Nat, IsFiniteSet(S), NEW x \in Nat, \A j \in S : j < x,
           NEW k \in 1 .. Cardinality(S)
    PROVE  Nth(S \cup {x}, k) = Nth(S, k)
<1> DEFINE T == S \cup {x}
<1>1. ASSUME NEW j \in S PROVE Rank(T, j) = Rank(S, j)
  <2>1. ~(x <= j)
    <3>1. j \in Nat /\ j < x
      OBVIOUS
    <3> QED  BY <3>1
  <2>2. {l \in T : l <= j} = {l \in S : l <= j}
    BY <2>1, Zenon
  <2> QED  BY <2>2 DEF Rank
<1>2. Rank(T, x) = Cardinality(S) + 1
  <2>1. \A l \in S : l \in Nat /\ l <= x
    OBVIOUS
  <2>2. x <= x
    OBVIOUS
  <2>3. {l \in T : l <= x} = T
    BY <2>1, <2>2, Zenon
  <2>4. x \notin S
    OBVIOUS
  <2>5. Cardinality(T) = Cardinality(S) + 1
    BY <2>4, FS_AddElement
  <2> QED  BY <2>3, <2>5 DEF Rank
<1>3. Cardinality(S) \in Nat
  BY FS_CardinalityType
<1>4. Rank(T, x) # k
  BY <1>2, <1>3
<1>5. {j \in T : Rank(T, j) = k} = {j \in S : Rank(S, j) = k}
  BY <1>1, <1>4
<1> QED  BY <1>5, Zenon DEF Nth

\* The element that is added comes last.
LEMMA NthAdded ==
    ASSUME NEW S \in SUBSET Nat, IsFiniteSet(S), NEW x \in Nat, \A j \in S : j < x
    PROVE  Nth(S \cup {x}, Cardinality(S) + 1) = x
<1> DEFINE T == S \cup {x}
<1>1. Cardinality(S) \in Nat
  BY FS_CardinalityType
<1>2. Rank(T, x) = Cardinality(S) + 1
  <2>1. \A l \in S : l \in Nat /\ l <= x
    OBVIOUS
  <2>2. x <= x
    OBVIOUS
  <2>3. {l \in T : l <= x} = T
    BY <2>1, <2>2, Zenon
  <2>4. x \notin S
    OBVIOUS
  <2>5. Cardinality(T) = Cardinality(S) + 1
    BY <2>4, FS_AddElement
  <2> QED  BY <2>3, <2>5 DEF Rank
<1>3. ASSUME NEW j \in S PROVE Rank(T, j) # Cardinality(S) + 1
  <2>1. ~(x <= j)
    <3>1. j \in Nat /\ j < x
      OBVIOUS
    <3> QED  BY <3>1
  <2>2. {l \in T : l <= j} \in SUBSET S
    BY <2>1, Zenon
  <2>3. Cardinality({l \in T : l <= j}) <= Cardinality(S)
    BY <2>2, FS_Subset
  <2>4. Cardinality({l \in T : l <= j}) \in Nat
    BY <2>2, FS_Subset, FS_CardinalityType
  <2> QED  BY <1>1, <2>3, <2>4 DEF Rank
<1>4. {j \in T : Rank(T, j) = Cardinality(S) + 1} = {x}
  BY <1>2, <1>3
<1> QED  BY <1>4, Zenon DEF Nth

\* Elements have greater ranks than what is before them.
LEMMA RankStrict ==
    ASSUME NEW S \in SUBSET Nat, NEW i \in Nat, NEW k \in S, i < k
    PROVE  Rank(S, i) < Rank(S, k)
<1>1. PICK l \in Nat : l + 1 = k /\ i <= l
  <2>1. k \in Nat /\ k - 1 \in Nat /\ (k - 1) + 1 = k /\ i <= k - 1
    OBVIOUS
  <2> QED  BY <2>1
<1>2. Rank(S, k) = Rank(S, l) + 1
  BY <1>1, RankStep
<1>3. Rank(S, i) <= Rank(S, l)
  BY <1>1, RankMonotonic
<1>4. Rank(S, i) \in Nat /\ Rank(S, l) \in Nat
  BY RankType
<1> QED  BY <1>2, <1>3, <1>4

\* An element is where its rank says.
LEMMA NthIs ==
    ASSUME NEW S \in SUBSET Nat, NEW i \in S
    PROVE  Nth(S, Rank(S, i)) = i
<1>1. ASSUME NEW j \in S, j # i PROVE Rank(S, j) # Rank(S, i)
  <2>1. j \in Nat /\ i \in Nat
    OBVIOUS
  <2>2. Rank(S, j) \in Nat /\ Rank(S, i) \in Nat
    BY <2>1, RankType
  <2>3. CASE j < i
    BY <2>1, <2>2, <2>3, RankStrict
  <2>4. CASE i < j
    BY <2>1, <2>2, <2>4, RankStrict
  <2> QED  BY <1>1, <2>1, <2>3, <2>4
<1>2. {j \in S : Rank(S, j) = Rank(S, i)} = {i}
  BY <1>1, Zenon
<1> QED  BY <1>2, Zenon DEF Nth

\* The first elements of a set of numbers with 0.
LEMMA NthFirst ==
    ASSUME NEW S \in SUBSET Nat, 0 \in S
    PROVE  Nth(S, 1) = 0
<1>1. \A j \in S : j <= 0 <=> j = 0
  <2> TAKE j \in S
  <2>1. j \in Nat
    OBVIOUS
  <2> QED  BY <2>1
<1>2. {j \in S : j <= 0} = {0}
  BY <1>1, Zenon
<1>3. Rank(S, 0) = 1
  BY <1>2, FS_Singleton DEF Rank
<1> QED  BY <1>3, NthIs

\* The size of a set of two.
LEMMA PairSize ==
    ASSUME NEW m \in Nat, 0 < m
    PROVE  IsFiniteSet({0, m}) /\ Cardinality({0, m}) = 2
<1>1. IsFiniteSet({0}) /\ Cardinality({0}) = 1 /\ m \notin {0}
  BY FS_Singleton
<1>2. IsFiniteSet({0} \cup {m}) /\ Cardinality({0} \cup {m}) = 1 + 1
  BY <1>1, FS_AddElement
<1>3. {0, m} = {0} \cup {m}
  OBVIOUS
<1> QED  BY <1>2, <1>3

\* The second is the least of the others.
LEMMA NthSecond ==
    ASSUME NEW S \in SUBSET Nat, 0 \in S, NEW m \in S, 0 < m,
           \A j \in S : j = 0 \/ m <= j
    PROVE  Nth(S, 2) = m
<1>1. \A j \in S : j <= m <=> j = 0 \/ j = m
  <2> TAKE j \in S
  <2>1. j \in Nat /\ m \in Nat
    OBVIOUS
  <2> QED  BY <2>1
<1>2. {j \in S : j <= m} = {0, m}
  BY <1>1, Zenon
<1>3. Rank(S, m) = 2
  BY <1>2, PairSize DEF Rank
<1> QED  BY <1>3, NthIs

\* The size of a set of three.
LEMMA TripleSize ==
    ASSUME NEW m \in Nat, 0 < m, NEW l \in Nat, m < l
    PROVE  IsFiniteSet({0, m, l}) /\ Cardinality({0, m, l}) = 3
<1>1. IsFiniteSet({0, m}) /\ Cardinality({0, m}) = 2 /\ l \notin {0, m}
  BY PairSize
<1>2. IsFiniteSet({0, m} \cup {l}) /\ Cardinality({0, m} \cup {l}) = 2 + 1
  BY <1>1, FS_AddElement
<1>3. {0, m, l} = {0, m} \cup {l}
  OBVIOUS
<1> QED  BY <1>2, <1>3

\* The last of three is the third.
LEMMA NthThird ==
    ASSUME NEW m \in Nat, 0 < m, NEW l \in Nat, m < l
    PROVE  Nth({0, m, l}, 3) = l
<1> DEFINE S == {0, m, l}
<1>1. \A j \in S : j <= l
  OBVIOUS
<1>2. {j \in S : j <= l} = S
  BY <1>1, Zenon
<1>3. Rank(S, l) = 3
  BY <1>2, TripleSize DEF Rank
<1>4. S \in SUBSET Nat /\ l \in S
  OBVIOUS
<1> HIDE DEF S
<1>5. Nth(S, 3) = l
  BY <1>3, <1>4, NthIs
<1> QED  BY <1>5 DEF S

\* A set of one element has no two.
LEMMA AtMostOne ==
    ASSUME NEW S, IsFiniteSet(S), Cardinality(S) <= 1, NEW i \in S, NEW j \in S
    PROVE  i = j
<1> SUFFICES ASSUME i # j PROVE FALSE
  OBVIOUS
<1>1. IsFiniteSet({i}) /\ Cardinality({i}) = 1 /\ j \notin {i}
  BY FS_Singleton, Zenon
<1>2. Cardinality({i} \cup {j}) = 1 + 1
  BY <1>1, FS_AddElement
<1>3. {i} \cup {j} \in SUBSET S
  OBVIOUS
<1>4. Cardinality({i} \cup {j}) <= Cardinality(S) /\ Cardinality(S) \in Nat
  BY <1>3, FS_Subset, FS_CardinalityType
<1> QED  BY <1>2, <1>4

----------------------------------------------------------------------------
(* The pieces of a text                                                    *)

Bounds(c, delimiter) == {0, Len(c) + 1} \cup {i \in DOMAIN c : c[i] = delimiter}

Pieces(c, delimiter) ==
    [k \in 1 .. Cardinality(Bounds(c, delimiter)) - 1 |->
        SubSeq(c, Nth(Bounds(c, delimiter), k) + 1, Nth(Bounds(c, delimiter), k + 1) - 1)]

\* split drops an empty last piece.
LEMMA SplitRule ==
    ASSUME NEW c, NEW delimiter
    PROVE  split(c, delimiter) =
               IF Last(Pieces(c, delimiter)) = <<>> THEN Front(Pieces(c, delimiter))
               ELSE Pieces(c, delimiter)
BY Zenon DEF split, Pieces, Bounds

\* The bounds are finitely many numbers.
LEMMA BoundsType ==
    ASSUME NEW W, NEW c \in Seq(W), NEW delimiter
    PROVE  /\ Bounds(c, delimiter) \in SUBSET (0 .. Len(c) + 1)
           /\ Bounds(c, delimiter) \in SUBSET Nat
           /\ IsFiniteSet(Bounds(c, delimiter))
<1>1. Bounds(c, delimiter) \in SUBSET (0 .. Len(c) + 1)
  BY DEF Bounds
<1>2. IsFiniteSet(0 .. Len(c) + 1)
  BY FS_Interval
<1>3. IsFiniteSet(Bounds(c, delimiter))
  BY <1>1, <1>2, FS_Subset
<1>4. 0 .. Len(c) + 1 \subseteq Nat
  OBVIOUS
<1> QED  BY <1>1, <1>3, <1>4

\* Two bounds make one piece.
LEMMA OnePiece ==
    ASSUME NEW c, NEW delimiter, 1 .. Cardinality(Bounds(c, delimiter)) - 1 = 1 .. 1
    PROVE  Pieces(c, delimiter) =
               <<SubSeq(c, Nth(Bounds(c, delimiter), 1) + 1, Nth(Bounds(c, delimiter), 2) - 1)>>
<1> DEFINE f == Pieces(c, delimiter)
<1>1. f = [k \in 1 .. 1 |-> f[k]]
  BY Zenon DEF Pieces
<1>2. f[1] = SubSeq(c, Nth(Bounds(c, delimiter), 1) + 1, Nth(Bounds(c, delimiter), 2) - 1)
  <2>1. 1 \in 1 .. 1 /\ 1 + 1 = 2
    OBVIOUS
  <2> QED  BY <2>1, Zenon DEF Pieces
<1> HIDE DEF f
<1>3. f = <<f[1]>>
  BY <1>1
<1> QED  BY <1>2, <1>3, Zenon DEF f

\* Three bounds make two pieces.
LEMMA TwoPieces ==
    ASSUME NEW c, NEW delimiter, 1 .. Cardinality(Bounds(c, delimiter)) - 1 = 1 .. 2
    PROVE  Pieces(c, delimiter) =
               <<SubSeq(c, Nth(Bounds(c, delimiter), 1) + 1, Nth(Bounds(c, delimiter), 2) - 1),
                 SubSeq(c, Nth(Bounds(c, delimiter), 2) + 1, Nth(Bounds(c, delimiter), 3) - 1)>>
<1> DEFINE f == Pieces(c, delimiter)
<1>1. f = [k \in 1 .. 2 |-> f[k]]
  BY Zenon DEF Pieces
<1>2. /\ f[1] = SubSeq(c, Nth(Bounds(c, delimiter), 1) + 1, Nth(Bounds(c, delimiter), 2) - 1)
      /\ f[2] = SubSeq(c, Nth(Bounds(c, delimiter), 2) + 1, Nth(Bounds(c, delimiter), 3) - 1)
  <2>1. 1 \in 1 .. 2 /\ 2 \in 1 .. 2 /\ 1 + 1 = 2 /\ 2 + 1 = 3
    OBVIOUS
  <2> QED  BY <2>1, Zenon DEF Pieces
<1> HIDE DEF f
<1>3. f = <<f[1], f[2]>>
  BY <1>1
<1> QED  BY <1>2, <1>3, Zenon DEF f

\* A text without delimiters is one piece, or none if it is empty.
LEMMA SplitNone ==
    ASSUME NEW W, NEW c \in Seq(W), NEW delimiter, \A i \in 1 .. Len(c) : c[i] # delimiter
    PROVE  split(c, delimiter) = IF c = <<>> THEN <<>> ELSE <<c>>
<1> DEFINE B == Bounds(c, delimiter)
<1>1. PICK l \in Nat : l = Len(c) + 1 /\ 0 < l
  OBVIOUS
<1>2. B = {0, l}
  BY <1>1 DEF Bounds
<1>3. Cardinality(B) = 2 /\ Nth(B, 1) = 0 /\ Nth(B, 2) = l
  <2>1. {0, l} \in SUBSET Nat /\ 0 \in {0, l} /\ l \in {0, l} /\ \A j \in {0, l} : j = 0 \/ l <= j
    OBVIOUS
  <2>2. Nth({0, l}, 1) = 0
    BY <2>1, NthFirst
  <2>3. Nth({0, l}, 2) = l
    BY <1>1, <2>1, NthSecond
  <2> QED  BY <1>1, <1>2, <2>2, <2>3, PairSize
<1>4. Pieces(c, delimiter) = <<c>>
  <2>1. 1 .. Cardinality(B) - 1 = 1 .. 1 /\ 1 + 1 = 2
    BY <1>3
  <2>2. SubSeq(c, Nth(B, 1) + 1, Nth(B, 2) - 1) = c
    BY <1>1, <1>3
  <2> QED  BY <2>1, <2>2, OnePiece, Zenon DEF Pieces
<1>5. Last(<<c>>) = c /\ Front(<<c>>) = <<>>
  BY DEF Last, Front
<1> QED  BY <1>4, <1>5, SplitRule

\* A text with one delimiter.
LEMMA SplitOne ==
    ASSUME NEW W, NEW c \in Seq(W), NEW delimiter, NEW j \in 1 .. Len(c),
           \A i \in 1 .. Len(c) : c[i] = delimiter <=> i = j
    PROVE  split(c, delimiter) =
               IF j = Len(c) THEN <<SubSeq(c, 1, j - 1)>>
               ELSE <<SubSeq(c, 1, j - 1), SubSeq(c, j + 1, Len(c))>>
<1> DEFINE B == Bounds(c, delimiter)
           x == SubSeq(c, 1, j - 1)
           y == SubSeq(c, j + 1, Len(c))
<1>1. PICK l \in Nat : l = Len(c) + 1 /\ 0 < l /\ j < l /\ j \in Nat /\ 0 < j /\ l - 1 = Len(c)
  OBVIOUS
<1>2. B = {0, j, l}
  BY <1>1 DEF Bounds
<1>3. Cardinality(B) = 3 /\ Nth(B, 1) = 0 /\ Nth(B, 2) = j /\ Nth(B, 3) = l
  <2> DEFINE S == {0, j, l}
  <2>1. /\ S \in SUBSET Nat /\ 0 \in S /\ j \in S
        /\ \A i \in S : i = 0 \/ j <= i
    BY <1>1
  <2>2. Cardinality(S) = 3 /\ Nth(S, 3) = l
    BY <1>1, TripleSize, NthThird
  <2> HIDE DEF S
  <2>3. Nth(S, 1) = 0
    BY <2>1, NthFirst
  <2>4. Nth(S, 2) = j
    BY <1>1, <2>1, NthSecond
  <2> QED  BY <1>2, <2>2, <2>3, <2>4 DEF S
<1>4. Pieces(c, delimiter) = <<x, y>>
  <2>1. 1 .. Cardinality(B) - 1 = 1 .. 2
    BY <1>3
  <2>2. 0 + 1 = 1
    OBVIOUS
  <2> QED  BY <1>1, <1>3, <2>1, <2>2, TwoPieces, Zenon
<1>5. y = <<>> <=> j = Len(c)
  <2>1. y \in Seq(W) /\ Len(y) = IF j + 1 <= Len(c) THEN Len(c) - j ELSE 0
    OBVIOUS
  <2> HIDE DEF y
  <2>2. y = <<>> <=> Len(y) = 0
    BY <2>1
  <2> QED  BY <2>1, <2>2
<1>6. Last(<<x, y>>) = y /\ Front(<<x, y>>) = <<x>>
  <2> HIDE DEF x, y
  <2>1. <<x, y>> \in Seq({x, y}) /\ Len(<<x, y>>) = 2 /\ <<x, y>>[1] = x /\ <<x, y>>[2] = y
    OBVIOUS
  <2>2. PICK f \in Seq({x, y}) : f = <<x, y>> /\ Len(f) = 2 /\ f[1] = x /\ f[2] = y
    BY <2>1
  <2>3. Front(f) \in Seq({x, y}) /\ Len(Front(f)) = 1 /\ Front(f)[1] = x
    BY <2>2 DEF Front
  <2>4. Front(f) = <<x>>
    BY <2>3
  <2>5. Last(f) = y
    BY <2>2 DEF Last
  <2> QED  BY <2>2, <2>4, <2>5
<1> HIDE DEF x, y
<1>7. split(c, delimiter) = IF j = Len(c) THEN <<x>> ELSE <<x, y>>
  BY <1>4, <1>5, <1>6, SplitRule
<1> QED  BY <1>7 DEF x, y

\* The first piece of any text ends before the first delimiter.
LEMMA SplitFirst ==
    ASSUME NEW W, NEW c \in Seq(W), NEW delimiter, c # <<>>
    PROVE  \E m \in 1 .. Len(c) + 1 :
               /\ \A i \in 1 .. m - 1 : c[i] # delimiter
               /\ split(c, delimiter)[1] = SubSeq(c, 1, m - 1)
<1> DEFINE D == {i \in 1 .. Len(c) : c[i] = delimiter}
           B == Bounds(c, delimiter)
<1>1. CASE D = {}
  <2>1. \A i \in 1 .. Len(c) : c[i] # delimiter
    BY <1>1
  <2>2. split(c, delimiter)[1] = c
    BY <2>1, SplitNone
  <2>3. SubSeq(c, 1, (Len(c) + 1) - 1) = c /\ Len(c) + 1 \in 1 .. Len(c) + 1 /\ (Len(c) + 1) - 1 = Len(c)
    OBVIOUS
  <2> QED  BY <2>1, <2>2, <2>3
<1>2. CASE D # {}
  <2>1. D \in SUBSET Nat
    OBVIOUS
  <2>2. PICK m \in D : \A y \in D : m <= y
    <3> HIDE DEF D
    <3> QED  BY <1>2, <2>1, Least
  <2>3. m \in 1 .. Len(c) /\ m \in Nat /\ 0 < m
    OBVIOUS
  <2>4. PICK l \in Nat : l = Len(c) + 1 /\ m < l
    BY <2>3
  <2>5. /\ 0 \in B /\ m \in B /\ l \in B
        /\ \A j \in B : j = 0 \/ m <= j
    BY <2>2, <2>3, <2>4 DEF Bounds
  <2>6. B \in SUBSET Nat /\ IsFiniteSet(B)
    BY BoundsType
  <2> HIDE DEF D, B
  <2>7. Nth(B, 1) = 0 /\ Nth(B, 2) = m
    BY <2>3, <2>5, <2>6, NthFirst, NthSecond
  <2>8. PICK n \in Nat : n = Cardinality(B) - 1 /\ n >= 2
    <3>1. {0, m, l} \in SUBSET B
      BY <2>5
    <3>2. Cardinality({0, m, l}) = 3
      BY <2>3, <2>4, TripleSize
    <3>3. Cardinality({0, m, l}) <= Cardinality(B) /\ Cardinality(B) \in Nat
      BY <2>6, <3>1, FS_Subset, FS_CardinalityType
    <3> QED  BY <3>2, <3>3
  <2> DEFINE f == Pieces(c, delimiter)
             R == {f[k] : k \in 1 .. n}
  <2>9. f = [k \in 1 .. n |-> SubSeq(c, Nth(B, k) + 1, Nth(B, k + 1) - 1)]
    BY <2>8, Zenon DEF Pieces, B
  <2>10. f[1] = SubSeq(c, 1, m - 1)
    <3>1. 1 \in 1 .. n /\ 1 + 1 = 2 /\ 0 + 1 = 1
      BY <2>8
    <3> QED  BY <2>7, <2>9, <3>1, Zenon
  <2>11. f = [k \in 1 .. n |-> f[k]]
    BY <2>9, Zenon
  <2> HIDE DEF f
  <2>12. f \in Seq(R) /\ Len(f) = n
    <3>1. f \in [1 .. n -> R]
      BY <2>11
    <3> HIDE DEF R
    <3> QED  BY <3>1, SeqDef
  <2> HIDE DEF R
  <2>13. Front(f)[1] = f[1]
    BY <2>8, <2>12 DEF Front
  <2>14. split(c, delimiter)[1] = SubSeq(c, 1, m - 1)
    BY <2>10, <2>13, SplitRule DEF f
  <2>15. \A i \in 1 .. m - 1 : c[i] # delimiter
    BY <2>2, <2>3 DEF D
  <2>16. m \in 1 .. Len(c) + 1
    BY <2>3
  <2> QED  BY <2>14, <2>15, <2>16
<1> QED  BY <1>1, <1>2

----------------------------------------------------------------------------
(* parse_ip                                                                *)

Token == DOMAIN chars \cup Separators

Limit(family) == IF family = 4 THEN 32 ELSE 128

\* parse_ip in its parts.
Parts(text) == split(split(text, "%")[1], "/")

Slashes(text) == {i \in DOMAIN text : text[i] = "/"}

\* What parse_ip throws for, and what it returns.
LEMMA ParseRule ==
    ASSUME NEW text
    PROVE  LET p == Parts(text)
               version == get_af(p[1])
               subnet == get_subnet(version[1], p)
           IN  parse_ip(text) =
                   IF \/ text = <<>> \/ "!" \in Range(text) \/ Cardinality(Slashes(text)) > 1
                      \/ p = <<>> \/ version = Threw \/ subnet = Threw
                   THEN Threw
                   ELSE <<[family |-> version[1], address |-> inet_pton[p[1][1]].address,
                           subnet |-> subnet[1]]>>
BY Zenon DEF parse_ip, Parts, Slashes

\* The slashes of a text are finitely many.
LEMMA SlashesFinite ==
    ASSUME NEW text \in Seq(Token)
    PROVE  IsFiniteSet(Slashes(text))
<1>1. PICK l \in Nat : l = Len(text)
  OBVIOUS
<1>2. IsFiniteSet(1 .. l)
  BY FS_Interval
<1>3. Slashes(text) \in SUBSET (1 .. l)
  BY <1>1 DEF Slashes
<1> QED  BY <1>2, <1>3, FS_Subset

\* What is accepted has one address, and the subnet behind it is a word.
LEMMA PartsOf ==
    ASSUME NEW text \in Seq(Token), text # <<>>, "!" \notin Range(text), Cardinality(Slashes(text)) <= 1
    PROVE  \/ Len(Parts(text)) \in {0, 1}
           \/ Len(Parts(text)) = 2 /\ Parts(text)[2][1] \in DOMAIN chars
<1>1. PICK m \in 1 .. Len(text) + 1 :
          /\ \A i \in 1 .. m - 1 : text[i] # "%"
          /\ split(text, "%")[1] = SubSeq(text, 1, m - 1)
  BY SplitFirst
<1>2. PICK c \in Seq(Token) :
          c = SubSeq(text, 1, m - 1) /\ Len(c) = m - 1 /\ \A i \in 1 .. Len(c) : c[i] = text[i]
  <2>1. SubSeq(text, 1, m - 1) \in Seq(Token) /\ Len(SubSeq(text, 1, m - 1)) = m - 1
    OBVIOUS
  <2>2. \A i \in 1 .. m - 1 : SubSeq(text, 1, m - 1)[i] = text[i]
    OBVIOUS
  <2> QED  BY <2>1, <2>2
<1>3. Parts(text) = split(c, "/")
  BY <1>1, <1>2 DEF Parts
<1>4. ASSUME NEW i \in 1 .. Len(c) PROVE c[i] \in DOMAIN chars \/ c[i] = "/"
  <2>1. i \in 1 .. Len(text) /\ i \in 1 .. m - 1 /\ c[i] = text[i]
    BY <1>2
  <2>2. text[i] # "!" /\ text[i] # "%" /\ text[i] \in Token
    BY <1>1, <2>1 DEF Range
  <2> QED  BY <2>1, <2>2 DEF Token, Separators
<1>5. CASE \A i \in 1 .. Len(c) : c[i] # "/"
  <2>1. split(c, "/") = IF c = <<>> THEN <<>> ELSE <<c>>
    BY <1>5, SplitNone
  <2> QED  BY <1>3, <2>1
<1>6. CASE \E i \in 1 .. Len(c) : c[i] = "/"
  <2>1. PICK j \in 1 .. Len(c) : c[j] = "/"
    BY <1>6
  <2>2. ASSUME NEW i \in 1 .. Len(c), c[i] = "/" PROVE i = j
    <3>1. i \in Slashes(text) /\ j \in Slashes(text)
      BY <1>2, <2>1, <2>2 DEF Slashes
    <3> QED  BY <3>1, SlashesFinite, AtMostOne
  <2>3. \A i \in 1 .. Len(c) : c[i] = "/" <=> i = j
    BY <2>1, <2>2
  <2>4. split(c, "/") = IF j = Len(c) THEN <<SubSeq(c, 1, j - 1)>>
                        ELSE <<SubSeq(c, 1, j - 1), SubSeq(c, j + 1, Len(c))>>
    BY <2>3, SplitOne
  <2>5. CASE j = Len(c)
    BY <1>3, <2>4, <2>5
  <2>6. CASE j # Len(c)
    <3>1. j + 1 \in 1 .. Len(c) /\ SubSeq(c, j + 1, Len(c))[1] = c[j + 1] /\ j + 1 # j
      BY <2>6
    <3>2. c[j + 1] \in DOMAIN chars
      BY <1>4, <2>3, <3>1
    <3>3. Len(split(c, "/")) = 2 /\ split(c, "/")[2] = SubSeq(c, j + 1, Len(c))
      BY <2>4, <2>6
    <3> QED  BY <1>3, <3>1, <3>2, <3>3
  <2> QED  BY <2>5, <2>6
<1> QED  BY <1>5, <1>6

\* get_subnet returns no subnet beyond the limit of the version.
LEMMA SubnetInRange ==
    ASSUME NEW version \in {4, 6}, NEW p, get_subnet(version, p) # Threw,
           Len(p) \in {0, 1} \/ (Len(p) = 2 /\ p[2][1] \in DOMAIN chars)
    PROVE  get_subnet(version, p)[1] \in 0 .. Limit(version)
<1> DEFINE subnet == IF Len(p) > 1 THEN str_to_integral(255, Spelled(p[2]))
                     ELSE <<get_std_subnet(version, p)>>
<1>1. get_subnet(version, p) =
          IF subnet # Threw /\ subnet[1] <= (IF version = 4 THEN 32 ELSE 128) THEN subnet ELSE Threw
  BY Zenon DEF get_subnet
<1> HIDE DEF subnet
<1>2. subnet # Threw /\ subnet[1] <= Limit(version) /\ get_subnet(version, p) = subnet
  BY <1>1 DEF Limit
<1>3. subnet[1] \in Nat
  <2>1. CASE Len(p) \in {0, 1}
    <3>1. ~(Len(p) > 1)
      <4>1. PICK l \in {0, 1} : l = Len(p)
        BY <2>1
      <4>2. ~(l > 1)
        OBVIOUS
      <4> QED  BY <4>1, <4>2, Zenon
    <3>2. get_std_subnet(version, p) \in Nat
      BY DEF get_std_subnet
    <3> QED  BY <3>1, <3>2 DEF subnet
  <2>2. CASE Len(p) = 2 /\ p[2][1] \in DOMAIN chars
    <3>1. Spelled(p[2]) \in Seq(STRING)
      BY <2>2, WordsAssumption DEF Spelled
    <3>2. PICK s \in Seq(STRING) : s = Spelled(p[2])
      BY <3>1
    <3>3. NumberExact(255, s)
      BY NumberIsExact, NumbersAssumption
    <3>4. subnet = str_to_integral(255, s)
      BY <2>2, <3>2 DEF subnet
    <3>5. subnet[1] \in 0 .. 255
      BY <1>2, <3>3, <3>4 DEF NumberExact
    <3>6. 0 .. 255 \subseteq Nat
      OBVIOUS
    <3> QED  BY <3>5, <3>6, Zenon
  <2> QED  BY <2>1, <2>2
<1>4. Limit(version) \in Nat
  BY DEF Limit
<1> QED  BY <1>2, <1>3, <1>4

\* An address and a subnet of its version.
Address(word, n) ==
    <<[family |-> inet_pton[word].family, address |-> inet_pton[word].address, subnet |-> n]>>

\* What parse_ip returns is an address that inet_pton knows, with such a subnet.
LEMMA AcceptedIs ==
    ASSUME NEW text \in Seq(Token), parse_ip(text) # Threw
    PROVE  \E word \in DOMAIN inet_pton :
               \E n \in 0 .. Limit(inet_pton[word].family) : parse_ip(text) = Address(word, n)
<1> DEFINE p == Parts(text)
           version == get_af(p[1])
           subnet == get_subnet(version[1], p)
<1>1. /\ text # <<>> /\ "!" \notin Range(text) /\ ~(Cardinality(Slashes(text)) > 1)
      /\ p # <<>> /\ version # Threw /\ subnet # Threw
      /\ parse_ip(text) = <<[family |-> version[1], address |-> inet_pton[p[1][1]].address,
                             subnet |-> subnet[1]]>>
  BY ParseRule, Zenon
<1>2. PICK word \in DOMAIN inet_pton : p[1] = <<word>>
  BY <1>1, Zenon DEF get_af
<1>3. version = <<inet_pton[word].family>>
  <2>1. version = <<inet_pton[p[1][1]].family>>
    BY <1>2, Zenon DEF get_af
  <2>2. p[1][1] = word
    BY <1>2
  <2> QED  BY <2>1, <2>2
<1>4. version[1] = inet_pton[word].family /\ p[1][1] = word
  BY <1>2, <1>3
<1>5. PICK v \in {4, 6} : v = inet_pton[word].family
  BY WordsAssumption
<1>6. Len(p) \in {0, 1} \/ (Len(p) = 2 /\ p[2][1] \in DOMAIN chars)
  <2>1. Cardinality(Slashes(text)) \in Nat
    BY SlashesFinite, FS_CardinalityType
  <2>2. Cardinality(Slashes(text)) <= 1
    BY <1>1, <2>1
  <2> QED  BY <1>1, <2>2, PartsOf
<1>7. subnet = get_subnet(v, p)
  BY <1>4, <1>5
<1> HIDE DEF p, version, subnet
<1>8. subnet[1] \in 0 .. Limit(v)
  BY <1>1, <1>6, <1>7, SubnetInRange
<1>9. parse_ip(text) = Address(word, subnet[1])
  BY <1>1, <1>4, Zenon DEF Address
<1> QED  BY <1>5, <1>8, <1>9

\* A piece of one token.
LEMMA OneToken ==
    ASSUME NEW W, NEW s \in Seq(W), NEW i \in 1 .. Len(s)
    PROVE  SubSeq(s, i, i) = <<s[i]>>
<1> DEFINE t == SubSeq(s, i, i)
<1>1. i \in Nat /\ i >= 1 /\ i <= Len(s) /\ Len(s) \in Nat /\ (i - i) + 1 = 1
  OBVIOUS
<1>2. t \in Seq(W) /\ Len(t) = 1 /\ t[1] = s[i]
  BY <1>1, SubSeqProperties
<1> HIDE DEF t
<1>3. t \in [1 .. 1 -> W]
  BY <1>2
<1>4. t = [k \in 1 .. 1 |-> t[k]]
  BY <1>3
<1>5. t = <<t[1]>>
  BY <1>4
<1> QED  BY <1>2, <1>5 DEF t

\* What with_subnet prints is read as what it was printed from.
LEMMA PrintedIs ==
    ASSUME NEW word \in DOMAIN inet_pton, NEW n \in 0 .. Limit(inet_pton[word].family)
    PROVE  parse_ip(<<word, "/", ToString(n)>>) = Address(word, n)
<1>1. PICK v \in {4, 6} : v = inet_pton[word].family
  BY WordsAssumption
<1>2. n \in 0 .. 128 /\ n <= Limit(v)
  BY <1>1 DEF Limit
<1>3. PICK w : w = ToString(n)
  OBVIOUS
<1>4. w \in DOMAIN chars /\ word \in DOMAIN chars
  BY <1>2, <1>3, WordsAssumption
<1>5. w \notin Separators /\ word \notin Separators
  BY <1>4, WordsAssumption
<1> DEFINE text == <<word, "/", w>>
<1>6. /\ text \in Seq(Token) /\ Len(text) = 3 /\ text # <<>>
      /\ text[1] = word /\ text[2] = "/" /\ text[3] = w
  BY <1>4 DEF Token, Separators
<1>7. split(text, "%") = <<text>>
  <2>1. \A i \in 1 .. Len(text) : text[i] # "%"
    BY <1>5, <1>6 DEF Separators
  <2> HIDE DEF text
  <2> QED  BY <1>6, <2>1, SplitNone
<1>8. Parts(text) = <<<<word>>, <<w>>>>
  <2>1. \A i \in 1 .. Len(text) : text[i] = "/" <=> i = 2
    BY <1>5, <1>6 DEF Separators
  <2>2. 2 \in 1 .. Len(text) /\ 2 # Len(text) /\ 2 - 1 = 1 /\ 2 + 1 = 3
    BY <1>6
  <2>3. SubSeq(text, 1, 1) = <<word>> /\ SubSeq(text, 3, 3) = <<w>>
    <3> HIDE DEF text
    <3>1. 1 \in 1 .. Len(text) /\ 3 \in 1 .. Len(text)
      BY <1>6
    <3> QED  BY <1>6, <3>1, OneToken
  <2>4. split(text, "%")[1] = text
    BY <1>7
  <2> HIDE DEF text
  <2>5. split(text, "/") = <<SubSeq(text, 1, 1), SubSeq(text, 3, 3)>>
    <3>1. split(text, "/") = IF 2 = Len(text) THEN <<SubSeq(text, 1, 2 - 1)>>
                             ELSE <<SubSeq(text, 1, 2 - 1), SubSeq(text, 2 + 1, Len(text))>>
      BY <1>6, <2>1, <2>2, SplitOne, Zenon
    <3> QED  BY <1>6, <2>2, <3>1, Zenon
  <2> QED  BY <2>3, <2>4, <2>5 DEF Parts
<1>9. Slashes(text) = {2} /\ "!" \notin Range(text)
  BY <1>5, <1>6 DEF Slashes, Range, Separators
<1>10. Cardinality(Slashes(text)) = 1
  BY <1>9, FS_Singleton
<1> DEFINE p == <<<<word>>, <<w>>>>
<1>11. p # <<>> /\ p[1] = <<word>> /\ p[1][1] = word /\ Len(p) = 2 /\ p[2][1] = w
  OBVIOUS
<1> HIDE DEF p
<1>12. get_af(p[1]) = <<v>> /\ <<v>> # Threw /\ <<v>>[1] = v
  BY <1>1, <1>11 DEF get_af, Threw
<1>13. get_subnet(v, p) = <<n>> /\ <<n>> # Threw /\ <<n>>[1] = n
  <2>1. PICK s \in Seq(STRING) : s = chars[w]
    BY <1>4, WordsAssumption
  <2>2. s # <<>> /\ Range(s) \subseteq Range(digits) /\ Denotes(s) = n
    BY <1>2, <1>3, <2>1, WordsAssumption
  <2>3. NumberExact(255, s)
    BY NumberIsExact, NumbersAssumption
  <2>4. str_to_integral(255, s) = <<n>>
    BY <1>2, <2>2, <2>3 DEF NumberExact
  <2>5. Spelled(p[2]) = s
    BY <1>11, <2>1 DEF Spelled
  <2>6. <<n>> # Threw /\ <<n>>[1] = n /\ Len(p) > 1
    BY <1>11 DEF Threw
  <2> QED  BY <1>2, <2>4, <2>5, <2>6 DEF get_subnet, Limit
<1> HIDE DEF text
<1>14. parse_ip(text) = <<[family |-> v, address |-> inet_pton[word].address, subnet |-> n]>>
  <2>1. ~(Cardinality(Slashes(text)) > 1)
    BY <1>10
  <2>2. Parts(text) = p
    BY <1>8 DEF p
  <2> QED  BY <1>6, <1>9, <1>11, <1>12, <1>13, <2>1, <2>2, ParseRule, Zenon
<1> QED  BY <1>1, <1>3, <1>14 DEF Address, text

\* Together: parse_ip and with_subnet are exact for every text.
LEMMA AddressIsExact ==
    ASSUME NEW text \in Seq(Token)
    PROVE  AddressExact(text)
<1> SUFFICES ASSUME parse_ip(text) # Threw
             PROVE  LET a == parse_ip(text)
                    IN  /\ a[1].subnet \in 0 .. (IF a[1].family = 4 THEN 32 ELSE 128)
                        /\ parse_ip(with_subnet(a[1])) = a
  BY Zenon DEF AddressExact
<1>1. PICK word \in DOMAIN inet_pton :
          \E n \in 0 .. Limit(inet_pton[word].family) : parse_ip(text) = Address(word, n)
  BY AcceptedIs
<1> PICK n \in 0 .. Limit(inet_pton[word].family) : parse_ip(text) = Address(word, n)
  BY <1>1
<1>2. PICK printed \in DOMAIN inet_pton :
          /\ printed = inet_ntop[inet_pton[word].address]
          /\ inet_pton[printed] = inet_pton[word]
  BY WordsAssumption
<1>3. /\ Address(word, n)[1].subnet = n /\ Address(word, n)[1].family = inet_pton[word].family
      /\ Address(word, n)[1].address = inet_pton[word].address
  BY DEF Address
<1>4. with_subnet(Address(word, n)[1]) = <<printed, "/", ToString(n)>>
  BY <1>2, <1>3, Zenon DEF with_subnet, pure
<1>5. parse_ip(<<printed, "/", ToString(n)>>) = Address(printed, n)
  BY <1>2, PrintedIs
<1>6. Address(printed, n) = Address(word, n)
  BY <1>2, Zenon DEF Address
<1> QED  BY <1>3, <1>4, <1>5, <1>6 DEF Limit

----------------------------------------------------------------------------
(* What a section says, line by line                                       *)

\* The fields of a section, as a function.
LEMMA NewSectionIs ==
    /\ NewSection = [name \in DOMAIN NewSection |-> NewSection[name]]
    /\ Listed \subseteq DOMAIN NewSection
    /\ \A name \in Listed : NewSection[name] = <<>>
<1>1. NewSection = [name \in DOMAIN NewSection |-> NewSection[name]]
  BY DEF NewSection
<1>2. {"address", "port"} \subseteq DOMAIN NewSection
  BY DEF NewSection
<1>3. NewSection["address"] = <<>> /\ NewSection["port"] = <<>>
  BY DEF NewSection
<1> QED  BY <1>1, <1>2, <1>3, Zenon DEF Listed

\* Appending to a list that is given by its elements.
LEMMA AppendFunction ==
    ASSUME NEW n \in Nat, NEW f, DOMAIN f = 1 .. n + 1
    PROVE  Append([k \in 1 .. n |-> f[k]], f[n + 1]) = [k \in 1 .. n + 1 |-> f[k]]
<1> DEFINE S == {f[k] : k \in 1 .. n + 1}
           s == [k \in 1 .. n |-> f[k]]
           t == [k \in 1 .. n + 1 |-> f[k]]
<1>1. s \in Seq(S) /\ t \in Seq(S) /\ f[n + 1] \in S
  BY SeqDef
<1>2. Len(s) = n /\ Len(t) = n + 1
  <2>1. Len(s) \in Nat /\ DOMAIN s = 1 .. Len(s) /\ Len(t) \in Nat /\ DOMAIN t = 1 .. Len(t)
    BY <1>1, LenProperties
  <2>2. 1 .. Len(s) = 1 .. n /\ 1 .. Len(t) = 1 .. n + 1
    BY <2>1
  <2> QED  BY <2>1, <2>2
<1> QED  BY <1>1, <1>2, AppendProperties, SeqEqual

\* Up to a line, the values of a name are those before it and what the line
\* adds.
LEMMA ValuesStep ==
    ASSUME NEW content, NEW Q \in SUBSET Nat, IsFiniteSet(Q), NEW x \in Nat, \A j \in Q : j < x,
           NEW name
    PROVE  IF Len(content[x]) = 2 /\ content[x][1] = name
           THEN /\ Values(content, Q \cup {x}, name) = Append(Values(content, Q, name), content[x][2])
                /\ Pairs(content, Q \cup {x}, name) # {}
                /\ Values(content, Q \cup {x}, name)[Cardinality(Pairs(content, Q \cup {x}, name))]
                     = content[x][2]
           ELSE /\ Values(content, Q \cup {x}, name) = Values(content, Q, name)
                /\ Pairs(content, Q \cup {x}, name) = Pairs(content, Q, name)
<1> DEFINE P == Pairs(content, Q, name)
           T == Pairs(content, Q \cup {x}, name)
<1>1. P \in SUBSET Q
  BY DEF Pairs
<1>2. P \in SUBSET Nat /\ IsFiniteSet(P) /\ Cardinality(P) \in Nat /\ (\A j \in P : j < x) /\ x \notin P
  <2>1. P \in SUBSET Nat /\ \A j \in P : j < x
    BY <1>1
  <2>2. IsFiniteSet(P)
    BY <1>1, FS_Subset
  <2>3. ~(x < x)
    OBVIOUS
  <2> HIDE DEF P
  <2> QED  BY <2>1, <2>2, <2>3, FS_CardinalityType
<1>3. CASE ~(Len(content[x]) = 2 /\ content[x][1] = name)
  <2>1. T = P
    BY <1>3, Zenon DEF Pairs
  <2> QED  BY <1>3, <2>1, Zenon DEF Values
<1>4. CASE Len(content[x]) = 2 /\ content[x][1] = name
  <2>1. T = P \cup {x}
    BY <1>4, Zenon DEF Pairs
  <2> HIDE DEF P, T
  <2>2. PICK n \in Nat : n = Cardinality(P)
    BY <1>2
  <2>3. Cardinality(T) = n + 1
    BY <1>2, <2>1, <2>2, FS_AddElement
  <2> DEFINE f == [k \in 1 .. n + 1 |-> content[Nth(T, k)][2]]
  <2>4. f[n + 1] = content[x][2]
    <3>1. Nth(T, n + 1) = x
      BY <1>2, <2>1, <2>2, NthAdded
    <3> QED  BY <3>1
  <2>5. Values(content, Q, name) = [k \in 1 .. n |-> f[k]]
    <3>1. ASSUME NEW k \in 1 .. n PROVE f[k] = content[Nth(P, k)][2]
      <4>1. Nth(T, k) = Nth(P, k)
        BY <1>2, <2>1, <2>2, NthKept
      <4> QED  BY <4>1
    <3>2. Values(content, Q, name) = [k \in 1 .. n |-> content[Nth(P, k)][2]]
      BY <2>2 DEF Values, P
    <3> HIDE DEF f
    <3> QED  BY <3>1, <3>2
  <2>6. Values(content, Q \cup {x}, name) = f
    BY <2>3 DEF Values, T
  <2>7. f = [k \in 1 .. n + 1 |-> f[k]] /\ DOMAIN f = 1 .. n + 1
    OBVIOUS
  <2> HIDE DEF f
  <2>8. Append([k \in 1 .. n |-> f[k]], f[n + 1]) = [k \in 1 .. n + 1 |-> f[k]]
    BY <2>7, AppendFunction
  <2>9. x \in T
    BY <2>1
  <2> QED  BY <1>4, <2>3, <2>4, <2>5, <2>6, <2>7, <2>8, <2>9, Zenon DEF T
<1> QED  BY <1>3, <1>4

\* A section that says nothing yet is the one read_args begins with.
LEMMA SaidNothing == ASSUME NEW content PROVE Said(content, {}) = NewSection
<1>1. ASSUME NEW name PROVE Pairs(content, {}, name) = {} /\ Values(content, {}, name) = <<>>
  <2>1. Pairs(content, {}, name) = {}
    BY DEF Pairs
  <2>2. Cardinality({}) = 0
    BY FS_EmptySet
  <2>3. [n \in 1 .. 0 |-> content[Nth({}, n)][2]] = <<>>
    OBVIOUS
  <2> QED  BY <2>1, <2>2, <2>3 DEF Values
<1>2. Said(content, {}) = [name \in DOMAIN NewSection |-> NewSection[name]]
  BY <1>1, NewSectionIs DEF Said
<1> QED  BY <1>2, NewSectionIs

\* Reading one more line of a section does what Apply does.
LEMMA SaidStep ==
    ASSUME NEW content, NEW Q \in SUBSET Nat, IsFiniteSet(Q), NEW x \in Nat, \A j \in Q : j < x
    PROVE  Said(content, Q \cup {x}) = Apply(Said(content, Q), content[x])
<1> DEFINE N == DOMAIN NewSection
           line == content[x]
           old == Said(content, Q)
           new == Said(content, Q \cup {x})
<1>1. DOMAIN old = N /\ DOMAIN new = N /\ new = [name \in N |-> new[name]] /\ old = [name \in N |-> old[name]]
  BY DEF Said
<1>2. ASSUME NEW name \in N, ~(Len(line) = 2 /\ line[1] = name)
      PROVE  new[name] = old[name]
  <2>1. /\ Values(content, Q \cup {x}, name) = Values(content, Q, name)
        /\ Pairs(content, Q \cup {x}, name) = Pairs(content, Q, name)
    BY <1>2, ValuesStep, Zenon
  <2> QED  BY <2>1 DEF Said
<1>3. ASSUME NEW name \in N, Len(line) = 2, line[1] = name
      PROVE  new[name] = IF name \in Listed THEN Append(old[name], line[2]) ELSE line[2]
  <2>1. /\ Values(content, Q \cup {x}, name) = Append(Values(content, Q, name), line[2])
        /\ Pairs(content, Q \cup {x}, name) # {}
        /\ Values(content, Q \cup {x}, name)[Cardinality(Pairs(content, Q \cup {x}, name))] = line[2]
    BY <1>3, ValuesStep, Zenon
  <2>2. new[name] = IF name \in Listed THEN Values(content, Q \cup {x}, name) ELSE line[2]
    BY <2>1 DEF Said
  <2>3. name \in Listed => old[name] = Values(content, Q, name)
    BY DEF Said
  <2> QED  BY <2>1, <2>2, <2>3
<1> HIDE DEF N, line, old, new
<1>4. CASE Len(line) # 2 \/ line[1] \notin N
  <2>1. new = old
    BY <1>1, <1>2, <1>4
  <2>2. Apply(old, line) = old
    BY <1>1, <1>4 DEF Apply
  <2> QED  BY <2>1, <2>2 DEF old, new, line
<1>5. CASE Len(line) = 2 /\ line[1] \in N
  <2> DEFINE v == IF line[1] \in Listed THEN Append(old[line[1]], line[2]) ELSE line[2]
  <2>1. Apply(old, line) = [old EXCEPT ![line[1]] = v]
    BY <1>1, <1>5, Zenon DEF Apply
  <2>2. new[line[1]] = v
    BY <1>3, <1>5
  <2> HIDE DEF v
  <2>3. \A name \in N : new[name] = IF name = line[1] THEN v ELSE old[name]
    BY <1>2, <1>5, <2>2
  <2>4. new = [old EXCEPT ![line[1]] = v]
    BY <1>1, <1>5, <2>3
  <2> QED  BY <2>1, <2>4 DEF old, new, line
<1> QED  BY <1>4, <1>5

----------------------------------------------------------------------------
(* A file up to a line                                                     *)

Text == Seq(Seq(STRING))

\* The lines of the k-th host among the first p.
SoFar(content, k, p) == {i \in Body(content, k) : i <= p}

\* What is left to read of t is its end s.
Suffix(s, t) == Len(s) <= Len(t) /\ \A i \in 1 .. Len(s) : s[i] = t[Len(t) - Len(s) + i]

\* How many lines are read.
Position(content, rest) == Len(content) - Len(rest)

\* The tail of a suffix is a suffix, and its head the next line.
LEMMA SuffixTail ==
    ASSUME NEW S, NEW s \in Seq(S), NEW t \in Seq(S), Suffix(s, t), s # <<>>
    PROVE  /\ Tail(s) \in Seq(S) /\ Suffix(Tail(s), t)
           /\ Len(t) - Len(s) \in 0 .. Len(t) - 1
           /\ Len(t) - Len(Tail(s)) = Len(t) - Len(s) + 1
           /\ Head(s) = t[Len(t) - Len(s) + 1]
<1>1. PICK m \in Nat, n \in Nat : m = Len(s) /\ n = Len(t)
  BY LenProperties
<1>2. m >= 1 /\ m <= n /\ Len(Tail(s)) = m - 1 /\ Tail(s) \in Seq(S)
  BY <1>1, EmptySeq, HeadTailProperties DEF Suffix
<1>3. Head(s) = s[1] /\ \A i \in 1 .. m - 1 : Tail(s)[i] = s[i + 1]
  BY <1>1, <1>2, HeadTailProperties
<1>4. \A i \in 1 .. m : s[i] = t[n - m + i]
  BY <1>1 DEF Suffix
<1>5. ASSUME NEW i \in 1 .. m - 1 PROVE Tail(s)[i] = t[n - (m - 1) + i]
  <2>1. i + 1 \in 1 .. m /\ n - m + (i + 1) = n - (m - 1) + i
    BY <1>2
  <2>2. s[i + 1] = t[n - m + (i + 1)]
    BY <1>4, <2>1, Zenon
  <2> QED  BY <1>3, <2>1, <2>2
<1>6. Suffix(Tail(s), t)
  <2>1. m - 1 <= n
    BY <1>2
  <2> QED  BY <1>1, <1>2, <1>5, <2>1 DEF Suffix
<1>7. Head(s) = t[n - m + 1]
  <2>1. 1 \in 1 .. m
    BY <1>2
  <2> QED  BY <1>3, <1>4, <2>1
<1>8. n - m \in 0 .. n - 1 /\ n - (m - 1) = n - m + 1
  BY <1>2
<1> QED  BY <1>1, <1>2, <1>6, <1>7, <1>8

\* Host lines are line numbers, finitely many, and all are begun at the end.
LEMMA HostLinesType ==
    ASSUME NEW content \in Text
    PROVE  /\ HostLines(content) \in SUBSET Nat /\ IsFiniteSet(HostLines(content))
           /\ Rank(HostLines(content), 0) = 0
           /\ Rank(HostLines(content), Len(content)) = Cardinality(HostLines(content))
           /\ \A i \in 1 .. Len(content) : i \in HostLines(content) <=> IsHost(content[i])
<1> DEFINE H == HostLines(content)
<1>1. Len(content) \in Nat /\ DOMAIN content = 1 .. Len(content)
  BY LenProperties DEF Text
<1>2. H \in SUBSET (1 .. Len(content)) /\ \A i \in 1 .. Len(content) : i \in H <=> IsHost(content[i])
  BY <1>1 DEF HostLines
<1> HIDE DEF H
<1>3. H \in SUBSET Nat /\ \A i \in H : i <= Len(content) /\ ~(i <= 0)
  BY <1>1, <1>2
<1>4. IsFiniteSet(H)
  BY <1>1, <1>3, FS_BoundedSetOfNaturals
<1>5. {j \in H : j <= 0} = {} /\ {j \in H : j <= Len(content)} = H
  BY <1>3, Zenon
<1> QED  BY <1>2, <1>3, <1>4, <1>5, FS_EmptySet DEF Rank, H

\* The lines of a host are line numbers, finitely many.
LEMMA BodyType ==
    ASSUME NEW content \in Text, NEW k \in Nat, NEW p \in Nat
    PROVE  /\ SoFar(content, k, p) \in SUBSET Nat /\ IsFiniteSet(SoFar(content, k, p))
           /\ \A j \in SoFar(content, k, p) : j < p + 1
           /\ p = Len(content) => SoFar(content, k, p) = Body(content, k)
<1>1. Len(content) \in Nat /\ DOMAIN content = 1 .. Len(content)
  BY LenProperties DEF Text
<1>2. Body(content, k) \in SUBSET (1 .. Len(content))
  BY <1>1 DEF Body
<1>3. SoFar(content, k, p) \in SUBSET Nat /\ \A j \in SoFar(content, k, p) : j <= p
  BY <1>1, <1>2 DEF SoFar
<1>4. \A j \in SoFar(content, k, p) : j < p + 1
  BY <1>3
<1>5. IsFiniteSet(SoFar(content, k, p))
  BY <1>3, FS_BoundedSetOfNaturals
<1>6. ASSUME p = Len(content) PROVE SoFar(content, k, p) = Body(content, k)
  <2>1. \A j \in Body(content, k) : j <= p
    BY <1>1, <1>2, <1>6
  <2> QED  BY <2>1, Zenon DEF SoFar
<1> QED  BY <1>3, <1>4, <1>5, <1>6

\* One more line: it belongs to the host that is being read, or ends it.
LEMMA BodyStep ==
    ASSUME NEW content \in Text, NEW p \in 0 .. Len(content) - 1, NEW k \in Nat,
           Rank(HostLines(content), p) = k
    PROVE  IF IsHost(content[p + 1])
           THEN /\ Rank(HostLines(content), p + 1) = k + 1
                /\ SoFar(content, k, p) = Body(content, k)
                /\ SoFar(content, k + 1, p + 1) = {}
                /\ k + 1 <= Cardinality(HostLines(content))
           ELSE /\ Rank(HostLines(content), p + 1) = k
                /\ SoFar(content, k, p + 1) = SoFar(content, k, p) \cup {p + 1}
<1> DEFINE H == HostLines(content)
<1>1. Len(content) \in Nat /\ DOMAIN content = 1 .. Len(content)
  BY LenProperties DEF Text
<1>2. p \in Nat /\ p + 1 \in 1 .. Len(content) /\ p + 1 \in Nat /\ p <= p + 1
  BY <1>1
<1>3. H \in SUBSET Nat /\ (p + 1 \in H <=> IsHost(content[p + 1]))
  BY <1>2, HostLinesType
<1>4. Rank(H, p + 1) = IF p + 1 \in H THEN k + 1 ELSE k
  BY <1>2, <1>3, RankStep
<1>5. \A i \in 1 .. Len(content) : i \in Nat /\ Rank(H, i) \in Nat
  <2> TAKE i \in 1 .. Len(content)
  <2>1. i \in Nat
    BY <1>1
  <2> QED  BY <1>3, <2>1, RankType, Zenon
<1>6. \A i \in 1 .. Len(content) : i <= p => Rank(H, i) <= k
  BY <1>2, <1>3, <1>5, RankMonotonic
<1>7. \A i \in 1 .. Len(content) : ~(i <= p) => Rank(H, p + 1) <= Rank(H, i)
  <2> TAKE i \in 1 .. Len(content)
  <2> HAVE ~(i <= p)
  <2>1. p + 1 <= i
    BY <1>2, <1>5
  <2> QED  BY <1>2, <1>3, <1>5, <2>1, RankMonotonic
<1> HIDE DEF H
<1>8. CASE IsHost(content[p + 1])
  <2>1. Rank(H, p + 1) = k + 1
    BY <1>3, <1>4, <1>8
  <2>2. \A i \in Body(content, k) : i <= p
    <3> TAKE i \in Body(content, k)
    <3>1. i \in 1 .. Len(content) /\ Rank(H, i) = k
      BY <1>1 DEF Body, H
    <3> SUFFICES ASSUME ~(i <= p) PROVE FALSE
      OBVIOUS
    <3>2. k + 1 <= k
      BY <1>7, <2>1, <3>1
    <3> QED  BY <3>2
  <2>3. SoFar(content, k, p) = Body(content, k)
    BY <2>2, Zenon DEF SoFar
  <2>4. ASSUME NEW i \in SoFar(content, k + 1, p + 1) PROVE FALSE
    <3>1. i \in 1 .. Len(content) /\ Rank(H, i) = k + 1 /\ ~IsHost(content[i]) /\ i <= p + 1
      BY <1>1 DEF Body, SoFar, H
    <3>2. i # p + 1
      BY <1>8, <3>1
    <3>3. i <= p
      BY <1>2, <3>1, <3>2
    <3>4. k + 1 <= k
      BY <1>6, <3>1, <3>3
    <3> QED  BY <3>4
  <2>5. k + 1 <= Cardinality(HostLines(content))
    <3>1. Rank(H, p + 1) <= Rank(H, Len(content))
      BY <1>1, <1>2, <1>3, RankMonotonic
    <3> QED  BY <2>1, <3>1, HostLinesType DEF H
  <2> QED  BY <1>8, <2>1, <2>3, <2>4, <2>5 DEF H
<1>9. CASE ~IsHost(content[p + 1])
  <2>1. Rank(H, p + 1) = k
    BY <1>3, <1>4, <1>9
  <2>2. p + 1 \in Body(content, k)
    BY <1>1, <1>2, <1>9, <2>1 DEF Body, H
  <2>3. \A i \in Body(content, k) : i <= p + 1 <=> i <= p \/ i = p + 1
    <3> TAKE i \in Body(content, k)
    <3>1. i \in 1 .. Len(content)
      BY <1>1 DEF Body
    <3> QED  BY <1>2, <3>1
  <2>4. SoFar(content, k, p + 1) = SoFar(content, k, p) \cup {p + 1}
    BY <2>2, <2>3, Zenon DEF SoFar
  <2> QED  BY <1>9, <2>1, <2>4 DEF H
<1> QED  BY <1>8, <1>9

----------------------------------------------------------------------------
(* Reading a file: what holds before the first host, and in a section      *)

Reads(content, rest) == content \in Text /\ rest \in Text /\ Suffix(rest, content)

\* How many host lines are read.
Begun(content, rest) == Rank(HostLines(content), Position(content, rest))

Skips(content, rest, ret) ==
    Reads(content, rest) /\ Begun(content, rest) = 0 /\ ret = <<>>

\* The hosts before the last one that was begun are collected; sec is what the
\* lines of that one say up to here.
Collects(content, rest, sec, ret) ==
    /\ Reads(content, rest)
    /\ \E n \in Nat :
           /\ Begun(content, rest) = n + 1
           /\ \A k \in 1 .. n : Meant(content, Body(content, k)) # Threw
           /\ ret = [k \in 1 .. n |-> Meant(content, Body(content, k))[1]]
           /\ sec = Said(content, SoFar(content, n + 1, Position(content, rest)))

\* The host that is being read is complete.
Complete(rest) == rest = <<>> \/ IsHost(Head(rest))

\* A line is read: the next one of the file.
LEMMA ReadsStep ==
    ASSUME NEW content, NEW rest, Reads(content, rest), rest # <<>>
    PROVE  /\ Reads(content, Tail(rest))
           /\ Position(content, rest) \in 0 .. Len(content) - 1
           /\ Position(content, Tail(rest)) = Position(content, rest) + 1
           /\ Head(rest) = content[Position(content, rest) + 1]
BY SuffixTail DEF Reads, Text, Position

\* At the end of the file all hosts are begun.
LEMMA ReadsEnd ==
    ASSUME NEW content, Reads(content, <<>>)
    PROVE  /\ Position(content, <<>>) = Len(content)
           /\ Begun(content, <<>>) = Cardinality(HostLines(content))
<1>1. Len(content) \in Nat /\ content \in Text
  BY LenProperties DEF Reads, Text
<1>2. Len(<<>>) = 0
  BY EmptySeq
<1>3. Position(content, <<>>) = Len(content)
  BY <1>1, <1>2 DEF Position
<1> QED  BY <1>1, <1>3, HostLinesType DEF Begun

\* read_file starts before the first host.
LEMMA SkipsFirst ==
    ASSUME NEW content \in Text
    PROVE  Skips(content, content, <<>>)
<1>1. Len(content) \in Nat
  BY LenProperties DEF Text
<1>2. Position(content, content) = 0 /\ Suffix(content, content)
  BY <1>1 DEF Position, Suffix
<1> QED  BY <1>2, HostLinesType DEF Skips, Reads, Begun

\* SkipLine goes on skipping, or begins the first host.
LEMMA SkipsOn ==
    ASSUME NEW content, NEW rest, NEW ret, Skips(content, rest, ret), rest # <<>>
    PROVE  IF IsHost(Head(rest)) THEN Collects(content, Tail(rest), NewSection, ret)
           ELSE Skips(content, Tail(rest), ret)
<1>1. PICK p \in 0 .. Len(content) - 1 :
          /\ p = Position(content, rest) /\ Position(content, Tail(rest)) = p + 1
          /\ Reads(content, Tail(rest)) /\ Head(rest) = content[p + 1]
  BY ReadsStep DEF Skips
<1>2. content \in Text /\ Rank(HostLines(content), p) = 0 /\ ret = <<>>
  BY <1>1 DEF Skips, Reads, Begun
<1>3. CASE IsHost(Head(rest))
  <2>1. Begun(content, Tail(rest)) = 0 + 1 /\ SoFar(content, 0 + 1, p + 1) = {}
    BY <1>1, <1>2, <1>3, BodyStep DEF Begun
  <2>2. NewSection = Said(content, SoFar(content, 0 + 1, Position(content, Tail(rest))))
    BY <1>1, <2>1, SaidNothing
  <2>3. ret = [k \in 1 .. 0 |-> Meant(content, Body(content, k))[1]]
    BY <1>2
  <2>4. \A k \in 1 .. 0 : Meant(content, Body(content, k)) # Threw
    OBVIOUS
  <2>5. 0 \in Nat
    OBVIOUS
  <2>6. Collects(content, Tail(rest), NewSection, ret)
    BY <1>1, <2>1, <2>2, <2>3, <2>4, <2>5, Zenon DEF Collects
  <2> QED  BY <1>3, <2>6
<1>4. CASE ~IsHost(Head(rest))
  <2>1. Begun(content, Tail(rest)) = 0
    BY <1>1, <1>2, <1>4, BodyStep DEF Begun
  <2> QED  BY <1>1, <1>2, <1>4, <2>1 DEF Skips
<1> QED  BY <1>3, <1>4

\* A file without a host line is valid and has no hosts.
LEMMA SkipsLast ==
    ASSUME NEW content, NEW ret, Skips(content, <<>>, ret)
    PROVE  Valid(content) /\ ret = Hosts(content)
<1>1. Cardinality(HostLines(content)) = 0 /\ ret = <<>>
  BY ReadsEnd DEF Skips
<1>2. DOMAIN MeantBy(content) = {}
  BY <1>1 DEF MeantBy
<1> QED  BY <1>1, <1>2 DEF Valid, Hosts

\* ReadLine adds what the line says to the section.
LEMMA CollectsLine ==
    ASSUME NEW content, NEW rest, NEW sec, NEW ret, Collects(content, rest, sec, ret),
           ~Complete(rest)
    PROVE  Collects(content, Tail(rest), Apply(sec, Head(rest)), ret)
<1>1. rest # <<>> /\ ~IsHost(Head(rest)) /\ Reads(content, rest)
  BY DEF Complete, Collects
<1>2. PICK p \in 0 .. Len(content) - 1 :
          /\ p = Position(content, rest) /\ Position(content, Tail(rest)) = p + 1
          /\ Reads(content, Tail(rest)) /\ Head(rest) = content[p + 1]
  BY <1>1, ReadsStep
<1>3. PICK n \in Nat :
           /\ Rank(HostLines(content), p) = n + 1
           /\ \A k \in 1 .. n : Meant(content, Body(content, k)) # Threw
           /\ ret = [k \in 1 .. n |-> Meant(content, Body(content, k))[1]]
           /\ sec = Said(content, SoFar(content, n + 1, p))
  BY <1>2, Zenon DEF Collects, Begun
<1>4. content \in Text /\ n + 1 \in Nat /\ p \in Nat /\ p + 1 \in Nat
  <2>1. content \in Text
    BY <1>1 DEF Reads
  <2>2. Len(content) \in Nat
    BY <2>1, LenProperties DEF Text
  <2> QED  BY <1>2, <2>1, <2>2
<1>5. /\ Rank(HostLines(content), p + 1) = n + 1
      /\ SoFar(content, n + 1, p + 1) = SoFar(content, n + 1, p) \cup {p + 1}
  <2>1. PICK m \in Nat : m = n + 1
    BY <1>4
  <2>2. ~IsHost(content[p + 1]) /\ Rank(HostLines(content), p) = m
    BY <1>1, <1>2, <1>3, <2>1
  <2>3. /\ Rank(HostLines(content), p + 1) = m
        /\ SoFar(content, m, p + 1) = SoFar(content, m, p) \cup {p + 1}
    BY <1>4, <2>2, BodyStep
  <2> QED  BY <2>1, <2>3
<1>6. Said(content, SoFar(content, n + 1, p + 1)) = Apply(sec, Head(rest))
  <2> DEFINE Q == SoFar(content, n + 1, p)
  <2>1. Q \in SUBSET Nat /\ IsFiniteSet(Q) /\ \A j \in Q : j < p + 1
    BY <1>4, BodyType
  <2> HIDE DEF Q
  <2>2. Said(content, Q \cup {p + 1}) = Apply(Said(content, Q), content[p + 1])
    BY <1>4, <2>1, SaidStep
  <2> QED  BY <1>2, <1>3, <1>5, <2>2, Zenon DEF Q
<1> QED  BY <1>2, <1>3, <1>5, <1>6, Zenon DEF Collects, Begun

\* The arguments made of a complete section are the meaning of a host of the
\* file; the next section starts from nothing.
LEMMA CollectsHost ==
    ASSUME NEW content, NEW rest, NEW sec, NEW ret, Collects(content, rest, sec, ret),
           Complete(rest)
    PROVE  LET args == Args(WithDefaults(sec))
           IN  /\ args = Threw => ~Valid(content)
               /\ args # Threw /\ rest = <<>> => Valid(content) /\ Append(ret, args[1]) = Hosts(content)
               /\ args # Threw /\ rest # <<>> =>
                      Collects(content, Tail(rest), NewSection, Append(ret, args[1]))
<1> DEFINE args == Args(WithDefaults(sec))
           p == Position(content, rest)
<1>1. Reads(content, rest) /\ content \in Text
  BY DEF Collects, Reads
<1>2. PICK n \in Nat :
           /\ Begun(content, rest) = n + 1
           /\ \A k \in 1 .. n : Meant(content, Body(content, k)) # Threw
           /\ ret = [k \in 1 .. n |-> Meant(content, Body(content, k))[1]]
           /\ sec = Said(content, SoFar(content, n + 1, p))
  BY DEF Collects
<1>3. n + 1 \in Nat /\ Len(content) \in Nat
  BY <1>1, LenProperties DEF Text
<1>4. SoFar(content, n + 1, p) = Body(content, n + 1) /\ n + 1 <= Cardinality(HostLines(content))
  <2>1. CASE rest = <<>>
    BY <1>1, <1>2, <1>3, <2>1, ReadsEnd, BodyType
  <2>2. CASE rest # <<>>
    <3>1. IsHost(Head(rest)) /\ p \in 0 .. Len(content) - 1 /\ Head(rest) = content[p + 1]
      BY <1>1, <2>2, ReadsStep DEF Complete
    <3>2. Rank(HostLines(content), p) = n + 1
      BY <1>2 DEF Begun
    <3>3. /\ SoFar(content, n + 1, p) = Body(content, n + 1)
          /\ n + 1 + 1 <= Cardinality(HostLines(content))
      <4>1. PICK m \in Nat : m = n + 1
        BY <1>3
      <4>2. IsHost(content[p + 1]) /\ Rank(HostLines(content), p) = m
        BY <3>1, <3>2, <4>1
      <4>3. SoFar(content, m, p) = Body(content, m) /\ m + 1 <= Cardinality(HostLines(content))
        BY <1>1, <3>1, <4>2, BodyStep
      <4> QED  BY <4>1, <4>3
    <3>4. Cardinality(HostLines(content)) \in Nat
      BY <1>1, HostLinesType, FS_CardinalityType
    <3> QED  BY <3>3, <3>4
  <2> QED  BY <2>1, <2>2
<1>5. args = Meant(content, Body(content, n + 1))
  BY <1>2, <1>4, Zenon DEF Meant
<1> HIDE DEF args, p
<1>6. PICK c \in Nat : c = Cardinality(HostLines(content))
  BY <1>1, HostLinesType, FS_CardinalityType
<1>7. ASSUME args = Threw PROVE ~Valid(content)
  <2>1. n + 1 \in 1 .. c
    BY <1>4, <1>6
  <2>2. MeantBy(content) = [k \in 1 .. c |-> Meant(content, Body(content, k))]
    BY <1>6 DEF MeantBy
  <2>3. n + 1 \in DOMAIN MeantBy(content) /\ MeantBy(content)[n + 1] = Threw
    BY <1>5, <1>7, <2>1, <2>2
  <2> QED  BY <2>3 DEF Valid
<1>8. ASSUME args # Threw
      PROVE  /\ \A k \in 1 .. n + 1 : Meant(content, Body(content, k)) # Threw
             /\ Append(ret, args[1]) = [k \in 1 .. n + 1 |-> Meant(content, Body(content, k))[1]]
  <2> DEFINE f == [k \in 1 .. n + 1 |-> Meant(content, Body(content, k))[1]]
  <2>1. \A k \in 1 .. n + 1 : k \in 1 .. n \/ k = n + 1
    OBVIOUS
  <2>2. \A k \in 1 .. n + 1 : Meant(content, Body(content, k)) # Threw
    BY <1>2, <1>5, <1>8, <2>1, Zenon
  <2>3. ret = [k \in 1 .. n |-> f[k]]
    BY <1>2
  <2>4. f[n + 1] = args[1]
    BY <1>5
  <2>5. f = [k \in 1 .. n + 1 |-> f[k]] /\ DOMAIN f = 1 .. n + 1
    OBVIOUS
  <2> HIDE DEF f
  <2>6. Append(ret, args[1]) = f
    BY <2>3, <2>4, <2>5, AppendFunction
  <2> QED  BY <2>2, <2>6 DEF f
<1>9. ASSUME args # Threw, rest = <<>> PROVE Valid(content) /\ Append(ret, args[1]) = Hosts(content)
  <2>1. c = n + 1
    BY <1>1, <1>2, <1>6, <1>9, ReadsEnd
  <2>2. MeantBy(content) = [k \in 1 .. n + 1 |-> Meant(content, Body(content, k))]
    BY <1>6, <2>1 DEF MeantBy
  <2> QED  BY <1>8, <1>9, <2>2 DEF Valid, Hosts
<1>10. ASSUME args # Threw, rest # <<>>
       PROVE  Collects(content, Tail(rest), NewSection, Append(ret, args[1]))
  <2>1. /\ IsHost(Head(rest)) /\ p \in 0 .. Len(content) - 1 /\ Head(rest) = content[p + 1]
        /\ Reads(content, Tail(rest)) /\ Position(content, Tail(rest)) = p + 1
    BY <1>1, <1>10, ReadsStep DEF Complete, p
  <2>2. Rank(HostLines(content), p) = n + 1
    BY <1>2 DEF Begun, p
  <2>3. /\ Begun(content, Tail(rest)) = n + 1 + 1
        /\ SoFar(content, n + 1 + 1, p + 1) = {}
    <3>1. PICK m \in Nat : m = n + 1
      BY <1>3
    <3>2. IsHost(content[p + 1]) /\ Rank(HostLines(content), p) = m
      BY <2>1, <2>2, <3>1
    <3>3. Rank(HostLines(content), p + 1) = m + 1 /\ SoFar(content, m + 1, p + 1) = {}
      BY <1>1, <2>1, <3>2, BodyStep
    <3> QED  BY <2>1, <3>1, <3>3 DEF Begun
  <2>4. NewSection = Said(content, SoFar(content, n + 1 + 1, Position(content, Tail(rest))))
    BY <2>1, <2>3, SaidNothing
  <2> QED  BY <1>3, <1>8, <1>10, <2>1, <2>3, <2>4, Zenon DEF Collects
<1> QED  BY <1>7, <1>9, <1>10 DEF args

----------------------------------------------------------------------------
(* The command line                                                        *)

Content == files[given[Taken]]

ArgsTypes ==
    /\ given \in Seq(STRING) /\ options \in Seq(STRING) /\ Suffix(options, given)
    /\ {"h", "s"} \cap DOMAIN files = {}
    /\ \A name \in DOMAIN files : files[name] \in Text

\* The flag follows the options taken.
Flag == to_syslog <=> \E i \in 1 .. Taken : given[i] = "s"

\* Every file taken is valid, and the last one is the result.
Answered ==
    /\ \A i \in FilesRead : Valid(files[given[i]])
    /\ ret_val = IF FilesRead = {} THEN <<>> ELSE Hosts(files[given[Max(FilesRead)]])

\* The file being read is the option taken last; those before it are valid.
InFile == Taken \in FilesRead /\ \A i \in FilesRead \ {Taken} : Valid(files[given[i]])

ConfigInv ==
    /\ ArgsTypes
    /\ Flag
    /\ phase \in {"options", "returned"} => Answered
    /\ phase \in {"file", "section"} => InFile
    /\ phase = "file" => Skips(Content, lines, ret_val)
    /\ phase = "section" => Collects(Content, lines, section, ret_val)
    /\ phase = "threw" => \E i \in FilesRead : ~Valid(files[given[i]])

\* The options that are taken, and the last file among them.
LEMMA TakenType ==
    ASSUME ArgsTypes
    PROVE  /\ Taken \in Nat /\ FilesRead \in SUBSET (1 .. Taken)
           /\ Taken \in FilesRead => Max(FilesRead) = Taken
           /\ Taken \in FilesRead => Content \in Text
<1>1. Len(given) \in Nat /\ Len(options) \in Nat /\ Len(options) <= Len(given)
  BY LenProperties DEF ArgsTypes, Suffix
<1>2. Taken \in Nat
  BY <1>1 DEF Taken
<1>3. FilesRead \in SUBSET (1 .. Taken)
  BY DEF FilesRead
<1>4. ASSUME Taken \in FilesRead PROVE Max(FilesRead) = Taken
  <2> DEFINE F == FilesRead
  <2>1. \A y \in F : y \in Nat /\ Taken >= y
    BY <1>2, <1>3
  <2>2. \A x \in F : (\A y \in F : x >= y) => x = Taken
    BY <1>2, <1>4, <2>1
  <2> HIDE DEF F
  <2>3. \A x \in F : (\A y \in F : x >= y) <=> x = Taken
    BY <2>1, <2>2
  <2>4. (CHOOSE x \in F : \A y \in F : x >= y) = Taken
    BY <1>4, <2>1, <2>2 DEF F
  <2> QED  BY <2>4 DEF Max, F
<1>5. Taken \in FilesRead => Content \in Text
  BY DEF FilesRead, ArgsTypes, Content
<1> QED  BY <1>2, <1>3, <1>4, <1>5

\* Taking an option.
LEMMA TakeOption ==
    ASSUME ArgsTypes, options # <<>>, options' = Tail(options), UNCHANGED <<given, files>>
    PROVE  /\ ArgsTypes' /\ Taken' = Taken + 1 /\ given[Taken + 1] = Head(options)
           /\ FilesRead' = FilesRead \cup (IF Head(options) \in DOMAIN files THEN {Taken + 1} ELSE {})
           /\ (\E i \in 1 .. Taken' : given'[i] = "s")
                <=> (\E i \in 1 .. Taken : given[i] = "s") \/ Head(options) = "s"
<1>1. /\ Tail(options) \in Seq(STRING) /\ Suffix(Tail(options), given)
      /\ Len(given) - Len(Tail(options)) = Taken + 1 /\ Head(options) = given[Taken + 1]
  BY SuffixTail DEF ArgsTypes, Taken
<1>2. ArgsTypes' /\ Taken' = Taken + 1
  BY <1>1 DEF ArgsTypes, Taken
<1>3. Taken \in Nat
  BY TakenType
<1>4. \A i : i \in 1 .. Taken + 1 <=> i \in 1 .. Taken \/ i = Taken + 1
  BY <1>3
<1>5. FilesRead' = {i \in 1 .. Taken + 1 : given[i] \in DOMAIN files}
  BY <1>2 DEF FilesRead
<1>6. FilesRead' = FilesRead \cup (IF Head(options) \in DOMAIN files THEN {Taken + 1} ELSE {})
  BY <1>1, <1>4, <1>5, Zenon DEF FilesRead
<1>7. (\E i \in 1 .. Taken' : given'[i] = "s")
          <=> (\E i \in 1 .. Taken : given[i] = "s") \/ Head(options) = "s"
  BY <1>1, <1>2, <1>4, Zenon
<1> QED  BY <1>1, <1>2, <1>6, <1>7

\* The end of a file.
LEMMA FileEnds ==
    ASSUME ArgsTypes, InFile, Valid(Content), UNCHANGED <<given, options, files>>,
           ret_val' = Hosts(Content)
    PROVE  Answered'
<1>1. Max(FilesRead) = Taken /\ FilesRead # {}
  BY TakenType DEF InFile
<1>2. \A i \in FilesRead : Valid(files[given[i]])
  BY DEF InFile, Content
<1>3. FilesRead' = FilesRead
  BY DEF FilesRead, Taken
<1> QED  BY <1>1, <1>2, <1>3 DEF Answered, Content

\* Every action keeps the invariant.
LEMMA ConfigStep == ConfigInv /\ [Next]_vars => ConfigInv'
<1> SUFFICES ASSUME ConfigInv, [Next]_vars PROVE ConfigInv'
  OBVIOUS
<1>1. ASSUME UNCHANGED <<given, options, files>>
      PROVE  Taken' = Taken /\ FilesRead' = FilesRead /\ Content' = Content /\ ArgsTypes'
  BY <1>1 DEF Taken, FilesRead, Content, ArgsTypes, ConfigInv
<1>2. ASSUME UNCHANGED <<given, options, files, to_syslog>> PROVE Flag'
  BY <1>1, <1>2 DEF Flag, ConfigInv
<1>3. ASSUME UNCHANGED <<given, options, files>>, InFile PROVE InFile'
  BY <1>1, <1>3 DEF InFile
<1>4. CASE Option
  <2>1. /\ ArgsTypes' /\ Taken' = Taken + 1 /\ given[Taken + 1] = Head(options)
        /\ FilesRead' = FilesRead \cup (IF Head(options) \in DOMAIN files THEN {Taken + 1} ELSE {})
        /\ (\E i \in 1 .. Taken' : given'[i] = "s")
                <=> (\E i \in 1 .. Taken : given[i] = "s") \/ Head(options) = "s"
    BY <1>4, TakeOption DEF ConfigInv, Option
  <2>2. Answered /\ Flag /\ UNCHANGED <<given, files>> /\ phase = "options"
    BY <1>4 DEF ConfigInv, Option
  <2>3. "h" \notin DOMAIN files /\ "s" \notin DOMAIN files
    BY DEF ConfigInv, ArgsTypes
  <2>4. ASSUME Head(options) \notin DOMAIN files, UNCHANGED ret_val PROVE Answered'
    <3>1. FilesRead' = FilesRead
      BY <2>1, <2>4
    <3> QED  BY <2>2, <2>4, <3>1 DEF Answered
  <2>5. CASE Head(options) = "h"
    <3>1. phase' = "exited" /\ UNCHANGED <<ret_val, to_syslog>>
      BY <1>4, <2>3, <2>5 DEF Option
    <3> QED  BY <2>1, <2>2, <2>5, <3>1 DEF ConfigInv, Flag
  <2>6. CASE Head(options) = "s"
    <3>1. phase' = "options" /\ to_syslog' = TRUE /\ UNCHANGED ret_val
      BY <1>4, <2>2, <2>3, <2>6 DEF Option
    <3>2. Answered'
      BY <2>3, <2>4, <2>6, <3>1
    <3> QED  BY <2>1, <2>6, <3>1, <3>2 DEF ConfigInv, Flag
  <2>7. CASE Head(options) \in DOMAIN files
    <3>1. phase' = "file" /\ lines' = files[Head(options)] /\ ret_val' = <<>> /\ UNCHANGED to_syslog
      BY <1>4, <2>3, <2>7 DEF Option
    <3>2. Content' = files[Head(options)] /\ files[Head(options)] \in Text
      BY <2>1, <2>2, <2>7 DEF Content, ConfigInv, ArgsTypes
    <3>3. Skips(Content', lines', ret_val')
      BY <3>1, <3>2, SkipsFirst
    <3>4. InFile'
      <4>1. FilesRead' = FilesRead \cup {Taken'}
        BY <2>1, <2>7
      <4> QED  BY <2>2, <4>1 DEF InFile, Answered
    <3>5. Flag'
      BY <2>1, <2>2, <2>3, <2>7, <3>1 DEF Flag
    <3> QED  BY <2>1, <3>1, <3>3, <3>4, <3>5 DEF ConfigInv
  <2>8. CASE Head(options) # "h" /\ Head(options) # "s" /\ Head(options) \notin DOMAIN files
    <3>1. phase' = "options" /\ UNCHANGED <<ret_val, to_syslog>>
      BY <1>4, <2>2, <2>8 DEF Option
    <3>2. Answered'
      BY <2>4, <2>8, <3>1
    <3> QED  BY <2>1, <2>2, <2>8, <3>1, <3>2 DEF ConfigInv, Flag
  <2> QED  BY <2>5, <2>6, <2>7, <2>8
<1>5. CASE NoOption
  <2>1. UNCHANGED <<given, options, files, ret_val, to_syslog>> /\ phase' = "returned" /\ Answered
    BY <1>5 DEF NoOption, ConfigInv
  <2>2. Answered'
    BY <1>1, <2>1 DEF Answered
  <2> QED  BY <1>1, <1>2, <2>1, <2>2 DEF ConfigInv
<1>6. CASE SkipLine
  <2>1. /\ UNCHANGED <<given, options, files, ret_val, to_syslog>>
        /\ InFile /\ Skips(Content, lines, ret_val) /\ ArgsTypes
    BY <1>6 DEF SkipLine, ConfigInv
  <2>2. CASE lines = <<>>
    <3>1. phase' = "options"
      BY <1>6, <2>2 DEF SkipLine
    <3>2. Answered'
      BY <2>1, <2>2, SkipsLast, FileEnds
    <3> QED  BY <1>1, <1>2, <2>1, <3>1, <3>2 DEF ConfigInv
  <2>3. CASE lines # <<>> /\ IsHost(Head(lines))
    <3>1. phase' = "section" /\ lines' = Tail(lines) /\ section' = NewSection
      BY <1>6, <2>3 DEF SkipLine
    <3>2. Collects(Content, Tail(lines), NewSection, ret_val)
      BY <2>1, <2>3, SkipsOn
    <3> QED  BY <1>1, <1>2, <1>3, <2>1, <3>1, <3>2 DEF ConfigInv
  <2>4. CASE lines # <<>> /\ ~IsHost(Head(lines))
    <3>1. phase' = "file" /\ lines' = Tail(lines)
      BY <1>6, <2>4 DEF SkipLine
    <3>2. Skips(Content, Tail(lines), ret_val)
      BY <2>1, <2>4, SkipsOn
    <3> QED  BY <1>1, <1>2, <1>3, <2>1, <3>1, <3>2 DEF ConfigInv
  <2> QED  BY <2>2, <2>3, <2>4
<1>7. CASE ReadLine
  <2>1. /\ UNCHANGED <<phase, given, options, files, ret_val, to_syslog>> /\ phase = "section"
        /\ section' = Apply(section, Head(lines)) /\ lines' = Tail(lines) /\ ~Complete(lines)
        /\ InFile /\ Collects(Content, lines, section, ret_val)
    BY <1>7 DEF ReadLine, LineOfSection, Complete, ConfigInv
  <2>2. Collects(Content, Tail(lines), Apply(section, Head(lines)), ret_val)
    BY <2>1, CollectsLine
  <2> QED  BY <1>1, <1>2, <1>3, <2>1, <2>2 DEF ConfigInv
<1>8. CASE EndSection
  <2> DEFINE args == Args(WithDefaults(section))
  <2>1. /\ UNCHANGED <<given, options, files, to_syslog>> /\ phase = "section" /\ Complete(lines)
        /\ InFile /\ Collects(Content, lines, section, ret_val) /\ ArgsTypes
    BY <1>8 DEF EndSection, LineOfSection, Complete, ConfigInv
  <2>2. /\ args = Threw => ~Valid(Content)
        /\ args # Threw /\ lines = <<>> =>
               Valid(Content) /\ Append(ret_val, args[1]) = Hosts(Content)
        /\ args # Threw /\ lines # <<>> =>
               Collects(Content, Tail(lines), NewSection, Append(ret_val, args[1]))
    BY <2>1, CollectsHost
  <2>3. CASE args = Threw
    <3>1. phase' = "threw"
      BY <1>8, <2>3 DEF EndSection
    <3>2. \E i \in FilesRead : ~Valid(files[given[i]])
      BY <2>1, <2>2, <2>3 DEF InFile, Content
    <3> QED  BY <1>1, <1>2, <2>1, <3>1, <3>2 DEF ConfigInv
  <2>4. CASE args # Threw /\ lines = <<>>
    <3>1. phase' = "options" /\ ret_val' = Append(ret_val, args[1])
      BY <1>8, <2>4 DEF EndSection
    <3>2. Answered'
      BY <2>1, <2>2, <2>4, <3>1, FileEnds
    <3> QED  BY <1>1, <1>2, <2>1, <3>1, <3>2 DEF ConfigInv
  <2>5. CASE args # Threw /\ lines # <<>>
    <3>1. /\ phase' = "section" /\ ret_val' = Append(ret_val, args[1])
          /\ section' = NewSection /\ lines' = Tail(lines)
      BY <1>8, <2>1, <2>5 DEF EndSection
    <3> QED  BY <1>1, <1>2, <1>3, <2>1, <2>2, <2>5, <3>1 DEF ConfigInv
  <2> QED  BY <2>3, <2>4, <2>5
<1>9. CASE Ended \/ UNCHANGED vars
  <2>1. UNCHANGED vars
    BY <1>9 DEF Ended
  <2> QED  BY <1>1, <1>2, <1>3, <2>1 DEF vars, ConfigInv, Answered
<1> QED  BY <1>4, <1>5, <1>6, <1>7, <1>8, <1>9 DEF Next

\* read_commandline, for any command line and any files: the hosts that are
\* watched are those of the last file given, each as the lines of its own
\* section say, whatever the sections before it said; an exception means that
\* some host of a file is not valid; -s counts wherever it stands before the
\* end of the reading.
THEOREM ConfigIsUnderstood == Spec => []ConfigUnderstood
<1>1. Init => ConfigInv
  <2> SUFFICES ASSUME Init PROVE ConfigInv
    OBVIOUS
  <2>1. PICK input \in Inputs : Starts(input.given, input.files)
    BY DEF Init
  <2>2. /\ phase = "options" /\ options = given /\ ret_val = <<>> /\ to_syslog = FALSE
        /\ given = input.given /\ files = input.files
    BY <2>1 DEF Starts
  <2>3. given \in Seq(STRING) /\ Len(given) \in Nat
    BY <2>2, InputsAssumption, LenProperties
  <2>4. Suffix(options, given) /\ Taken = 0
    BY <2>2, <2>3 DEF Suffix, Taken
  <2>5. ArgsTypes
    BY <2>2, <2>3, <2>4, InputsAssumption DEF ArgsTypes, Text
  <2>6. FilesRead = {} /\ Flag
    BY <2>2, <2>4 DEF FilesRead, Flag
  <2> QED  BY <2>2, <2>5, <2>6 DEF ConfigInv, Answered
<1>2. ConfigInv => ConfigUnderstood
  BY DEF ConfigInv, ConfigUnderstood, Answered, Flag
<1> QED  BY <1>1, <1>2, ConfigStep, PTL DEF Spec

\* NumbersExact for any text, and any unsigned type that strtoull can hold:
\* str_to_integral accepts a decimal number exactly if the type holds it, with
\* its value.
THEOREM NumbersAreExact ==
    ASSUME sample.of = "number" =>
               sample.text \in Seq(STRING) /\ sample.max \in Nat /\ sample.max <= ULLONG_MAX
    PROVE  NumbersExact
BY NumberIsExact DEF NumbersExact

\* AddressesExact for any text of words and separators: what parse_ip accepts
\* has a subnet of its version, and `ip addr add' is given a text that is read
\* as the same address and subnet.
THEOREM AddressesAreExact ==
    ASSUME sample.of = "address" => sample.text \in Seq(Token)
    PROVE  AddressesExact
BY AddressIsExact DEF AddressesExact
=============================================================================
