--------------------------- MODULE KprintfProofs ---------------------------
(***************************************************************************)
(* What kprintf prints for a number, for every word size, base, width and  *)
(* padding: the number reads back from the text (IsNumeral), which has the *)
(* wanted width and fits into the buffer.  The recursive functions of      *)
(* Kprintf are reasoned about with two first-order facts: a set of natural *)
(* numbers that is not empty has a least element, and a recursive          *)
(* definition whose value at k depends on the values below k has a         *)
(* solution.                                                               *)
(***************************************************************************)
EXTENDS Kprintf, WellFoundedInduction, SequenceTheorems, TLAPS

-----------------------------------------------------------------------------
(* Induction and recursion over the natural numbers.                       *)

(* A set of natural numbers that is not empty has a least element.         *)
LEMMA LeastNat ==
  ASSUME NEW T \in SUBSET Nat, T # {}
  PROVE  \E m \in T : \A k \in T : m <= k
<1> DEFINE R == OpToRel(<, Nat)
<1>1. IsWellFoundedOn(R, Nat)
  BY NatLessThanWellFounded
<1>2. \A x, y \in Nat : x < y => <<x, y>> \in R
  BY DEF OpToRel
<1> HIDE DEF R
<1>3. PICK m \in T : \A k \in T : ~(<<k, m>> \in R)
  BY <1>1, WFMin, Zenon
<1>4. ASSUME NEW k \in T PROVE m <= k
  <2>1. m \in Nat /\ k \in Nat
    OBVIOUS
  <2>2. ~(k < m)
    BY <1>2, <1>3, <2>1
  <2> QED BY <2>1, <2>2
<1> QED BY <1>3, <1>4

(* The steps G of recursive definitions of functions from Nat to V: the    *)
(* value at k is computed from the values below k.                         *)
Steps(V) == {G \in [Nat -> [[Nat -> V] -> V]] :
                \A k \in Nat : \A g, h \in [Nat -> V] :
                   (\A j \in 0 .. k - 1 : g[j] = h[j]) => G[k][g] = G[k][h]}

Solution(V, G, f) == f \in [Nat -> V] /\ \A k \in Nat : f[k] = G[k][f]

(* A recursive definition has a solution.                                  *)
LEMMA Recursion ==
  ASSUME NEW V, NEW v \in V, NEW G \in Steps(V)
  PROVE  \E f : Solution(V, G, f)
<1>0. /\ G \in [Nat -> [[Nat -> V] -> V]]
      /\ \A k \in Nat : \A g, h \in [Nat -> V] :
            (\A j \in 0 .. k - 1 : g[j] = h[j]) => G[k][g] = G[k][h]
  BY DEF Steps
<1> DEFINE Approx(n, h) == h \in [Nat -> V] /\ \A k \in 0 .. n - 1 : h[k] = G[k][h]
<1>1. \A k \in Nat : \A g \in [Nat -> V] : G[k][g] \in V
  BY <1>0
<1>2. ASSUME NEW n \in Nat PROVE \E h : Approx(n, h)
  <2> DEFINE T == {k \in Nat : ~\E h : Approx(k, h)}
  <2>1. SUFFICES ASSUME T # {} PROVE FALSE
    OBVIOUS
  <2>2. PICK m \in T : \A k \in T : m <= k
    BY <2>1, LeastNat
  <2>3. m # 0
    <3>1. Approx(0, [k \in Nat |-> v])
      OBVIOUS
    <3> QED BY <2>2, <3>1
  <2>4. m \in Nat /\ m - 1 \in Nat /\ m - 1 \notin T
    <3>1. m \in Nat /\ T \in SUBSET Nat
      BY <2>2
    <3> HIDE DEF T
    <3>2. m - 1 \in Nat /\ ~(m <= m - 1)
      BY <2>3, <3>1
    <3> QED BY <2>2, <3>1, <3>2
  <2>5. PICK h : Approx(m - 1, h)
    BY <2>4
  <2> DEFINE g == [h EXCEPT ![m - 1] = G[m - 1][h]]
  <2>6. g \in [Nat -> V] /\ \A j \in Nat \ {m - 1} : g[j] = h[j]
    BY <1>1, <2>4, <2>5
  <2>7. ASSUME NEW k \in 0 .. m - 1 PROVE g[k] = G[k][g]
    <3> HIDE DEF g
    <3>1. k \in Nat /\ \A j \in 0 .. k - 1 : h[j] = g[j]
      BY <2>4, <2>6
    <3>2. G[k][h] = G[k][g]
      BY <1>0, <2>5, <2>6, <3>1
    <3>3. CASE k = m - 1
      BY <2>4, <2>5, <3>2, <3>3 DEF g
    <3>4. CASE k # m - 1
      <4>1. k \in 0 .. (m - 1) - 1
        BY <2>4, <3>4
      <4> QED BY <2>5, <2>6, <3>1, <3>2, <3>4, <4>1
    <3> QED BY <3>3, <3>4
  <2>8. Approx(m, g)
    BY <2>6, <2>7
  <2> QED BY <2>2, <2>8
<1>3. ASSUME NEW n \in Nat, NEW g, NEW h, Approx(n, g), Approx(n, h)
      PROVE  \A k \in 0 .. n - 1 : g[k] = h[k]
  <2> DEFINE T == {k \in 0 .. n - 1 : g[k] # h[k]}
  <2>1. SUFFICES ASSUME T # {} PROVE FALSE
    OBVIOUS
  <2>2. T \in SUBSET Nat
    OBVIOUS
  <2>3. PICK m \in T : \A k \in T : m <= k
    BY <2>1, <2>2, LeastNat
  <2>4. \A j \in 0 .. m - 1 : g[j] = h[j]
    BY <2>2, <2>3
  <2>5. G[m][g] = G[m][h]
    BY <1>0, <1>3, <2>2, <2>4
  <2> QED BY <1>3, <2>3, <2>5
<1>4. \A k \in Nat, n \in Nat : \A h : k <= n /\ Approx(n, h) => Approx(k, h)
  OBVIOUS
<1> DEFINE H(k) == CHOOSE h : Approx(k + 1, h)
           F == [k \in Nat |-> H(k)[k]]
<1>5. ASSUME NEW k \in Nat PROVE Approx(k + 1, H(k))
  <2>0. k + 1 \in Nat
    OBVIOUS
  <2> HIDE DEF Approx
  <2>1. \E h : Approx(k + 1, h)
    BY <1>2, <2>0
  <2> QED BY <2>1, Zenon
<1>6. \A k \in Nat : \A j \in 0 .. k : H(j)[j] = H(k)[j]
  <2> SUFFICES ASSUME NEW k \in Nat, NEW j \in 0 .. k PROVE H(j)[j] = H(k)[j]
    OBVIOUS
  <2>1. j \in Nat /\ j + 1 \in Nat /\ j + 1 <= k + 1 /\ k + 1 \in Nat /\ j \in 0 .. (j + 1) - 1
    OBVIOUS
  <2>2. Approx(j + 1, H(j)) /\ Approx(k + 1, H(k))
    BY <1>5, <2>1
  <2> HIDE DEF H, Approx
  <2>3. Approx(j + 1, H(k))
    BY <1>4, <2>1, <2>2
  <2> QED BY <1>3, <2>1, <2>2, <2>3
<1>7. ASSUME NEW k \in Nat
      PROVE  H(k) \in [Nat -> V] /\ H(k)[k] = G[k][H(k)]
  <2>1. k \in 0 .. (k + 1) - 1
    OBVIOUS
  <2> HIDE DEF H, Approx
  <2>2. Approx(k + 1, H(k))
    BY <1>5
  <2> QED BY <2>1, <2>2 DEF Approx
<1> HIDE DEF H, Approx
<1>8. F \in [Nat -> V] /\ \A k \in Nat : F[k] = H(k)[k]
  BY <1>7
<1>9. ASSUME NEW k \in Nat PROVE F[k] = G[k][F]
  <2>1. \A j \in 0 .. k - 1 : H(k)[j] = F[j]
    BY <1>6, <1>8
  <2>2. G[k][H(k)] = G[k][F]
    BY <1>0, <1>7, <1>8, <2>1
  <2> QED BY <1>7, <1>8, <2>2
<1> QED BY <1>8, <1>9 DEF Solution

-----------------------------------------------------------------------------
(* The digits of a number.                                                 *)

(* The bases kprintf uses and the characters of their digits.              *)
Bases == {2, 10, 16}
DigitSet(base) == {Digit(d) : d \in 0 .. base - 1}

(* The digit split off and what remains.                                   *)
LEMMA Division ==
  ASSUME NEW base \in Bases, NEW x \in Nat
  PROVE  /\ x \div base \in Nat /\ x % base \in 0 .. base - 1
         /\ x = (x \div base) * base + (x % base)
         /\ x < base => x % base = x /\ x \div base = 0
         /\ x >= base => x \div base < x /\ x \div base > 0
<1>1. /\ x \div 2 \in Nat /\ x % 2 \in 0 .. 2 - 1
      /\ x = (x \div 2) * 2 + (x % 2)
      /\ x < 2 => x % 2 = x /\ x \div 2 = 0
      /\ x >= 2 => x \div 2 < x /\ x \div 2 > 0
  OBVIOUS
<1>2. /\ x \div 10 \in Nat /\ x % 10 \in 0 .. 10 - 1
      /\ x = (x \div 10) * 10 + (x % 10)
      /\ x < 10 => x % 10 = x /\ x \div 10 = 0
      /\ x >= 10 => x \div 10 < x /\ x \div 10 > 0
  OBVIOUS
<1>3. /\ x \div 16 \in Nat /\ x % 16 \in 0 .. 16 - 1
      /\ x = (x \div 16) * 16 + (x % 16)
      /\ x < 16 => x % 16 = x /\ x \div 16 = 0
      /\ x >= 16 => x \div 16 < x /\ x \div 16 > 0
  OBVIOUS
<1> QED BY <1>1, <1>2, <1>3 DEF Bases

(* No two digits have the same character.                                  *)
LEMMA DigitsDiffer ==
  ASSUME NEW base \in Bases, NEW d \in 0 .. base - 1
  PROVE  /\ Digit(d) \in DigitSet(base)
         /\ Digit(d) = "0" => d = 0
         /\ \A e \in 0 .. base - 1 : Digit(e) = Digit(d) => e = d
         /\ (CHOOSE e \in 0 .. base - 1 : Digit(e) = Digit(d)) = d
<1>1. /\ Digit(0) = "0" /\ Digit(1) = "1" /\ Digit(2) = "2" /\ Digit(3) = "3"
      /\ Digit(4) = "4" /\ Digit(5) = "5" /\ Digit(6) = "6" /\ Digit(7) = "7"
      /\ Digit(8) = "8" /\ Digit(9) = "9" /\ Digit(10) = "A" /\ Digit(11) = "B"
      /\ Digit(12) = "C" /\ Digit(13) = "D" /\ Digit(14) = "E" /\ Digit(15) = "F"
  BY DEF Digit, DigitChars
<1>2. /\ \A e \in 0 .. 15 : \A f \in 0 .. 15 : Digit(e) = Digit(f) => e = f
      /\ \A e \in 0 .. 15 : (Digit(e) = "0" => e = 0)
  <2>1. \A e \in 0 .. 15 : \A f \in 0 .. 15 : Digit(e) = Digit(f) => e = f
    BY <1>1
  <2>2. \A e \in 0 .. 15 : Digit(e) = "0" => e = 0
    BY <1>1
  <2> QED BY <2>1, <2>2
<1>3. 0 .. base - 1 \subseteq 0 .. 15
  BY DEF Bases
<1>4. \A e \in 0 .. base - 1 : Digit(e) = Digit(d) => e = d
  BY <1>2, <1>3
<1> DEFINE e == CHOOSE e \in 0 .. base - 1 : Digit(e) = Digit(d)
<1>5. e \in 0 .. base - 1 /\ Digit(e) = Digit(d)
  OBVIOUS
<1>6. e = d
  BY <1>4, <1>5
<1> QED BY <1>2, <1>3, <1>4, <1>6 DEF DigitSet

(* num_digits is what its recursive definition says, and positive.         *)
LEMMA NumDigits ==
  ASSUME NEW base \in Bases
  PROVE  \A x \in Nat :
           /\ num_digits(x, base) \in Nat \ {0}
           /\ num_digits(x, base) =
                IF x < base THEN 1 ELSE 1 + num_digits(x \div base, base)
<1> DEFINE n == CHOOSE n : n = [x \in Nat |-> IF x < base THEN 1 ELSE 1 + n[x \div base]]
           G == [k \in Nat |-> [g \in [Nat -> Nat] |-> IF k < base THEN 1 ELSE 1 + g[k \div base]]]
<1>1. \A k \in Nat : k \div base \in Nat /\ (k >= base => k \div base \in 0 .. k - 1)
  BY Division
<1>2. \A k \in Nat, g \in [Nat -> Nat] :
         G[k][g] = IF k < base THEN 1 ELSE 1 + g[k \div base]
  OBVIOUS
<1>3. G \in [Nat -> [[Nat -> Nat] -> Nat]]
  <2>1. \A k \in Nat, g \in [Nat -> Nat] :
         (IF k < base THEN 1 ELSE 1 + g[k \div base]) \in Nat
    BY <1>1
  <2> QED BY <2>1
<1>4. base \in Int
  BY DEF Bases
<1>5. \E f : Solution(Nat, G, f)
  <2> HIDE DEF G
  <2>1. ASSUME NEW k \in Nat, NEW g \in [Nat -> Nat], NEW h \in [Nat -> Nat],
               \A j \in 0 .. k - 1 : g[j] = h[j]
        PROVE  G[k][g] = G[k][h]
    <3>1. k >= base => g[k \div base] = h[k \div base]
      BY <1>1, <2>1
    <3>2. k < base \/ k >= base
      BY <1>4
    <3> QED BY <1>2, <3>1, <3>2
  <2>2. 0 \in Nat
    OBVIOUS
  <2>3. \A k \in Nat : \A g, h \in [Nat -> Nat] :
           (\A j \in 0 .. k - 1 : g[j] = h[j]) => G[k][g] = G[k][h]
    BY <2>1
  <2>4. G \in Steps(Nat)
    BY <1>3, <2>3 DEF Steps
  <2> QED BY <2>2, <2>4, Recursion
<1>6. n = [x \in Nat |-> IF x < base THEN 1 ELSE 1 + n[x \div base]]
  <2>1. PICK f : Solution(Nat, G, f)
    BY <1>5
  <2>2. f = [x \in Nat |-> IF x < base THEN 1 ELSE 1 + f[x \div base]]
    BY <1>2, <2>1 DEF Solution
  <2> QED BY <2>2
<1> HIDE DEF n
<1>7. \A x \in Nat : n[x] = IF x < base THEN 1 ELSE 1 + n[x \div base]
  BY <1>6
<1>8. \A x \in Nat : n[x] \in Nat \ {0}
  <2> DEFINE T == {x \in Nat : n[x] \notin Nat \ {0}}
  <2>1. SUFFICES ASSUME T # {} PROVE FALSE
    OBVIOUS
  <2>2. PICK m \in T : \A k \in T : m <= k
    BY <2>1, LeastNat
  <2>3. m \in Nat /\ n[m] \notin Nat \ {0} /\ \A k \in 0 .. m - 1 : n[k] \in Nat \ {0}
    BY <2>2
  <2>4. m >= base => n[m \div base] \in Nat \ {0}
    BY <1>1, <2>3
  <2> QED BY <1>4, <1>7, <2>3, <2>4
<1>9. \A x : num_digits(x, base) = n[x]
  BY DEF num_digits, n
<1> QED BY <1>1, <1>7, <1>8, <1>9

(* So is digits_of, with as many digits as num_digits counts.              *)
LEMMA DigitsOf ==
  ASSUME NEW base \in Bases
  PROVE  \A x \in Nat :
           /\ digits_of(x, base) \in Seq(DigitSet(base))
           /\ Len(digits_of(x, base)) = num_digits(x, base)
           /\ x < base => digits_of(x, base) = <<Digit(x)>>
           /\ x >= base => digits_of(x, base) =
                Append(digits_of(x \div base, base), Digit(x % base))
<1> DEFINE S == DigitSet(base)
           n == CHOOSE n : n = [x \in Nat |->
                   IF x < base THEN <<Digit(x)>> ELSE Append(n[x \div base], Digit(x % base))]
           G == [k \in Nat |-> [g \in [Nat -> Seq(S)] |->
                   IF k < base THEN <<Digit(k)>> ELSE Append(g[k \div base], Digit(k % base))]]
<1>1. \A k \in Nat : /\ k \div base \in Nat /\ k % base \in 0 .. base - 1
                     /\ k >= base => k \div base \in 0 .. k - 1
                     /\ k < base => k \in 0 .. base - 1
  BY Division DEF Bases
<1>2. \A k \in Nat, g \in [Nat -> Seq(S)] :
         G[k][g] = IF k < base THEN <<Digit(k)>> ELSE Append(g[k \div base], Digit(k % base))
  OBVIOUS
<1>3. /\ \A d \in 0 .. base - 1 : Digit(d) \in S
      /\ \A s \in Seq(S) : \A d \in 0 .. base - 1 :
            Append(s, Digit(d)) \in Seq(S) /\ Len(Append(s, Digit(d))) = Len(s) + 1
  BY DigitsDiffer
<1>4. G \in [Nat -> [[Nat -> Seq(S)] -> Seq(S)]]
  <2> HIDE DEF S
  <2>1. \A k \in Nat, g \in [Nat -> Seq(S)] :
         (IF k < base THEN <<Digit(k)>> ELSE Append(g[k \div base], Digit(k % base))) \in Seq(S)
    <3> SUFFICES ASSUME NEW k \in Nat, NEW g \in [Nat -> Seq(S)]
                 PROVE  (IF k < base THEN <<Digit(k)>>
                         ELSE Append(g[k \div base], Digit(k % base))) \in Seq(S)
      OBVIOUS
    <3>1. CASE k < base
      BY <1>1, <1>3, <3>1
    <3>2. CASE ~(k < base)
      <4>1. g[k \div base] \in Seq(S)
        BY <1>1
      <4> QED BY <1>1, <1>3, <3>2, <4>1
    <3> QED BY <3>1, <3>2
  <2> QED BY <2>1
<1>5. base \in Int /\ << >> \in Seq(S)
  BY DEF Bases
<1>6. \E f : Solution(Seq(S), G, f)
  <2> HIDE DEF G, S
  <2>1. ASSUME NEW k \in Nat, NEW g \in [Nat -> Seq(S)], NEW h \in [Nat -> Seq(S)],
               \A j \in 0 .. k - 1 : g[j] = h[j]
        PROVE  G[k][g] = G[k][h]
    <3>1. k >= base => g[k \div base] = h[k \div base]
      BY <1>1, <2>1
    <3>2. k < base \/ k >= base
      BY <1>5
    <3> QED BY <1>2, <3>1, <3>2
  <2>3. \A k \in Nat : \A g, h \in [Nat -> Seq(S)] :
           (\A j \in 0 .. k - 1 : g[j] = h[j]) => G[k][g] = G[k][h]
    BY <2>1
  <2>4. G \in Steps(Seq(S))
    BY <1>4, <2>3 DEF Steps
  <2> QED BY <1>5, <2>4, Recursion
<1>7. n = [x \in Nat |->
             IF x < base THEN <<Digit(x)>> ELSE Append(n[x \div base], Digit(x % base))]
  <2>1. PICK f : Solution(Seq(S), G, f)
    BY <1>6
  <2>2. f = [x \in Nat |->
               IF x < base THEN <<Digit(x)>> ELSE Append(f[x \div base], Digit(x % base))]
    <3> HIDE DEF G, S
    <3> QED BY <1>2, <2>1 DEF Solution
  <2> QED BY <2>2
<1> HIDE DEF n, S
<1>8. \A x \in Nat : n[x] = IF x < base THEN <<Digit(x)>>
                            ELSE Append(n[x \div base], Digit(x % base))
  BY <1>7
<1>9. \A x \in Nat : n[x] \in Seq(S) /\ Len(n[x]) = num_digits(x, base)
  <2> DEFINE Q(x) == n[x] \in Seq(S) /\ Len(n[x]) = num_digits(x, base)
             T == {x \in Nat : ~Q(x)}
  <2>1. SUFFICES ASSUME T # {} PROVE FALSE
    OBVIOUS
  <2>2. PICK m \in T : \A k \in T : m <= k
    BY <2>1, LeastNat
  <2>3. m \in Nat /\ ~Q(m)
    BY <2>2
  <2>4. \A k \in 0 .. m - 1 : Q(k)
    BY <2>2
  <2>5. CASE m < base
    <3>1. n[m] = <<Digit(m)>> /\ Digit(m) \in S /\ num_digits(m, base) = 1
      BY <1>1, <1>3, <1>8, <2>3, <2>5, NumDigits
    <3> QED BY <2>3, <3>1
  <2>6. CASE ~(m < base)
    <3>1. Q(m \div base) /\ m \div base \in Nat
      <4>1. m \div base \in 0 .. m - 1 /\ m \div base \in Nat
        BY <1>1, <1>5, <2>3, <2>6
      <4> HIDE DEF Q
      <4> QED BY <2>4, <4>1
    <3>2. n[m] = Append(n[m \div base], Digit(m % base)) /\ m % base \in 0 .. base - 1
      BY <1>1, <1>8, <2>3, <2>6
    <3>3. num_digits(m, base) = 1 + num_digits(m \div base, base)
          /\ num_digits(m \div base, base) \in Nat
      BY <2>3, <2>6, <3>1, NumDigits
    <3> QED BY <1>3, <2>3, <3>1, <3>2, <3>3
  <2> QED BY <2>5, <2>6
<1>10. \A x : digits_of(x, base) = n[x]
  BY DEF digits_of, n
<1>11. ASSUME NEW x \in Nat
       PROVE  /\ x < base => digits_of(x, base) = <<Digit(x)>>
              /\ x >= base => digits_of(x, base) =
                   Append(digits_of(x \div base, base), Digit(x % base))
  <2>1. (x < base) = ~(x >= base)
    BY <1>5
  <2>2. n[x] = IF x < base THEN <<Digit(x)>>
               ELSE Append(n[x \div base], Digit(x % base))
    BY <1>8
  <2> QED BY <1>10, <2>1, <2>2
<1> QED BY <1>9, <1>10, <1>11 DEF S

-----------------------------------------------------------------------------
(* What digits read as.                                                    *)

(* The first digit of a number other than 0 is not 0.                      *)
LEMMA LeadingDigit ==
  ASSUME NEW base \in Bases
  PROVE  \A x \in Nat \ {0} : digits_of(x, base)[1] # "0"
<1> DEFINE T == {x \in Nat \ {0} : digits_of(x, base)[1] = "0"}
<1>1. SUFFICES ASSUME T # {} PROVE FALSE
  OBVIOUS
<1>2. PICK m \in T : \A k \in T : m <= k
  BY <1>1, LeastNat
<1>3. m \in Nat \ {0} /\ digits_of(m, base)[1] = "0" /\ \A k \in 1 .. m - 1 : k \notin T
  BY <1>2
<1>4. base \in Int
  BY DEF Bases
<1>5. CASE m < base
  <2>1. digits_of(m, base)[1] = Digit(m) /\ m \in 0 .. base - 1
    BY <1>3, <1>4, <1>5, DigitsOf
  <2> QED BY <1>3, <2>1, DigitsDiffer
<1>6. CASE m >= base
  <2> DEFINE s == digits_of(m \div base, base)
             d == Digit(m % base)
  <2>1. m \div base \in 1 .. m - 1 /\ m % base \in 0 .. base - 1
    <3>1. m \in Nat
      BY <1>3
    <3>2. m \div base \in Nat /\ m \div base < m /\ m \div base > 0
      BY <1>6, <3>1, Division
    <3>3. m % base \in 0 .. base - 1
      BY <3>1, Division
    <3> QED BY <3>1, <3>2, <3>3
  <2>2. s \in Seq(DigitSet(base)) /\ Len(s) \in Nat \ {0} /\ d \in DigitSet(base)
    <3>1. m \div base \in Nat
      BY <1>3, <2>1
    <3>2. s \in Seq(DigitSet(base)) /\ Len(s) = num_digits(m \div base, base)
      BY <3>1, DigitsOf
    <3>3. num_digits(m \div base, base) \in Nat \ {0}
      BY <3>1, NumDigits
    <3> QED BY <2>1, <3>2, <3>3, DigitsDiffer
  <2>3. digits_of(m, base) = Append(s, d)
    BY <1>3, <1>6, DigitsOf
  <2>4. s[1] # "0"
    BY <1>3, <2>1
  <2> HIDE DEF s, d
  <2>5. Append(s, d)[1] = s[1]
    BY <2>2, AppendProperties
  <2> QED BY <1>3, <2>3, <2>4, <2>5
<1> QED BY <1>3, <1>4, <1>5, <1>6

-----------------------------------------------------------------------------
Value(c, base) == CHOOSE d \in 0 .. base - 1 : Digit(d) = c

(* The values r of the beginnings of s.                                    *)
Reads(s, base, r) ==
    /\ r[0] = 0
    /\ \A i \in 1 .. Len(s) : r[i] = r[i - 1] * base + Value(s[i], base)
    /\ \A i \in 0 .. Len(s) : r[i] \in Nat

(* Reading is what its recursive definition says.                          *)
LEMMA ReadingIs ==
  ASSUME NEW base \in Bases, NEW s \in Seq(DigitSet(base))
  PROVE  \E r : Reads(s, base, r) /\ Reading(s, base) = r[Len(s)]
<1> DEFINE L == Len(s)
           V(i) == Value(s[i], base)
           read == CHOOSE read : read = [i \in 0 .. L |->
                      IF i = 0 THEN 0 ELSE read[i - 1] * base + V(i)]
           G == [k \in Nat |-> [g \in [Nat -> Nat] |->
                      IF k \in 1 .. L THEN g[k - 1] * base + V(k) ELSE 0]]
<1>1. base \in Nat /\ L \in Nat
  BY DEF Bases
<1>2. ASSUME NEW i \in 1 .. L PROVE V(i) \in Nat
  <2>1. s[i] \in DigitSet(base)
    BY ElementOfSeq
  <2>2. PICK d \in 0 .. base - 1 : s[i] = Digit(d)
    BY <2>1 DEF DigitSet
  <2> QED BY <1>1, <2>2 DEF Value
<1> HIDE DEF V, L
<1>3. \A k \in Nat, g \in [Nat -> Nat] :
         G[k][g] = IF k \in 1 .. L THEN g[k - 1] * base + V(k) ELSE 0
  OBVIOUS
<1>4. G \in [Nat -> [[Nat -> Nat] -> Nat]]
  <2>1. \A m, n, k \in Nat : m * n + k \in Nat
    OBVIOUS
  <2>2. ASSUME NEW k \in 1 .. L, NEW g \in [Nat -> Nat]
        PROVE  g[k - 1] * base + V(k) \in Nat
    <3>1. k - 1 \in Nat
      BY <1>1
    <3>2. g[k - 1] \in Nat /\ V(k) \in Nat
      BY <1>2, <3>1
    <3> QED BY <1>1, <2>1, <3>2
  <2>3. \A k \in Nat, g \in [Nat -> Nat] :
           (IF k \in 1 .. L THEN g[k - 1] * base + V(k) ELSE 0) \in Nat
    BY <2>2
  <2> QED BY <2>3
<1>5. \E f : Solution(Nat, G, f)
  <2> HIDE DEF G
  <2>1. ASSUME NEW k \in Nat, NEW g \in [Nat -> Nat], NEW h \in [Nat -> Nat],
               \A j \in 0 .. k - 1 : g[j] = h[j]
        PROVE  G[k][g] = G[k][h]
    <3>1. k \in 1 .. L => g[k - 1] = h[k - 1]
      BY <1>1, <2>1
    <3> QED BY <1>3, <3>1
  <2>2. G \in Steps(Nat)
    BY <1>4, <2>1 DEF Steps
  <2>3. 0 \in Nat
    OBVIOUS
  <2> QED BY <2>2, <2>3, Recursion
<1>6. PICK f : Solution(Nat, G, f)
  BY <1>5
<1> DEFINE r == [i \in 0 .. L |-> f[i]]
<1>7. f \in [Nat -> Nat] /\ \A k \in Nat : f[k] = IF k \in 1 .. L THEN f[k - 1] * base + V(k) ELSE 0
  <2> HIDE DEF G
  <2> QED BY <1>3, <1>6 DEF Solution
<1>8. r = [i \in 0 .. L |-> IF i = 0 THEN 0 ELSE r[i - 1] * base + V(i)]
  <2>1. \A i \in 1 .. L : r[i] = r[i - 1] * base + V(i)
    BY <1>1, <1>7
  <2>2. r[0] = 0
    BY <1>1, <1>7
  <2> HIDE DEF r
  <2>3. \A i \in 0 .. L : r[i] = IF i = 0 THEN 0 ELSE r[i - 1] * base + V(i)
    BY <1>1, <2>1, <2>2
  <2> QED BY <2>3 DEF r
<1>9. read = [i \in 0 .. L |-> IF i = 0 THEN 0 ELSE read[i - 1] * base + V(i)]
  <2> HIDE DEF r
  <2> QED BY <1>8
<1>10. Reading(s, base) = read[L]
  BY DEF Reading, L, V, Value
<1> HIDE DEF read, r, G
<1>11. read[0] = 0 /\ \A i \in 1 .. L : read[i] = read[i - 1] * base + V(i)
  BY <1>1, <1>9
<1>12. \A i \in 0 .. L : read[i] \in Nat
  <2> DEFINE T == {i \in 0 .. L : read[i] \notin Nat}
  <2>1. SUFFICES ASSUME T # {} PROVE FALSE
    OBVIOUS
  <2>2. T \in SUBSET Nat
    BY <1>1
  <2>3. PICK m \in T : \A k \in T : m <= k
    BY <2>1, <2>2, LeastNat
  <2>4. m \in 1 .. L /\ read[m] \notin Nat
    BY <1>1, <1>11, <2>3
  <2>5. m - 1 \notin T /\ m - 1 \in 0 .. L
    <3>1. m - 1 \in 0 .. L /\ ~(m <= m - 1)
      BY <1>1, <2>4
    <3> QED BY <2>3, <3>1
  <2>6. read[m - 1] \in Nat
    BY <2>5
  <2>7. \A p, q, k \in Nat : p * q + k \in Nat
    OBVIOUS
  <2> QED BY <1>1, <1>2, <1>11, <2>4, <2>6, <2>7
<1> QED BY <1>10, <1>11, <1>12 DEF Reads, L, V

(* Only one value of every beginning.                                      *)
LEMMA ReadsUnique ==
  ASSUME NEW base \in Bases, NEW s \in Seq(DigitSet(base)), NEW t \in Seq(DigitSet(base)),
         Len(s) <= Len(t), \A i \in 1 .. Len(s) : s[i] = t[i],
         NEW r, Reads(s, base, r), NEW q, Reads(t, base, q)
  PROVE  r[Len(s)] = q[Len(s)]
<1> DEFINE T == {i \in 0 .. Len(s) : r[i] # q[i]}
<1>1. Len(s) \in Nat /\ Len(t) \in Nat
  OBVIOUS
<1>2. SUFFICES ASSUME T # {} PROVE FALSE
  BY <1>1
<1>3. T \in SUBSET Nat
  BY <1>1
<1>4. PICK m \in T : \A k \in T : m <= k
  BY <1>2, <1>3, LeastNat
<1>5. m # 0
  BY <1>4 DEF Reads
<1>6. m \in 1 .. Len(s) /\ m \in 1 .. Len(t) /\ m - 1 \in 0 .. Len(s) /\ ~(m <= m - 1)
  BY <1>1, <1>4, <1>5
<1>7. r[m - 1] = q[m - 1]
  BY <1>4, <1>6
<1> QED BY <1>4, <1>6, <1>7 DEF Reads

(* One more digit.                                                         *)
LEMMA ReadingAppend ==
  ASSUME NEW base \in Bases, NEW s \in Seq(DigitSet(base)), NEW d \in 0 .. base - 1
  PROVE  /\ Reading(Append(s, Digit(d)), base) = Reading(s, base) * base + d
         /\ Reading(s, base) \in Nat
<1> DEFINE t == Append(s, Digit(d))
<1>1. /\ t \in Seq(DigitSet(base)) /\ Len(t) = Len(s) + 1 /\ Len(s) \in Nat
      /\ \A i \in 1 .. Len(s) : t[i] = s[i]
      /\ t[Len(s) + 1] = Digit(d)
  BY DigitsDiffer, AppendProperties
<1> HIDE DEF t
<1>2. PICK r : Reads(s, base, r) /\ Reading(s, base) = r[Len(s)]
  BY ReadingIs
<1>3. PICK q : Reads(t, base, q) /\ Reading(t, base) = q[Len(t)]
  BY <1>1, ReadingIs
<1>4. r[Len(s)] = q[Len(s)]
  BY <1>1, <1>2, <1>3, ReadsUnique
<1>5. Value(Digit(d), base) = d
  BY DigitsDiffer DEF Value
<1>6. q[Len(t)] = q[Len(s)] * base + d
  BY <1>1, <1>3, <1>5 DEF Reads
<1>7. Reading(s, base) \in Nat
  BY <1>1, <1>2 DEF Reads
<1> QED BY <1>2, <1>3, <1>4, <1>6, <1>7 DEF t

Zeros(z) == [i \in 1 .. z |-> "0"]

(* What Zeros is made of.                                                  *)
LEMMA ZerosType ==
  ASSUME NEW base \in Bases, NEW z \in Nat
  PROVE  /\ Zeros(z) \in Seq(DigitSet(base)) /\ Len(Zeros(z)) = z
         /\ \A i \in 1 .. z : Zeros(z)[i] = "0"
         /\ Zeros(0) = << >> /\ Zeros(z + 1) = Append(Zeros(z), "0")
<1>1. "0" \in DigitSet(base)
  <2>1. Digit(0) = "0" /\ 0 \in 0 .. base - 1
    BY DEF Digit, DigitChars, Bases
  <2> QED BY <2>1 DEF DigitSet
<1>2. \A n \in Nat : /\ Zeros(n) \in Seq(DigitSet(base)) /\ Len(Zeros(n)) = n
                     /\ \A i \in 1 .. n : Zeros(n)[i] = "0"
  BY <1>1 DEF Zeros
<1>3. Zeros(0) = << >>
  BY DEF Zeros
<1>4. Zeros(z + 1) = Append(Zeros(z), "0")
  <2> DEFINE s == Zeros(z + 1)
             t == Append(Zeros(z), "0")
  <2>1. /\ s \in Seq(DigitSet(base)) /\ Len(s) = z + 1
        /\ \A i \in 1 .. z + 1 : s[i] = "0"
    BY <1>2
  <2>2. /\ t \in Seq(DigitSet(base)) /\ Len(t) = z + 1
        /\ \A i \in 1 .. z : t[i] = "0"
        /\ t[z + 1] = "0"
    <3>1. Zeros(z) \in Seq(DigitSet(base)) /\ Len(Zeros(z)) = z
      BY <1>2
    <3>2. /\ t \in Seq(DigitSet(base)) /\ Len(t) = Len(Zeros(z)) + 1
          /\ \A i \in 1 .. Len(Zeros(z)) : t[i] = Zeros(z)[i]
          /\ t[Len(Zeros(z)) + 1] = "0"
      BY <1>1, <3>1, AppendProperties
    <3> QED BY <1>2, <3>1, <3>2
  <2> HIDE DEF s, t
  <2>3. \A i \in 1 .. z + 1 : s[i] = t[i]
    BY <2>1, <2>2
  <2>4. s = t
    BY <2>1, <2>2, <2>3, SeqEqual
  <2> QED BY <2>4 DEF s, t
<1> QED BY <1>2, <1>3, <1>4

(* Zeros in front do not count.                                            *)
LEMMA ReadingZeros ==
  ASSUME NEW base \in Bases
  PROVE  \A z \in Nat : Reading(Zeros(z), base) = 0
<1> DEFINE T == {z \in Nat : Reading(Zeros(z), base) # 0}
<1>1. SUFFICES ASSUME T # {} PROVE FALSE
  OBVIOUS
<1>2. PICK m \in T : \A k \in T : m <= k
  BY <1>1, LeastNat
<1>3. m \in Nat /\ Reading(Zeros(m), base) # 0
  BY <1>2
<1>4. CASE m = 0
  <2>1. << >> \in Seq(DigitSet(base)) /\ Len(<< >>) = 0 /\ Zeros(0) = << >>
    BY ZerosType
  <2>2. PICK r : Reads(<< >>, base, r) /\ Reading(<< >>, base) = r[0]
    BY <2>1, ReadingIs
  <2>3. r[0] = 0
    BY <2>2 DEF Reads
  <2> QED BY <1>3, <1>4, <2>1, <2>2, <2>3
<1>5. CASE m # 0
  <2>1. m - 1 \in Nat /\ ~(m <= m - 1) /\ (m - 1) + 1 = m
    BY <1>3, <1>5
  <2>2. Reading(Zeros(m - 1), base) = 0
    BY <1>2, <2>1
  <2>3. Zeros(m) = Append(Zeros(m - 1), Digit(0)) /\ Zeros(m - 1) \in Seq(DigitSet(base))
    <3>1. Digit(0) = "0"
      BY DEF Digit, DigitChars
    <3>2. Zeros((m - 1) + 1) = Append(Zeros(m - 1), "0")
      BY <2>1, ZerosType
    <3> QED BY <2>1, <3>1, <3>2, ZerosType
  <2>4. Reading(Zeros(m), base) = 0 * base + 0
    <3>1. 0 \in 0 .. base - 1
      BY DEF Bases
    <3> QED BY <2>2, <2>3, <3>1, ReadingAppend
  <2>5. 0 * base + 0 = 0
    BY DEF Bases
  <2> QED BY <1>3, <2>4, <2>5
<1> QED BY <1>4, <1>5

(* The digits of a number, after zeros, are read as that number.           *)
LEMMA ReadsBack ==
  ASSUME NEW base \in Bases, NEW z \in Nat
  PROVE  \A x \in Nat : /\ Zeros(z) \o digits_of(x, base) \in Seq(DigitSet(base))
                        /\ Reading(Zeros(z) \o digits_of(x, base), base) = x
<1> DEFINE Z == Zeros(z)
           S == DigitSet(base)
           T == {x \in Nat : Reading(Z \o digits_of(x, base), base) # x}
<1>1. Z \in Seq(S) /\ base \in Nat /\ base > 0
  <2>1. base \in Nat /\ base > 0
    BY DEF Bases
  <2> QED BY <2>1, ZerosType
<1>2. ASSUME NEW x \in Nat PROVE Z \o digits_of(x, base) \in Seq(S)
  BY <1>1, DigitsOf, ConcatProperties
<1>3. ASSUME NEW s \in Seq(S), NEW d \in 0 .. base - 1
      PROVE  Z \o Append(s, Digit(d)) = Append(Z \o s, Digit(d))
  <2>1. Digit(d) \in S /\ <<Digit(d)>> \in Seq(S) /\ Z \o s \in Seq(S)
    BY <1>1, DigitsDiffer, ConcatProperties
  <2>2. Append(s, Digit(d)) = s \o <<Digit(d)>>
    BY <2>1, AppendIsConcat
  <2>3. Append(Z \o s, Digit(d)) = (Z \o s) \o <<Digit(d)>>
    BY <2>1, AppendIsConcat
  <2> QED BY <1>1, <2>1, <2>2, <2>3, ConcatAssociative
<1>4. SUFFICES ASSUME T # {} PROVE FALSE
  BY <1>2
<1>5. PICK m \in T : \A k \in T : m <= k
  BY <1>4, LeastNat
<1>6. m \in Nat /\ Reading(Z \o digits_of(m, base), base) # m /\ m % base \in 0 .. base - 1
  BY <1>5, Division
<1>7. CASE m < base
  <2>1. digits_of(m, base) = <<Digit(m)>> /\ m \in 0 .. base - 1
    BY <1>1, <1>6, <1>7, DigitsOf
  <2>2. Z \o <<Digit(m)>> = Append(Z, Digit(m))
    BY <1>1, <2>1, DigitsDiffer, AppendIsConcat
  <2>3. Reading(Append(Z, Digit(m)), base) = Reading(Z, base) * base + m
    BY <1>1, <2>1, ReadingAppend
  <2>4. Reading(Z, base) * base + m = m
    BY <1>1, <1>6, ReadingZeros
  <2> QED BY <1>6, <2>1, <2>2, <2>3, <2>4
<1>8. CASE ~(m < base)
  <2> DEFINE y == m \div base
             s == digits_of(y, base)
  <2>1. y \in 0 .. m - 1 /\ m = y * base + (m % base)
    BY <1>1, <1>6, <1>8, Division
  <2>2. Reading(Z \o s, base) = y
    BY <1>5, <2>1
  <2>3. digits_of(m, base) = Append(s, Digit(m % base)) /\ s \in Seq(S)
    <3>1. m >= base /\ y \in Nat
      BY <1>1, <1>6, <1>8, <2>1
    <3> QED BY <1>6, <3>1, DigitsOf
  <2> HIDE DEF s, y
  <2>4. Z \o digits_of(m, base) = Append(Z \o s, Digit(m % base))
    BY <1>3, <1>6, <2>3
  <2>5. Reading(Append(Z \o s, Digit(m % base)), base) = y * base + (m % base)
    BY <1>1, <1>6, <2>2, <2>3, ReadingAppend, ConcatProperties
  <2> QED BY <1>6, <2>1, <2>4, <2>5
<1> QED BY <1>7, <1>8

-----------------------------------------------------------------------------
(* When a text is the text of a number.                                    *)

TextChars(base) == DigitSet(base) \cup {Space, "-"}
Sign(n) == IF n < 0 THEN 1 ELSE 0
Magnitude(n) == IF n < 0 THEN -n ELSE n

(* What a text is made of: s spaces and the minus in head, z zeros and the *)
(* digits of the number; and what makes it the text of n.                  *)
FormOf(base, n, z, s, head, size, w, pad) ==
    /\ head \in Seq(TextChars(base)) /\ Len(head) = s + Sign(n)
    /\ \A i \in 1 .. s : head[i] = Space
    /\ n < 0 => head[s + 1] = "-"
    /\ size = s + Sign(n) + z + num_digits(Magnitude(n), base) /\ size >= w
    /\ z > 0 => pad = "0" /\ size = w
    /\ s > 0 => pad = Space /\ size = w

Formed(base, n, z, head, size, w, pad) ==
    LET text == head \o (Zeros(z) \o digits_of(Magnitude(n), base))
    IN  /\ IsNumeral(text, n, base, w, pad) /\ Len(text) = size
        /\ text \in Seq(TextChars(base))

(* A text of this form is the text of its number.                          *)
LEMMA NumeralForm ==
  ASSUME NEW base \in Bases, NEW n \in Int, NEW z \in Nat, NEW s \in Nat, NEW w \in Nat,
         NEW head, NEW size, NEW pad, FormOf(base, n, z, s, head, size, w, pad)
  PROVE  Formed(base, n, z, head, size, w, pad)
<1> SUFFICES ASSUME head \in Seq(TextChars(base)), Len(head) = s + Sign(n),
                    \A i \in 1 .. s : head[i] = Space,
                    n < 0 => head[s + 1] = "-",
                    size = s + Sign(n) + z + num_digits(Magnitude(n), base), size >= w,
                    z > 0 => pad = "0" /\ size = w,
                    s > 0 => pad = Space /\ size = w
             PROVE  LET text == head \o (Zeros(z) \o digits_of(Magnitude(n), base))
                    IN  /\ IsNumeral(text, n, base, w, pad) /\ Len(text) = size
                        /\ text \in Seq(TextChars(base))
  BY DEF FormOf, Formed
<1> DEFINE x == Magnitude(n)
           m == num_digits(x, base)
           D == digits_of(x, base)
           tail == Zeros(z) \o D
           text == head \o tail
           S == DigitSet(base)
           C == TextChars(base)
<1>1. x \in Nat /\ Sign(n) \in {0, 1} /\ (n < 0 <=> Sign(n) = 1)
  BY DEF Magnitude, Sign
<1> HIDE DEF x
<1>2. /\ D \in Seq(S) /\ Len(D) = m /\ m \in Nat \ {0}
      /\ Zeros(z) \in Seq(S) /\ Len(Zeros(z)) = z
      /\ \A i \in 1 .. z : Zeros(z)[i] = "0"
  BY <1>1, DigitsOf, NumDigits, ZerosType
<1>3. m > 1 => D[1] # "0"
  <2>1. x < base => m = 1
    BY <1>1, NumDigits
  <2>2. base > 0
    BY DEF Bases
  <2>3. m > 1 => x # 0
    BY <1>2, <2>1, <2>2
  <2> QED BY <1>1, <2>3, LeadingDigit
<1>4. Reading(tail, base) = x /\ tail \in Seq(S)
  BY <1>1, ReadsBack
<1> HIDE DEF m, D, S
<1>5. /\ Len(tail) = z + m
      /\ z > 0 => tail[1] = "0"
      /\ z = 0 => tail[1] = D[1]
  <2>1. /\ Len(tail) = Len(Zeros(z)) + Len(D)
        /\ \A i \in 1 .. Len(Zeros(z)) + Len(D) : tail[i] =
              IF i <= Len(Zeros(z)) THEN Zeros(z)[i] ELSE D[i - Len(Zeros(z))]
    BY <1>2, ConcatProperties
  <2> HIDE DEF tail
  <2>2. 1 \in 1 .. Len(Zeros(z)) + Len(D)
    BY <1>2
  <2> QED BY <1>2, <2>1, <2>2
<1>6. tail \in Seq(C)
  BY <1>4, SeqMonotonic DEF S, C, TextChars
<1> HIDE DEF tail, C
<1>7. /\ text \in Seq(C) /\ Len(text) = size
      /\ \A i \in 1 .. Len(head) : text[i] = head[i]
  <2>1. head \in Seq(C)
    BY DEF C
  <2>2. /\ text \in Seq(C) /\ Len(text) = Len(head) + Len(tail)
        /\ \A i \in 1 .. Len(head) + Len(tail) : text[i] =
              IF i <= Len(head) THEN head[i] ELSE tail[i - Len(head)]
    BY <1>6, <2>1, ConcatProperties
  <2> HIDE DEF text
  <2>3. Len(head) + Len(tail) = size
    BY <1>1, <1>2, <1>5 DEF m, x
  <2>4. \A i \in 1 .. Len(head) : i \in 1 .. Len(head) + Len(tail) /\ i <= Len(head)
    BY <1>1, <1>2, <1>5
  <2> QED BY <2>2, <2>3, <2>4
<1>8. SubSeq(text, s + Sign(n) + 1, Len(text)) = tail
  <2>1. head \in Seq(C)
    BY DEF C
  <2>2. Len(head) + 1 \in Len(head) + 1 .. Len(head) + Len(tail)
        /\ Len(head) + Len(tail) \in Len(head) + 1 .. Len(head) + Len(tail)
    BY <1>1, <1>2, <1>5
  <2>3. \A i, j \in Len(head) + 1 .. Len(head) + Len(tail) :
           SubSeq(text, i, j) = SubSeq(tail, i - Len(head), j - Len(head))
    BY <1>6, <2>1, SubSeqOfConcat2
  <2>4. (Len(head) + 1) - Len(head) = 1 /\ (Len(head) + Len(tail)) - Len(head) = Len(tail)
        /\ s + Sign(n) + 1 = Len(head) + 1
    BY <1>1, <1>2, <1>5
  <2>5. SubSeq(tail, 1, Len(tail)) = tail
    BY <1>6, SubSeqFull
  <2>6. Len(text) = Len(head) + Len(tail)
    BY <1>6, <2>1, ConcatProperties
  <2>7. SubSeq(text, Len(head) + 1, Len(head) + Len(tail)) =
          SubSeq(tail, (Len(head) + 1) - Len(head), (Len(head) + Len(tail)) - Len(head))
    BY <2>2, <2>3, Zenon
  <2> HIDE DEF text
  <2> QED BY <2>4, <2>5, <2>6, <2>7
<1> HIDE DEF text
<1>9. s \in 0 .. Len(text) /\ Len(text) >= w
  BY <1>1, <1>2, <1>7 DEF m, x
<1>10. tail # << >>
  BY <1>2, <1>5
<1>11. Len(tail) > 1 /\ tail[1] = "0" => pad = "0" /\ Len(text) = w
  <2>1. CASE z > 0
    BY <1>7, <2>1
  <2>2. CASE z = 0
    BY <1>2, <1>3, <1>5, <2>2
  <2> QED BY <2>1, <2>2
<1>12. \A i \in 1 .. s : text[i] = Space
  <2>1. \A i \in 1 .. s : i \in 1 .. Len(head)
    BY <1>1
  <2> QED BY <1>7, <2>1
<1>13. n < 0 => text[s + 1] = "-"
  <2>1. n < 0 => s + 1 \in 1 .. Len(head)
    BY <1>1
  <2> QED BY <1>7, <2>1
<1>14. IsNumeral(text, n, base, w, pad)
  <2>1. tail \in Seq({Digit(d) : d \in 0 .. base - 1})
    BY <1>4 DEF S, DigitSet
  <2>2. x = IF n < 0 THEN -n ELSE n
    BY DEF x, Magnitude
  <2>3. Sign(n) \in {IF n < 0 THEN 1 ELSE 0}
    BY DEF Sign
  <2>4. s > 0 => pad = Space /\ Len(text) = w
    BY <1>7
  <2> QED BY <1>4, <1>8, <1>9, <1>10, <1>11, <1>12, <1>13, <2>1, <2>2, <2>3, <2>4
          DEF IsNumeral
<1> QED BY <1>7, <1>14 DEF text, tail, D, x, C

Longer(a, b) == IF a > b THEN a ELSE b

(* The text of a number without a sign.                                    *)
LEMMA UnsignedText ==
  ASSUME NEW base \in Bases, NEW n \in Nat, NEW w \in Int, w >= -1,
         NEW pad \in {Space, "0"}, pad # "0" => pad = Space
  PROVE  LET text == numtostr(n, base, w, pad)
         IN  /\ w >= 0 => IsNumeral(text, n, base, w, pad) /\ text \in Seq(TextChars(base))
             /\ Len(text) = Longer(w, num_digits(n, base))
<1> DEFINE m == num_digits(n, base)
           D == digits_of(n, base)
           i == IF m > w THEN 0 ELSE w - m
           P == [j \in 1 .. i |-> pad]
<1>1. /\ Sign(n) = 0 /\ Magnitude(n) = n /\ n \in Int /\ ~(n < 0)
      /\ m \in Nat \ {0} /\ D \in Seq(DigitSet(base)) /\ Len(D) = m
  BY NumDigits, DigitsOf DEF Sign, Magnitude
<1>2. numtostr(n, base, w, pad) = P \o D
  BY DEF numtostr
<1> HIDE DEF m, D
<1>3. i \in Nat /\ i + m = Longer(w, m) /\ (i > 0 => i + m = w)
  BY <1>1 DEF Longer
<1> HIDE DEF i
<1>4. CASE pad = "0"
  <2>1. P = Zeros(i)
    BY <1>4 DEF Zeros
  <2>2. P \o D = << >> \o (Zeros(i) \o D) /\ Len(P \o D) = i + m
    <3>1. Zeros(i) \in Seq(DigitSet(base)) /\ Len(Zeros(i)) = i
      BY <1>3, ZerosType
    <3>2. Zeros(i) \o D \in Seq(DigitSet(base)) /\ Len(Zeros(i) \o D) = i + m
      BY <1>1, <3>1, ConcatProperties
    <3> HIDE DEF P
    <3> QED BY <2>1, <3>2, ConcatEmptySeq
  <2>3. ASSUME w >= 0 PROVE IsNumeral(P \o D, n, base, w, pad) /\ P \o D \in Seq(TextChars(base))
    <3>1. << >> \in Seq(TextChars(base)) /\ Len(<< >>) = 0 + Sign(n)
      BY <1>1
    <3>2. i + m >= w /\ i + m = 0 + Sign(n) + i + num_digits(Magnitude(n), base)
      BY <1>1, <1>3 DEF m, Longer
    <3>3. Formed(base, n, i, << >>, i + m, w, pad)
      <4>1. w \in Nat /\ 0 \in Nat /\ FormOf(base, n, i, 0, << >>, i + m, w, pad)
        BY <1>1, <1>3, <1>4, <2>3, <3>1, <3>2 DEF FormOf
      <4> QED BY <1>1, <1>3, <4>1, NumeralForm
    <3> QED BY <1>1, <2>2, <3>3 DEF D, Formed
  <2> QED BY <1>2, <1>3, <2>2, <2>3 DEF m
<1>5. CASE pad # "0"
  <2>1. P \in Seq(TextChars(base)) /\ Len(P) = i /\ \A j \in 1 .. i : P[j] = Space
    <3>1. pad \in TextChars(base) /\ pad = Space
      BY <1>5 DEF TextChars
    <3> QED BY <1>3, <3>1
  <2>2. Zeros(0) = << >> /\ << >> \o D = D
    BY <1>1, ZerosType, ConcatEmptySeq
  <2>3. Len(P \o D) = i + m
    <3>1. D \in Seq(TextChars(base))
      BY <1>1, SeqMonotonic DEF TextChars
    <3> HIDE DEF P
    <3> QED BY <1>1, <2>1, <3>1, ConcatProperties
  <2> HIDE DEF P
  <2>4. ASSUME w >= 0 PROVE IsNumeral(P \o D, n, base, w, pad) /\ P \o D \in Seq(TextChars(base))
    <3>1. i + m >= w /\ i + m = i + Sign(n) + 0 + num_digits(Magnitude(n), base)
          /\ Len(P) = i + Sign(n)
      BY <1>1, <1>3, <2>1 DEF m, Longer
    <3>2. Formed(base, n, 0, P, i + m, w, pad)
      <4>1. w \in Nat /\ 0 \in Nat /\ FormOf(base, n, 0, i, P, i + m, w, pad)
        BY <1>1, <1>3, <1>5, <2>1, <2>4, <3>1 DEF FormOf
      <4> QED BY <1>1, <1>3, <4>1, NumeralForm
    <3> QED BY <1>1, <2>2, <3>2 DEF D, Formed
  <2> QED BY <1>2, <1>3, <2>3, <2>4 DEF m, P
<1> QED BY <1>4, <1>5

(* A character of the first part of a concatenation is replaced.           *)
LEMMA ExceptConcat ==
  ASSUME NEW S, NEW s \in Seq(S), NEW t \in Seq(S), NEW p \in 1 .. Len(s), NEW e \in S
  PROVE  [s \o t EXCEPT ![p] = e] = [s EXCEPT ![p] = e] \o t
<1> DEFINE u == [s EXCEPT ![p] = e]
           v == [s \o t EXCEPT ![p] = e]
<1>1. /\ s \o t \in Seq(S) /\ Len(s \o t) = Len(s) + Len(t)
      /\ \A i \in 1 .. Len(s) + Len(t) : (s \o t)[i] =
            IF i <= Len(s) THEN s[i] ELSE t[i - Len(s)]
      /\ Len(s) \in Nat /\ Len(t) \in Nat
  BY ConcatProperties
<1>2. /\ u \in Seq(S) /\ Len(u) = Len(s)
      /\ \A j \in 1 .. Len(s) : u[j] = IF j = p THEN e ELSE s[j]
  BY ExceptSeq
<1>3. p \in 1 .. Len(s \o t)
  BY <1>1
<1>4. /\ v \in Seq(S) /\ Len(v) = Len(s) + Len(t)
      /\ \A j \in 1 .. Len(s) + Len(t) : v[j] = IF j = p THEN e ELSE (s \o t)[j]
  <2> DEFINE c == s \o t
  <2>1. c \in Seq(S) /\ p \in 1 .. Len(c) /\ Len(c) = Len(s) + Len(t)
    BY <1>1, <1>3
  <2> HIDE DEF c
  <2>2. /\ [c EXCEPT ![p] = e] \in Seq(S) /\ Len([c EXCEPT ![p] = e]) = Len(c)
        /\ \A j \in 1 .. Len(c) : [c EXCEPT ![p] = e][j] = IF j = p THEN e ELSE c[j]
    BY <2>1, ExceptSeq
  <2> QED BY <2>1, <2>2 DEF c
<1>5. /\ u \o t \in Seq(S) /\ Len(u \o t) = Len(s) + Len(t)
      /\ \A i \in 1 .. Len(s) + Len(t) : (u \o t)[i] =
            IF i <= Len(s) THEN u[i] ELSE t[i - Len(s)]
  BY <1>2, ConcatProperties
<1> HIDE DEF u, v
<1>6. \A i \in 1 .. Len(s) + Len(t) : v[i] = (u \o t)[i]
  BY <1>1, <1>2, <1>4, <1>5
<1>7. v = u \o t
  BY <1>4, <1>5, <1>6, SeqEqual
<1> QED BY <1>7 DEF u, v

(* absi of an int, whose least value has no positive counterpart.          *)
LEMMA Absolute ==
  ASSUME NEW n \in -(WORD \div 2) .. WORD \div 2 - 1
  PROVE  n \in Int /\ absi(n) = Magnitude(n) /\ Magnitude(n) \in 0 .. WORD - 1
<1>1. WORD \in Nat /\ WORD >= 32 /\ WORD \div 2 \in Nat /\ WORD \div 2 < WORD
  BY KprintfAssumption
<1>2. n \in Int /\ (n <= 0 => -n \in 0 .. WORD - 1)
  BY <1>1
<1>3. \A r \in 0 .. WORD - 1 : r % WORD = r
  BY <1>1
<1>4. (n <= 0) => (-n) % WORD = -n
  BY <1>2, <1>3
<1> QED BY <1>1, <1>2, <1>4 DEF absi, Magnitude

(* The text of a number that may have a sign.                              *)
LEMMA SignedText ==
  ASSUME NEW n \in -(WORD \div 2) .. WORD \div 2 - 1, NEW w \in Nat,
         NEW pad \in {Space, "0"}
  PROVE  LET text == intodec(n, w, pad)
         IN  /\ IsNumeral(text, n, 10, w, pad) /\ text \in Seq(TextChars(10))
             /\ Len(text) = Longer(w, Sign(n) + num_digits(Magnitude(n), 10))
<1> DEFINE base == 10
<1>0. base \in Bases
  BY DEF Bases
<1>9. base = 10
  OBVIOUS
<1> HIDE DEF base
<1> DEFINE x == Magnitude(n)
           m == num_digits(x, base)
           D == digits_of(x, base)
           i == w - m
           P == [j \in 1 .. i |-> pad]
           S == DigitSet(base)
           C == TextChars(base)
<1>1. /\ n \in Int /\ absi(n) = x /\ x \in Nat
      /\ m \in Nat \ {0} /\ D \in Seq(S) /\ Len(D) = m
  <2>1. n \in Int /\ absi(n) = x /\ x \in Nat
    BY Absolute
  <2> QED BY <1>0, <2>1, NumDigits, DigitsOf
<1>2. CASE n >= 0
  <2>1. x = n /\ n \in Nat /\ Sign(n) = 0 /\ ~(n < 0)
    BY <1>1, <1>2 DEF Magnitude, Sign
  <2>2. intodec(n, w, pad) = numtostr(n, base, w, pad)
    BY <1>9, <1>1, <1>2, <2>1 DEF intodec
  <2> HIDE DEF x, m
  <2>3. w \in Int /\ w >= -1 /\ w >= 0 /\ m = num_digits(n, base) /\ 0 + m = m
        /\ (pad # "0" => pad = Space)
    BY <1>1, <2>1 DEF m
  <2>4. LET text == numtostr(n, base, w, pad)
        IN  /\ IsNumeral(text, n, base, w, pad) /\ Len(text) = Longer(w, num_digits(n, base))
            /\ text \in Seq(TextChars(base))
    BY <1>0, <1>1, <2>1, <2>3, UnsignedText
  <2> QED BY <1>9, <2>1, <2>2, <2>3, <2>4 DEF m, x
<1>3. CASE n < 0
  <2>1. Sign(n) = 1 /\ ~(n >= 0)
    BY <1>1, <1>3 DEF Sign
  <2> DEFINE text == intodec(n, w, pad)
  <2>2. D \in Seq(C) /\ "-" \in C /\ "0" \in C /\ pad \in C
    <3>1. "0" \in S
      <4>1. Digit(0) = "0"
        BY DEF Digit, DigitChars
      <4> QED BY <1>9, <4>1 DEF DigitSet
    <3> QED BY <1>1, <3>1, SeqMonotonic DEF TextChars
  <2>3. Zeros(0) = << >> /\ << >> \o D = D
    BY <1>0, <1>1, ZerosType, ConcatEmptySeq
  <2> HIDE DEF x, m, D, C
  <2>6. /\ m = num_digits(Magnitude(n), base) /\ D = digits_of(Magnitude(n), base)
        /\ C = TextChars(base)
    BY DEF x, m, D, C
  <2>4. CASE m + 1 > w
    <3>1. text = <<"-">> \o (<< >> \o D)
      <4>1. text = <<"-">> \o numtostr(x, 10, w - 1, pad)
        BY <1>9, <1>1, <1>3, <2>1, <2>4 DEF intodec, m, x
      <4>2. numtostr(x, 10, w - 1, pad) =
               [j \in 1 .. (IF m > w - 1 THEN 0 ELSE (w - 1) - m) |-> pad] \o D
        BY <1>9 DEF numtostr, m, D
      <4>3. (IF m > w - 1 THEN 0 ELSE (w - 1) - m) = 0
        BY <1>1, <2>4
      <4>4. [j \in 1 .. 0 |-> pad] = << >>
        OBVIOUS
      <4> QED BY <4>1, <4>2, <4>3, <4>4
    <3>2. text = <<"-">> \o (Zeros(0) \o D)
      BY <2>3, <3>1
    <3> HIDE DEF text
    <3>3. /\ <<"-">> \in Seq(C) /\ Len(<<"-">>) = 0 + Sign(n)
          /\ \A j \in 1 .. 0 : <<"-">>[j] = Space
          /\ <<"-">>[0 + 1] = "-"
          /\ m + 1 = 0 + Sign(n) + 0 + m /\ m + 1 >= w
      BY <1>1, <2>1, <2>2, <2>4
    <3>4. /\ IsNumeral(text, n, base, w, pad) /\ Len(text) = m + 1
          /\ text \in Seq(TextChars(base))
      <4>1. FormOf(base, n, 0, 0, <<"-">>, m + 1, w, pad) /\ 0 \in Nat
        BY <1>1, <3>3, <2>6 DEF FormOf
      <4>2. Formed(base, n, 0, <<"-">>, m + 1, w, pad)
        BY <1>0, <1>1, <4>1, NumeralForm
      <4> QED BY <3>2, <2>6, <4>2 DEF Formed
    <3>5. m + 1 = Longer(w, Sign(n) + m)
      BY <1>1, <2>1, <2>4 DEF Longer
    <3> QED BY <1>9, <3>4, <3>5 DEF text, m, x
  <2>5. CASE ~(m + 1 > w)
    <3> DEFINE place == IF pad = "0" THEN 1 ELSE i
               Q == [P EXCEPT ![place] = "-"]
    <3>1. i \in Nat /\ i >= 1 /\ i + m = w /\ place \in 1 .. i
      BY <1>1, <2>5
    <3>2. text = [P \o D EXCEPT ![place] = "-"]
      <4>1. numtostr(x, 10, w, pad) = [j \in 1 .. (IF m > w THEN 0 ELSE w - m) |-> pad] \o D
        BY <1>9 DEF numtostr, m, D
      <4>2. (IF m > w THEN 0 ELSE w - m) = i
        BY <1>1, <2>5
      <4>3. text = [numtostr(x, 10, w, pad) EXCEPT ![place] = "-"]
        BY <1>9, <1>1, <1>3, <2>1, <2>5 DEF intodec, m, x
      <4> QED BY <4>1, <4>2, <4>3
    <3> HIDE DEF i, place
    <3>3. P \in Seq(C) /\ Len(P) = i /\ \A j \in 1 .. i : P[j] = pad
      BY <2>2, <3>1
    <3> HIDE DEF P
    <3>4. text = Q \o D
      <4>1. place \in 1 .. Len(P)
        BY <3>1, <3>3
      <4>2. [P \o D EXCEPT ![place] = "-"] = [P EXCEPT ![place] = "-"] \o D
        BY <2>2, <3>3, <4>1, ExceptConcat
      <4> HIDE DEF text
      <4> QED BY <3>2, <4>2
    <3>5. Q \in Seq(C) /\ Len(Q) = i /\ \A j \in 1 .. i : Q[j] = IF j = place THEN "-" ELSE pad
      BY <2>2, <3>1, <3>3, ExceptSeq
    <3>6. w = Longer(w, Sign(n) + m)
      BY <1>1, <2>1, <2>5 DEF Longer
    <3> HIDE DEF text, Q
    <3>7. CASE pad = "0"
      <4> DEFINE z == i - 1
      <4>1. z \in Nat /\ place = 1
        BY <3>1, <3>7 DEF place
      <4>2. /\ Zeros(z) \in Seq(S) /\ Len(Zeros(z)) = z
            /\ \A j \in 1 .. z : Zeros(z)[j] = "0"
            /\ Zeros(z) \in Seq(C)
        <5>1. /\ Zeros(z) \in Seq(S) /\ Len(Zeros(z)) = z
              /\ \A j \in 1 .. z : Zeros(z)[j] = "0"
          BY <1>0, <1>1, <4>1, ZerosType
        <5> HIDE DEF z
        <5> QED BY <5>1, SeqMonotonic DEF C, TextChars
      <4>3. Q = <<"-">> \o Zeros(z)
        <5>1. <<"-">> \in Seq(C) /\ Len(<<"-">>) = 1 /\ <<"-">>[1] = "-"
          BY <2>2
        <5> DEFINE R == <<"-">> \o Zeros(z)
        <5>2. /\ R \in Seq(C) /\ Len(R) = 1 + z
              /\ \A j \in 1 .. 1 + z : R[j] =
                    IF j <= 1 THEN <<"-">>[j] ELSE Zeros(z)[j - 1]
          BY <4>2, <5>1, ConcatProperties
        <5> HIDE DEF R
        <5>3. \A j \in 1 .. i : R[j] = Q[j]
          <6>1. ASSUME NEW j \in 1 .. i PROVE R[j] = Q[j]
            <7>1. j \in 1 .. 1 + z /\ (j # 1 => ~(j <= 1) /\ j - 1 \in 1 .. z)
              BY <3>1
            <7>2. CASE j = 1
              BY <3>5, <4>1, <5>1, <5>2, <7>1, <7>2
            <7>3. CASE j # 1
              BY <3>5, <3>7, <4>1, <4>2, <5>2, <7>1, <7>3
            <7> QED BY <7>2, <7>3
          <6> QED BY <6>1
        <5>4. Len(R) = Len(Q)
          BY <3>1, <3>5, <5>2
        <5>5. R = Q
          BY <3>1, <3>5, <5>2, <5>3, <5>4, SeqEqual
        <5> QED BY <5>5 DEF R
      <4> HIDE DEF z
      <4>4. text = <<"-">> \o (Zeros(z) \o D)
        <5>1. <<"-">> \in Seq(C)
          BY <2>2
        <5> QED BY <2>2, <3>4, <4>2, <4>3, <5>1, ConcatAssociative
      <4>5. /\ <<"-">> \in Seq(C) /\ Len(<<"-">>) = 0 + Sign(n)
            /\ \A j \in 1 .. 0 : <<"-">>[j] = Space
            /\ <<"-">>[0 + 1] = "-"
            /\ w = 0 + Sign(n) + z + m /\ w >= w
        BY <1>1, <2>1, <2>2, <3>1 DEF z
      <4>6. /\ IsNumeral(text, n, base, w, pad) /\ Len(text) = w
            /\ text \in Seq(TextChars(base))
        <5>1. FormOf(base, n, z, 0, <<"-">>, w, w, pad) /\ 0 \in Nat
          BY <1>1, <3>7, <4>1, <4>5, <2>6 DEF FormOf
        <5>2. Formed(base, n, z, <<"-">>, w, w, pad)
          BY <1>0, <1>1, <4>1, <5>1, NumeralForm
        <5> QED BY <4>4, <2>6, <5>2 DEF Formed
      <4> QED BY <1>9, <3>6, <4>6 DEF text, m, x
    <3>8. CASE pad # "0"
      <4>1. pad = Space /\ place = i
        BY <3>8 DEF place
      <4> DEFINE s == i - 1
      <4>2. /\ s \in Nat /\ Len(Q) = s + Sign(n)
            /\ \A j \in 1 .. s : Q[j] = Space
            /\ Q[s + 1] = "-"
            /\ w = s + Sign(n) + 0 + m /\ w >= w
        BY <1>1, <2>1, <3>1, <3>5, <4>1
      <4> HIDE DEF s
      <4>3. text = Q \o (Zeros(0) \o D)
        BY <2>3, <3>4
      <4>4. /\ IsNumeral(text, n, base, w, pad) /\ Len(text) = w
            /\ text \in Seq(TextChars(base))
        <5>1. FormOf(base, n, 0, s, Q, w, w, pad) /\ 0 \in Nat
          BY <1>1, <3>5, <4>1, <4>2, <2>6 DEF FormOf
        <5>2. Formed(base, n, 0, Q, w, w, pad)
          BY <1>0, <1>1, <4>2, <5>1, NumeralForm
        <5> QED BY <4>3, <2>6, <5>2 DEF Formed
      <4> QED BY <1>9, <3>6, <4>4 DEF text, m, x
    <3> QED BY <3>7, <3>8
  <2> QED BY <2>4, <2>5
<1> QED BY <1>1, <1>2, <1>3

-----------------------------------------------------------------------------
(* The buffer, the field width and the loop of kprintf.                    *)

(* A number has no more digits in a base than a larger one has bits.       *)
LEMMA FewerDigits ==
  ASSUME NEW base \in Bases
  PROVE  \A x, y \in Nat : x <= y => num_digits(x, base) <= num_digits(y, 2)
<1> DEFINE T == {x \in Nat : \E y \in Nat : x <= y /\ ~(num_digits(x, base) <= num_digits(y, 2))}
<1>1. SUFFICES ASSUME T # {} PROVE FALSE
  OBVIOUS
<1>2. PICK m \in T : \A k \in T : m <= k
  BY <1>1, LeastNat
<1>3. PICK y \in Nat : m <= y /\ ~(num_digits(m, base) <= num_digits(y, 2))
  BY <1>2
<1>4. m \in Nat /\ y \in Nat /\ base \in Bases /\ 2 \in Bases /\ base >= 2 /\ base \in Nat
  BY <1>2 DEF Bases
<1>5. /\ num_digits(m, base) = IF m < base THEN 1 ELSE 1 + num_digits(m \div base, base)
      /\ num_digits(y, 2) = IF y < 2 THEN 1 ELSE 1 + num_digits(y \div 2, 2)
      /\ num_digits(y, 2) \in Nat \ {0}
  BY <1>4, NumDigits
<1>6. m >= base /\ y >= 2
  BY <1>3, <1>4, <1>5
<1>7. /\ m \div base \in 0 .. m - 1 /\ y \div 2 \in Nat
      /\ m \div base <= y \div 2
  <2>1. m \div base \in 0 .. m - 1 /\ y \div 2 \in Nat
    BY <1>4, <1>6, Division
  <2>2. m \div 2 <= y \div 2 /\ m \div 10 <= m \div 2 /\ m \div 16 <= m \div 2
        /\ m \div 2 \in Nat /\ m \div 10 \in Nat /\ m \div 16 \in Nat
    BY <1>3, <1>4
  <2>3. m \div base <= m \div 2 /\ m \div base \in Nat
    BY <2>2 DEF Bases
  <2> QED BY <2>1, <2>2, <2>3
<1>8. m \div base \notin T
  <2>1. ~(m <= m \div base)
    BY <1>4, <1>7
  <2> HIDE DEF T
  <2> QED BY <1>2, <2>1
<1>9. num_digits(m \div base, base) <= num_digits(y \div 2, 2)
  BY <1>7, <1>8
<1>10. num_digits(m \div base, base) \in Nat /\ num_digits(y \div 2, 2) \in Nat
  <2>1. m \div base \in Nat
    BY <1>4, <1>7
  <2> QED BY <1>4, <1>7, <2>1, NumDigits
<1> QED BY <1>3, <1>4, <1>5, <1>6, <1>9, <1>10

(* Every number fits into the buffer of kprintf, with its sign.            *)
LEMMA NumbersFit ==
  /\ buff_len \in Nat
  /\ \A base \in {10, 16}, x \in 0 .. WORD - 1 : num_digits(x, base) < buff_len
  /\ \A x \in 0 .. WORD \div 2 : 1 + num_digits(x, 10) < buff_len
<1> DEFINE M == WORD - 1
<1>1. M \in Nat /\ M >= 31 /\ 2 \in Bases /\ 10 \in Bases /\ 16 \in Bases
      /\ WORD \div 2 <= M /\ WORD \div 2 \in Nat
  BY KprintfAssumption DEF Bases
<1>2. num_digits(M, 2) \in Nat \ {0} /\ buff_len = num_digits(M, 2) + 1
  BY <1>1, NumDigits DEF buff_len
<1>3. ASSUME NEW base \in {10, 16}, NEW x \in 0 .. WORD - 1 PROVE num_digits(x, base) < buff_len
  <2>1. base \in Bases /\ x \in Nat /\ x <= M
    BY <1>1 DEF Bases
  <2>2. num_digits(x, base) <= num_digits(M, 2) /\ num_digits(x, base) \in Nat
    BY <1>1, <2>1, FewerDigits, NumDigits
  <2> QED BY <1>2, <2>2
<1>4. ASSUME NEW x \in 0 .. WORD \div 2 PROVE 1 + num_digits(x, 10) < buff_len
  <2> DEFINE M2 == M \div 2
             M4 == M2 \div 2
  <2>1. /\ M2 \in Nat /\ M2 >= 15 /\ M4 \in Nat /\ x \in Nat /\ x \div 10 \in Nat
        /\ x \div 10 <= M4
    BY <1>1, KprintfAssumption
  <2>2. num_digits(M, 2) = 1 + num_digits(M2, 2) /\ num_digits(M2, 2) = 1 + num_digits(M4, 2)
    BY <1>1, <2>1, NumDigits
  <2> HIDE DEF M2, M4
  <2>3. num_digits(M4, 2) \in Nat \ {0}
    BY <1>1, <2>1, NumDigits
  <2>4. CASE x < 10
    <3>1. num_digits(x, 10) = 1
      BY <1>1, <2>1, <2>4, NumDigits
    <3> QED BY <1>2, <2>2, <2>3, <3>1
  <2>5. CASE ~(x < 10)
    <3>1. num_digits(x, 10) = 1 + num_digits(x \div 10, 10)
      BY <1>1, <2>1, <2>5, NumDigits
    <3>2. num_digits(x \div 10, 10) <= num_digits(M4, 2) /\ num_digits(x \div 10, 10) \in Nat
      BY <1>1, <2>1, FewerDigits, NumDigits
    <3> QED BY <1>2, <2>2, <2>3, <3>1, <3>2
  <2> QED BY <2>4, <2>5
<1> QED BY <1>2, <1>3, <1>4

-----------------------------------------------------------------------------
(* The field width at the beginning of str: none, or one digit.            *)
LEMMA NoFieldWidth ==
  ASSUME NEW str, Len(str) \in Nat, ctoi(str[1]) = -1
  PROVE  fieldwidth(str) = -1
<1> DEFINE digit(i) == i <= Len(str) /\ ctoi(str[i]) # -1
           p == CHOOSE n \in 0 .. Len(str) : ~digit(n + 1) /\ \A i \in 1 .. n : digit(i)
<1>1. ~digit(0 + 1) /\ (\A i \in 1 .. 0 : digit(i)) /\ 0 \in 0 .. Len(str)
  OBVIOUS
<1>2. p \in 0 .. Len(str) /\ \A i \in 1 .. p : digit(i)
  <2>1. \E n \in 0 .. Len(str) : ~digit(n + 1) /\ \A i \in 1 .. n : digit(i)
    BY <1>1
  <2> QED BY <2>1
<1>3. ~digit(1)
  OBVIOUS
<1> HIDE DEF p, digit
<1>4. p = 0
  BY <1>2, <1>3
<1> QED BY <1>4 DEF fieldwidth, p, digit

LEMMA FieldWidthOfDigit ==
  ASSUME NEW str, Len(str) = 2, NEW w \in 1 .. 9, ctoi(str[1]) = w, ctoi(str[2]) = -1
  PROVE  fieldwidth(str) = w
<1> DEFINE digit(i) == i <= Len(str) /\ ctoi(str[i]) # -1
           p == CHOOSE n \in 0 .. Len(str) : ~digit(n + 1) /\ \A i \in 1 .. n : digit(i)
           width == CHOOSE width : width = [i \in 0 .. p |->
                       IF i = 0 THEN 0
                       ELSE width[i - 1] + ctoi(str[p + 1 - i]) * powi(10, i - 1)]
<1>1. digit(1) /\ ~digit(2)
  OBVIOUS
<1>2. p = 1
  <2>1. ~digit(1 + 1) /\ (\A i \in 1 .. 1 : digit(i)) /\ 1 \in 0 .. Len(str)
    BY <1>1
  <2>2. \E n \in 0 .. Len(str) : ~digit(n + 1) /\ \A i \in 1 .. n : digit(i)
    BY <2>1
  <2>3. p \in 0 .. Len(str) /\ ~digit(p + 1) /\ \A i \in 1 .. p : digit(i)
    BY <2>2
  <2> HIDE DEF p, digit
  <2>4. p \in {0, 1, 2}
    BY <2>3
  <2>5. p # 0
    BY <1>1, <2>3
  <2>6. p # 2
    BY <1>1, <2>3
  <2> QED BY <2>4, <2>5, <2>6
<1>3. powi(10, 1 - 1) = 1
  BY DEF powi
<1>4. fieldwidth(str) = IF p = 0 THEN -1 ELSE width[p]
  BY DEF fieldwidth
<1> HIDE DEF p
<1> DEFINE f == [i \in 0 .. 1 |-> IF i = 0 THEN 0 ELSE w]
<1>5. f = [i \in 0 .. p |-> IF i = 0 THEN 0
                            ELSE f[i - 1] + ctoi(str[p + 1 - i]) * powi(10, i - 1)]
  <2>1. f[0] = 0 /\ f[1] = w
    OBVIOUS
  <2>2. f[1 - 1] + ctoi(str[1 + 1 - 1]) * powi(10, 1 - 1) = w
    BY <1>3, <2>1
  <2> HIDE DEF f
  <2>3. \A i \in 0 .. 1 : f[i] = IF i = 0 THEN 0
                            ELSE f[i - 1] + ctoi(str[1 + 1 - i]) * powi(10, i - 1)
    BY <2>1, <2>2
  <2>4. f = [i \in 0 .. 1 |-> f[i]]
    BY DEF f
  <2> QED BY <1>2, <2>3, <2>4
<1>6. width = [i \in 0 .. p |-> IF i = 0 THEN 0
                 ELSE width[i - 1] + ctoi(str[p + 1 - i]) * powi(10, i - 1)]
  <2> HIDE DEF f
  <2> QED BY <1>5
<1> HIDE DEF width, f
<1>7. width[0] = 0
  BY <1>2, <1>6
<1>8. width[1] = width[1 - 1] + ctoi(str[1 + 1 - 1]) * powi(10, 1 - 1)
  BY <1>2, <1>6
<1>9. width[1] = w
  BY <1>3, <1>7, <1>8
<1> QED BY <1>2, <1>4, <1>9

(* The loop of kprintf: what it reads at position i, and its rest in terms *)
(* of the rests g of later positions.                                      *)
CharAt(fmt, i) == IF i <= Len(fmt) THEN fmt[i] ELSE "end"
FirstAt(fmt, i) == IF CharAt(fmt, i + 1) = "0" THEN i + 2 ELSE i + 1
WidthAt(fmt, i) == fieldwidth(SubSeq(fmt, FirstAt(fmt, i), Len(fmt)))
ConversionAt(fmt, i) ==
    IF WidthAt(fmt, i) > 0 THEN FirstAt(fmt, i) + num_digits(WidthAt(fmt, i), 10)
    ELSE FirstAt(fmt, i)

RestOf(fmt, args, g, i) ==
    [a \in Nat |->
        IF i > Len(fmt) THEN << >>
        ELSE IF fmt[i] # "%" THEN <<fmt[i]>> \o g[i + 1][a]
        ELSE IF CharAt(fmt, ConversionAt(fmt, i)) = "%"
             THEN <<"%">> \o g[ConversionAt(fmt, i) + 1][a]
        ELSE IF CharAt(fmt, ConversionAt(fmt, i)) \notin Conversions
             THEN InvalidReplacement
        ELSE Replacement(CharAt(fmt, ConversionAt(fmt, i)), args[a],
                         IF WidthAt(fmt, i) > 0 THEN WidthAt(fmt, i) ELSE 0,
                         IF CharAt(fmt, i + 1) = "0" THEN "0" ELSE Space)
                 \o g[ConversionAt(fmt, i) + 1][a + 1]]

(* The loop ends: the rest of a position is computed from later ones.      *)
LEMMA KprintfLoop ==
  ASSUME NEW fmt, Len(fmt) \in Nat, NEW args,
         \A i \in Nat \ {0} : i <= Len(fmt) /\ fmt[i] = "%" => WidthAt(fmt, i) \in Int
  PROVE  \E rest : /\ \A i \in Nat \ {0} : rest[i] = RestOf(fmt, args, rest, i)
                   /\ kprintf(fmt, args) = rest[1][1]
<1> DEFINE L == Len(fmt)
           Body(g, i) == RestOf(fmt, args, g, i)
           Good(g, k) == \A i \in Nat \ {0} : i >= L + 1 - k => g[i] = Body(g, i)
           T == {k \in Nat : k <= L /\ ~\E g : Good(g, k) /\ g = [i \in Nat \ {0} |-> g[i]]}
<1>1. ASSUME NEW i \in Nat \ {0}, NEW g, NEW h, \A j \in Nat \ {0} : j > i => g[j] = h[j]
      PROVE  Body(g, i) = Body(h, i)
  <2>1. g[i + 1] = h[i + 1]
    BY <1>1
  <2>2. ASSUME i <= L, fmt[i] = "%"
        PROVE  g[ConversionAt(fmt, i) + 1] = h[ConversionAt(fmt, i) + 1]
    <3>1. FirstAt(fmt, i) \in Nat /\ FirstAt(fmt, i) > i /\ WidthAt(fmt, i) \in Int
      BY <2>2 DEF FirstAt
    <3>2. ConversionAt(fmt, i) \in Nat /\ ConversionAt(fmt, i) > i
      <4>1. WidthAt(fmt, i) > 0 => num_digits(WidthAt(fmt, i), 10) \in Nat
        <5>1. 10 \in Bases
          BY DEF Bases
        <5> QED BY <3>1, <5>1, NumDigits
      <4> QED BY <3>1, <4>1 DEF ConversionAt
    <3> QED BY <1>1, <3>2
  <2>3. (i <= L) = ~(i > L)
    OBVIOUS
  <2> QED BY <2>1, <2>2, <2>3 DEF RestOf
<1> HIDE DEF Body
<1>2. \E g : Good(g, L) /\ g = [i \in Nat \ {0} |-> g[i]]
  <2>1. SUFFICES ASSUME T # {} PROVE FALSE
    <3>1. L \in Nat /\ L <= L
      OBVIOUS
    <3> HIDE DEF Good
    <3> QED BY <3>1
  <2>2. PICK m \in T : \A k \in T : m <= k
    BY <2>1, LeastNat
  <2>3. m \in Nat /\ m <= L /\ ~\E g : Good(g, m) /\ g = [i \in Nat \ {0} |-> g[i]]
    BY <2>2
  <2>4. m # 0
    <3> DEFINE g == [i \in Nat \ {0} |-> [a \in Nat |-> << >>]]
    <3>1. Good(g, 0)
      <4>1. ASSUME NEW i \in Nat \ {0}, i >= L + 1 - 0 PROVE g[i] = Body(g, i)
        <5>1. i > Len(fmt)
          BY <4>1
        <5>2. Body(g, i) = [a \in Nat |-> << >>]
          BY <5>1 DEF Body, RestOf
        <5> QED BY <5>2
      <4> QED BY <4>1
    <3>2. g = [i \in Nat \ {0} |-> g[i]]
      OBVIOUS
    <3> QED BY <2>3, <3>1, <3>2
  <2>5. m - 1 \in Nat /\ m - 1 \notin T
    <3>1. m - 1 \in Nat /\ ~(m <= m - 1)
      BY <2>3, <2>4
    <3> HIDE DEF T
    <3> QED BY <2>2, <3>1
  <2>6. PICK g : Good(g, m - 1) /\ g = [i \in Nat \ {0} |-> g[i]]
    BY <2>3, <2>5
  <2> DEFINE q == L + 1 - m
             h == [i \in Nat \ {0} |-> IF i = q THEN Body(g, q) ELSE g[i]]
  <2>7. q \in Nat \ {0}
    BY <2>3
  <2>8. h[q] = Body(g, q) /\ \A j \in Nat \ {0} : j # q => h[j] = g[j]
    BY <2>7
  <2>9. h = [i \in Nat \ {0} |-> h[i]]
    OBVIOUS
  <2> HIDE DEF h
  <2>10. ASSUME NEW i \in Nat \ {0}, i >= L + 1 - m PROVE h[i] = Body(h, i)
    <3>1. i >= q /\ \A j \in Nat \ {0} : j > i => g[j] = h[j]
      BY <2>3, <2>7, <2>8, <2>10
    <3>2. Body(g, i) = Body(h, i)
      BY <1>1, <3>1
    <3>3. CASE i = q
      BY <2>8, <3>2, <3>3
    <3>4. CASE i # q
      <4>1. i >= L + 1 - (m - 1)
        BY <2>3, <3>1, <3>4
      <4> QED BY <2>6, <2>8, <3>2, <3>4, <4>1
    <3> QED BY <3>3, <3>4
  <2>11. Good(h, m)
    BY <2>10
  <2> QED BY <2>3, <2>9, <2>11
<1>3. PICK f : Good(f, L) /\ f = [i \in Nat \ {0} |-> f[i]]
  BY <1>2
<1>4. f = [i \in Nat \ {0} |-> Body(f, i)]
  <2>1. \A i \in Nat \ {0} : f[i] = Body(f, i)
    BY <1>3
  <2> QED BY <1>3, <2>1
<1> DEFINE rest == CHOOSE rest : rest = [i \in Nat \ {0} |-> Body(rest, i)]
<1>5. rest = [i \in Nat \ {0} |-> Body(rest, i)]
  BY <1>4
<1>6. kprintf(fmt, args) = rest[1][1]
  BY DEF kprintf, Body, RestOf, ConversionAt, WidthAt, FirstAt, CharAt
<1> HIDE DEF rest
<1>7. \A i \in Nat \ {0} : rest[i] = RestOf(fmt, args, rest, i)
  BY <1>5 DEF Body
<1> QED BY <1>6, <1>7

-----------------------------------------------------------------------------
(* The conversions of a number.                                            *)

NumberConversions == {"x", "i", "u"}

(* Digits and conversions have different characters.                       *)
LEMMA CtoiIs ==
  /\ \A w \in 0 .. 9 : ctoi(Digit(w)) = w /\ Digit(w) # "%" /\ (w # 0 => Digit(w) # "0")
  /\ \A c \in NumberConversions : ctoi(c) = -1 /\ c # "0" /\ c # "%" /\ c \in Conversions
<1>1. /\ Digit(0) = "0" /\ Digit(1) = "1" /\ Digit(2) = "2" /\ Digit(3) = "3"
      /\ Digit(4) = "4" /\ Digit(5) = "5" /\ Digit(6) = "6" /\ Digit(7) = "7"
      /\ Digit(8) = "8" /\ Digit(9) = "9"
  BY DEF Digit, DigitChars
<1>2. ASSUME NEW w \in 0 .. 9
      PROVE  ctoi(Digit(w)) = w /\ Digit(w) # "%" /\ (w # 0 => Digit(w) # "0")
  <2>1. \A d \in 0 .. 9 : Digit(d) = Digit(w) => d = w
    BY <1>1
  <2>2. ctoi(Digit(w)) = w
    <3>1. \E d \in 0 .. 9 : Digit(d) = Digit(w)
      OBVIOUS
    <3> DEFINE e == CHOOSE d \in 0 .. 9 : Digit(d) = Digit(w)
    <3>2. e \in 0 .. 9 /\ Digit(e) = Digit(w)
      BY <3>1
    <3>3. e = w
      BY <2>1, <3>2
    <3> QED BY <3>1, <3>3 DEF ctoi
  <2> QED BY <1>1, <2>2
<1>3. ASSUME NEW c \in NumberConversions
      PROVE  ctoi(c) = -1 /\ c # "0" /\ c # "%" /\ c \in Conversions
  <2>1. \A d \in 0 .. 9 : Digit(d) # c
    BY <1>1 DEF NumberConversions
  <2> QED BY <2>1 DEF ctoi, NumberConversions, Conversions
<1> QED BY <1>2, <1>3

(* The end of the format fmt from the percent sign at q on: with the zero  *)
(* if pad is "0", with the width w unless it is 0, and the conversion c.   *)
EndsWith(fmt, q, c, w, pad) ==
    LET first == IF pad = "0" THEN q + 2 ELSE q + 1
    IN  /\ c \in NumberConversions /\ w \in 0 .. 9 /\ pad \in {Space, "0"}
        /\ pad # "0" => pad = Space
        /\ \E S : fmt \in Seq(S)
        /\ q \in 1 .. Len(fmt) /\ fmt[q] = "%" /\ fmt[Len(fmt)] = c
        /\ pad = "0" => fmt[q + 1] = "0"
        /\ Len(fmt) = (IF w = 0 THEN first ELSE first + 1)
        /\ w # 0 => fmt[first] = Digit(w)

Unrolls(fmt, args, rest) ==
    \A i \in Nat \ {0} : rest[i] = RestOf(fmt, args, rest, i)

(* What kprintf reads from there.                                          *)
LEMMA ConversionIs ==
  ASSUME NEW fmt, NEW q, NEW c, NEW w, NEW pad, EndsWith(fmt, q, c, w, pad)
  PROVE  /\ WidthAt(fmt, q) = (IF w = 0 THEN -1 ELSE w)
         /\ ConversionAt(fmt, q) = Len(fmt)
         /\ pad = (IF CharAt(fmt, q + 1) = "0" THEN "0" ELSE Space)
<1> DEFINE first == IF pad = "0" THEN q + 2 ELSE q + 1
<1>0. PICK S : fmt \in Seq(S)
  BY DEF EndsWith
<1>9. /\ q \in 1 .. Len(fmt) /\ w \in 0 .. 9 /\ pad \in {Space, "0"} /\ (pad # "0" => pad = Space)
      /\ c \in NumberConversions /\ fmt[Len(fmt)] = c
      /\ first = (IF pad = "0" THEN q + 2 ELSE q + 1)
      /\ pad = "0" => fmt[q + 1] = "0"
      /\ Len(fmt) = (IF w = 0 THEN first ELSE first + 1)
      /\ w # 0 => fmt[first] = Digit(w)
  BY DEF EndsWith
<1> HIDE DEF first
<1>1. first \in 1 .. Len(fmt) /\ Len(fmt) \in Nat
  BY <1>0, <1>9
<1>2. (CharAt(fmt, q + 1) = "0") = (pad = "0")
  <2>1. CASE pad = "0"
    BY <1>9, <1>1, <2>1 DEF CharAt
  <2>2. CASE pad # "0"
    <3>1. fmt[q + 1] # "0" /\ first = q + 1
      BY <1>9, <1>1, <2>2, CtoiIs
    <3> QED BY <1>9, <1>1, <2>2, <3>1 DEF CharAt
  <2> QED BY <2>1, <2>2
<1>3. FirstAt(fmt, q) = first
  BY <1>9, <1>2 DEF FirstAt
<1> DEFINE str == SubSeq(fmt, first, Len(fmt))
<1>4. Len(str) = (Len(fmt) - first) + 1 /\ \A i \in 1 .. (Len(fmt) - first) + 1 : str[i] = fmt[first + i - 1]
  BY <1>0, <1>1, SubSeqProperties, ElementOfSeq
<1> HIDE DEF str
<1>5. WidthAt(fmt, q) = fieldwidth(str)
  BY <1>3 DEF WidthAt, str
<1>6. CASE w = 0
  <2>1. Len(str) = 1 /\ str[1] = c
    BY <1>9, <1>1, <1>4, <1>6
  <2>2. WidthAt(fmt, q) = -1
    BY <1>9, <1>5, <2>1, NoFieldWidth, CtoiIs
  <2> QED BY <1>9, <1>2, <1>3, <1>6, <2>2 DEF ConversionAt
<1>7. CASE w # 0
  <2>1. Len(str) = 2 /\ str[1] = Digit(w) /\ str[2] = c
    BY <1>9, <1>1, <1>4, <1>7
  <2>2. WidthAt(fmt, q) = w
    <3>1. ctoi(str[1]) = w /\ ctoi(str[2]) = -1 /\ w \in 1 .. 9
      <4>1. ctoi(Digit(w)) = w /\ ctoi(c) = -1
        BY <1>9, CtoiIs
      <4>2. w \in 1 .. 9
        BY <1>9, <1>7
      <4> QED BY <2>1, <4>1, <4>2
    <3> QED BY <1>5, <2>1, <3>1, FieldWidthOfDigit
  <2>3. num_digits(w, 10) = 1
    <3>1. 10 \in Bases /\ w \in Nat /\ w < 10
      BY <1>9 DEF Bases
    <3> QED BY <3>1, NumDigits
  <2> QED BY <1>9, <1>1, <1>2, <1>3, <1>7, <2>2, <2>3 DEF ConversionAt
<1> QED BY <1>6, <1>7

(* What it is replaced by, if nothing follows it.                          *)
LEMMA ConversionText ==
  ASSUME NEW fmt, NEW q, NEW c, NEW w, NEW pad, EndsWith(fmt, q, c, w, pad),
         NEW args, NEW rest, Unrolls(fmt, args, rest)
  PROVE  rest[q][1] = Replacement(c, args[1], w, pad) \o << >>
<1>1. /\ Len(fmt) \in Nat /\ q \in 1 .. Len(fmt) /\ fmt[q] = "%" /\ w \in 0 .. 9
      /\ c \in NumberConversions /\ fmt[Len(fmt)] = c
  BY DEF EndsWith
<1>2. rest[Len(fmt) + 1][1 + 1] = << >>
  <2>1. rest[Len(fmt) + 1] = RestOf(fmt, args, rest, Len(fmt) + 1)
    BY <1>1 DEF Unrolls
  <2>2. RestOf(fmt, args, rest, Len(fmt) + 1) = [a \in Nat |-> << >>]
    BY <1>1 DEF RestOf
  <2> QED BY <2>1, <2>2
<1>3. rest[q] = RestOf(fmt, args, rest, q) /\ ~(q > Len(fmt))
  BY <1>1 DEF Unrolls
<1>4. CharAt(fmt, Len(fmt)) = c /\ c # "%" /\ c \in Conversions
  BY <1>1, CtoiIs DEF CharAt
<1>5. /\ ConversionAt(fmt, q) = Len(fmt)
      /\ w = (IF WidthAt(fmt, q) > 0 THEN WidthAt(fmt, q) ELSE 0)
      /\ pad = (IF CharAt(fmt, q + 1) = "0" THEN "0" ELSE Space)
  <2>1. /\ WidthAt(fmt, q) = (IF w = 0 THEN -1 ELSE w)
        /\ ConversionAt(fmt, q) = Len(fmt)
        /\ pad = (IF CharAt(fmt, q + 1) = "0" THEN "0" ELSE Space)
    BY ConversionIs
  <2> QED BY <1>1, <2>1
<1>6. RestOf(fmt, args, rest, q)[1] = Replacement(c, args[1], w, pad) \o rest[Len(fmt) + 1][1 + 1]
  BY <1>1, <1>3, <1>4, <1>5 DEF RestOf
<1> QED BY <1>2, <1>3, <1>6

(* What kprintf makes of a format that ends with its only conversion.      *)
LEMMA OnlyConversion ==
  ASSUME NEW fmt, NEW q, NEW c, NEW w, NEW pad, EndsWith(fmt, q, c, w, pad),
         \A i \in 1 .. Len(fmt) : fmt[i] = "%" => i = q,
         NEW args
  PROVE  \E rest : /\ Unrolls(fmt, args, rest)
                   /\ kprintf(fmt, args) = rest[1][1]
                   /\ rest[q][1] = Replacement(c, args[1], w, pad) \o << >>
<1>1. Len(fmt) \in Nat /\ w \in 0 .. 9
  BY DEF EndsWith
<1>2. ASSUME NEW i \in Nat \ {0}, i <= Len(fmt), fmt[i] = "%" PROVE WidthAt(fmt, i) \in Int
  <2>1. i = q
    BY <1>1, <1>2
  <2>2. WidthAt(fmt, q) = (IF w = 0 THEN -1 ELSE w)
    BY ConversionIs
  <2> QED BY <1>1, <2>1, <2>2
<1>3. \A i \in Nat \ {0} : i <= Len(fmt) /\ fmt[i] = "%" => WidthAt(fmt, i) \in Int
  BY <1>2
<1>4. PICK rest : /\ \A i \in Nat \ {0} : rest[i] = RestOf(fmt, args, rest, i)
                  /\ kprintf(fmt, args) = rest[1][1]
  BY <1>1, <1>3, KprintfLoop
<1>5. Unrolls(fmt, args, rest)
  BY <1>4 DEF Unrolls
<1>6. rest[q][1] = Replacement(c, args[1], w, pad) \o << >>
  BY <1>5, ConversionText
<1> QED BY <1>4, <1>5, <1>6
=============================================================================
