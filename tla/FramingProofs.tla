--------------------------- MODULE FramingProofs ----------------------------
(***************************************************************************)
(* What Link::recv makes of an SSDB packet, whatever its bodies are and     *)
(* however much of it has arrived: the numbers of its length lines are read *)
(* as sprintf() wrote them, each turn of the loop finds the next record,    *)
(* and so the packet is taken whole, or waited for, or refused for its size.*)
(***************************************************************************)
EXTENDS Framing, Recursion, SequenceTheorems, TLAPS
-----------------------------------------------------------------------------
(* Numbers in decimal.                                                      *)

\* sprintf() does what its definition says, and its characters are digits.
LEMMA DecimalFacts ==
  /\ Decimal \in [Nat -> Seq(DIGIT)]
  /\ \A n \in Nat : Decimal[n] = IF n < 10 THEN <<48 + n>>
                                 ELSE Append(Decimal[n \div 10], 48 + (n % 10))
<1> DEFINE X == Seq(DIGIT)
           c == [n \in Nat |-> <<48 + n>>]
           H == [n \in Nat |-> [d \in X |-> Append(d, 48 + (n % 10))]]
           D == [n \in Nat |-> n \div 10]
           rank == [n \in Nat |-> n]
           B == 0 .. 9
           Rec(f) == [n \in Nat |-> IF n < 10 THEN <<48 + n>>
                                    ELSE Append(f[n \div 10], 48 + (n % 10))]
<1>1. <<>> \in X /\ rank \in [Nat -> Nat]
  OBVIOUS
<1>2. ASSUME NEW n \in Nat
      PROVE  IF n \in B THEN c[n] \in X
             ELSE H[n] \in [X -> X] /\ D[n] \in Nat /\ rank[D[n]] < rank[n]
  <2>1. CASE n \in B
    <3>1. 48 + n \in DIGIT  BY <2>1 DEF DIGIT
    <3>2. c[n] = <<48 + n>>  OBVIOUS
    <3>3. <<48 + n>> \in Seq(DIGIT)  BY <3>1
    <3> QED  BY <2>1, <3>2, <3>3
  <2>2. CASE n \notin B
    <3>1. n >= 10 /\ n \div 10 \in Nat /\ n \div 10 < n  BY <2>2
    <3>2. D[n] \in Nat /\ rank[D[n]] = n \div 10 /\ rank[n] = n  BY <3>1
    <3>3. 48 + (n % 10) \in DIGIT  BY DEF DIGIT
    <3>4. \A d \in X : Append(d, 48 + (n % 10)) \in X  BY <3>3
    <3>5. H[n] = [d \in X |-> Append(d, 48 + (n % 10))]  OBVIOUS
    <3> HIDE DEF H, D, rank, X, B
    <3>6. H[n] \in [X -> X]  BY <3>4, <3>5
    <3> QED  BY <2>2, <3>1, <3>2, <3>6
  <2> QED  BY <2>1, <2>2
<1>3. PICK f \in [Nat -> X] : \A n \in Nat : Descends(f, n, B, c, H, D)
  <2> HIDE DEF X, c, H, D, rank, B
  <2> QED  BY <1>1, <1>2, RecRank
<1>4. f = Rec(f)
  <2>1. ASSUME NEW n \in Nat
        PROVE  f[n] = IF n < 10 THEN <<48 + n>> ELSE Append(f[n \div 10], 48 + (n % 10))
    <3>1. Descends(f, n, B, c, H, D)  BY <1>3
    <3>2. CASE n \in B
      <4>1. f[n] = c[n]
        <5> HIDE DEF B, c, H, D
        <5> QED  BY <3>1, <3>2 DEF Descends
      <4>2. n < 10 /\ c[n] = <<48 + n>>  BY <3>2
      <4> QED  BY <4>1, <4>2
    <3>3. CASE n \notin B
      <4>1. n >= 10 /\ n \div 10 \in Nat  BY <3>3
      <4>2. f[n] = H[n][f[D[n]]] /\ D[n] = n \div 10  BY <3>1, <3>3 DEF Descends
      <4>3. f[n \div 10] \in X  BY <1>3, <4>1
      <4>4. H[n][f[n \div 10]] = Append(f[n \div 10], 48 + (n % 10))
        <5> HIDE DEF X
        <5> QED  BY <4>3
      <4> HIDE DEF H, D, X, B
      <4> QED  BY <4>1, <4>2, <4>4
    <3> QED  BY <3>2, <3>3
  <2> HIDE DEF X
  <2> QED  BY <1>3, <2>1
<1>5. Decimal = Rec(Decimal)
  <2>1. Decimal = CHOOSE g : g = Rec(g)  BY DEF Decimal
  <2> HIDE DEF Rec
  <2> QED  BY <1>4, <2>1
<1>6. ASSUME NEW n \in Nat
      PROVE  Decimal[n] = IF n < 10 THEN <<48 + n>>
                          ELSE Append(Decimal[n \div 10], 48 + (n % 10))
  BY <1>5
<1> HIDE DEF Rec
<1>7. \A n \in Nat : Decimal[n] \in X
  <2> DEFINE S == { n \in Nat : Decimal[n] \in X }
  <2>1. ASSUME NEW n \in Nat, \A m \in 0 .. n - 1 : m \in S PROVE n \in S
    <3>1. CASE n < 10
      <4>1. Decimal[n] = <<48 + n>>  BY <1>6, <3>1
      <4>2. 48 + n \in DIGIT  BY <3>1 DEF DIGIT
      <4>3. <<48 + n>> \in Seq(DIGIT)  BY <4>2
      <4> QED  BY <4>1, <4>3
    <3>2. CASE n >= 10
      <4>1. Decimal[n] = Append(Decimal[n \div 10], 48 + (n % 10))
        <5>1. ~(n < 10)  BY <3>2
        <5> QED  BY <1>6, <5>1, Zenon
      <4>2. n \div 10 \in 0 .. n - 1  BY <3>2
      <4>3. Decimal[n \div 10] \in Seq(DIGIT)  BY <2>1, <4>2
      <4>4. 48 + (n % 10) \in DIGIT  BY DEF DIGIT
      <4>5. Append(Decimal[n \div 10], 48 + (n % 10)) \in Seq(DIGIT)  BY <4>3, <4>4
      <4> QED  BY <4>1, <4>5
    <3> QED  BY <3>1, <3>2
  <2>2. \A n \in Nat : n \in S
    <3> HIDE DEF S
    <3> QED  BY <2>1, NatStrong
  <2> QED  BY <2>2
<1>8. Decimal \in [Nat -> X]
  <2>1. Decimal = [n \in Nat |-> Decimal[n]]  BY <1>5 DEF Rec
  <2> HIDE DEF X
  <2> QED  BY <1>7, <2>1
<1> QED  BY <1>6, <1>8

\* A number of more than one digit: the last one and those before it.
LEMMA LastDigit ==
  ASSUME NEW n \in Nat, n >= 10
  PROVE  \E m \in 0 .. n - 1, c \in 0 .. 9 :
           n = 10 * m + c /\ Decimal[n] = Append(Decimal[m], 48 + c)
<1>1. ~(n < 10)  OBVIOUS
<1>2. Decimal[n] = Append(Decimal[n \div 10], 48 + (n % 10))
  BY <1>1, DecimalFacts, Zenon
<1>3. n \div 10 \in Nat /\ n % 10 \in 0 .. 9 /\ n = 10 * (n \div 10) + (n % 10)  OBVIOUS
<1>4. n \div 10 \in 0 .. n - 1  OBVIOUS
<1> QED  BY <1>2, <1>3, <1>4, Zenon

\* A number of one digit.
LEMMA FirstDigit ==
  ASSUME NEW n \in Nat, n < 10
  PROVE  Decimal[n] = <<48 + n>>
BY DecimalFacts, Zenon

\* Every character of a number is a digit.
LEMMA DecimalType ==
  ASSUME NEW n \in Nat
  PROVE  /\ Decimal[n] \in Seq(DIGIT) /\ Len(Decimal[n]) \in Nat /\ Len(Decimal[n]) >= 1
         /\ \A i \in 1 .. Len(Decimal[n]) : Decimal[n][i] \in DIGIT
<1>1. Decimal[n] \in Seq(DIGIT)  BY DecimalFacts
<1>2. Len(Decimal[n]) >= 1
  <2>1. CASE n < 10
    <3>1. Decimal[n] = <<48 + n>>  BY <2>1, DecimalFacts
    <3> QED  BY <3>1
  <2>2. CASE n >= 10
    <3>1. PICK m \in 0 .. n - 1, c \in 0 .. 9 : Decimal[n] = Append(Decimal[m], 48 + c)
      BY <2>2, LastDigit
    <3>2. Decimal[m] \in Seq(DIGIT)  BY DecimalFacts
    <3>3. Len(Append(Decimal[m], 48 + c)) = Len(Decimal[m]) + 1 /\ Len(Decimal[m]) \in Nat
      BY <3>2
    <3> QED  BY <3>1, <3>3
  <2> QED  BY <2>1, <2>2
<1> QED  BY <1>1, <1>2

\* A number below m has few digits, one below 10 * m one more.
LEMMA OneMoreDigit ==
  ASSUME NEW m \in Nat, NEW k \in Nat, k >= 1,
         \A n \in Nat : n < m => Len(Decimal[n]) <= k
  PROVE  \A n \in Nat : n < 10 * m => Len(Decimal[n]) <= k + 1
<1> SUFFICES ASSUME NEW n \in Nat, n < 10 * m PROVE Len(Decimal[n]) <= k + 1
  OBVIOUS
<1>1. CASE n < 10
  <2>1. Decimal[n] = <<48 + n>>  BY <1>1, DecimalFacts
  <2>2. Len(Decimal[n]) = 1  BY <2>1
  <2> QED  BY <2>2
<1>2. CASE n >= 10
  <2>1. PICK i \in 0 .. n - 1, c \in 0 .. 9 :
          n = 10 * i + c /\ Decimal[n] = Append(Decimal[i], 48 + c)
    BY <1>2, LastDigit
  <2>2. i \in Nat /\ i < m  BY <2>1
  <2>3. Len(Decimal[i]) <= k /\ Decimal[i] \in Seq(DIGIT) /\ Len(Decimal[i]) \in Nat
    BY <2>2, DecimalType
  <2>4. Len(Append(Decimal[i], 48 + c)) = Len(Decimal[i]) + 1
    BY <2>3
  <2> QED  BY <2>1, <2>3, <2>4
<1> QED  BY <1>1, <1>2

\* A length within the limit takes nine digits at most, and a header may have 18.
LEMMA FewDigits ==
  ASSUME NEW n \in Nat, n <= MaxPacket
  PROVE  Len(Decimal[n]) <= 9
<1> DEFINE Few(m, k) == \A i \in Nat : i < m => Len(Decimal[i]) <= k
<1>1. Few(10, 1)
  <2> SUFFICES ASSUME NEW i \in Nat, i < 10 PROVE Len(Decimal[i]) <= 1
    OBVIOUS
  <2>1. Decimal[i] = <<48 + i>>  BY DecimalFacts
  <2> QED  BY <2>1
<1>2. ASSUME NEW m \in Nat, NEW k \in Nat, k >= 1, Few(m, k) PROVE Few(10 * m, k + 1)
  BY <1>2, OneMoreDigit
<1> HIDE DEF Few
<1>3. Few(100, 2)
  BY <1>1, <1>2
<1>4. Few(1000, 3)  BY <1>2, <1>3
<1>5. Few(10000, 4)  BY <1>2, <1>4
<1>6. Few(100000, 5)  BY <1>2, <1>5
<1>7. Few(1000000, 6)  BY <1>2, <1>6
<1>8. Few(10000000, 7)  BY <1>2, <1>7
<1>9. Few(100000000, 8)  BY <1>2, <1>8
<1>10. Few(1000000000, 9)  BY <1>2, <1>9
<1> QED  BY <1>10, FramingAssumption DEF Few, FramingAssumption

\* The value of the digits of n, read one after the other, is n.
LEMMA DecimalValue ==
  \A n \in Nat : \A at \in Nat : \A f :
    f[at] = 0 /\ (\A i \in 1 .. Len(Decimal[n]) :
                    f[at + i] = 10 * f[at + i - 1] + (Decimal[n][i] - 48))
      => f[at + Len(Decimal[n])] = n
<1> DEFINE Reads(n, at, f) == /\ f[at] = 0
                              /\ \A i \in 1 .. Len(Decimal[n]) :
                                   f[at + i] = 10 * f[at + i - 1] + (Decimal[n][i] - 48)
           S == { n \in Nat : \A at \in Nat : \A f : Reads(n, at, f) => f[at + Len(Decimal[n])] = n }
<1>1. ASSUME NEW n \in Nat, \A m \in 0 .. n - 1 : m \in S PROVE n \in S
  <2> SUFFICES ASSUME NEW at \in Nat, NEW f, Reads(n, at, f) PROVE f[at + Len(Decimal[n])] = n
    OBVIOUS
  <2>1. CASE n < 10
    <3>1. Decimal[n] = <<48 + n>>  BY <2>1, DecimalFacts
    <3>2. Len(Decimal[n]) = 1 /\ Decimal[n][1] = 48 + n  BY <3>1
    <3>3. f[at + 1] = 10 * f[at + 1 - 1] + (Decimal[n][1] - 48)  BY <3>2
    <3>4. at + 1 - 1 = at  OBVIOUS
    <3> QED  BY <3>2, <3>3, <3>4
  <2>2. CASE n >= 10
    <3>1. PICK m \in 0 .. n - 1, c \in 0 .. 9 :
            n = 10 * m + c /\ Decimal[n] = Append(Decimal[m], 48 + c)
      BY <2>2, LastDigit
    <3> DEFINE d == Decimal[m]
    <3>2. m \in Nat /\ m \in 0 .. n - 1  OBVIOUS
    <3>3. d \in Seq(DIGIT) /\ Len(d) \in Nat  BY <3>2, DecimalType
    <3>4. /\ Len(Decimal[n]) = Len(d) + 1
          /\ \A i \in 1 .. Len(d) : Decimal[n][i] = d[i]
          /\ Decimal[n][Len(d) + 1] = 48 + c
      <4> PICK e \in DIGIT : e = 48 + c  BY DEF DIGIT
      <4>1. Decimal[n] = Append(d, e)  BY <3>1
      <4> HIDE DEF d
      <4>2. /\ Len(Append(d, e)) = Len(d) + 1 /\ Append(d, e)[Len(d) + 1] = e
            /\ \A i \in 1 .. Len(d) : Append(d, e)[i] = d[i]
        BY <3>3, AppendFacts
      <4> QED  BY <4>1, <4>2
    <3>5. Reads(m, at, f)
      <4> SUFFICES ASSUME NEW i \in 1 .. Len(d)
                   PROVE  f[at + i] = 10 * f[at + i - 1] + (d[i] - 48)
        OBVIOUS
      <4>1. i \in 1 .. Len(Decimal[n]) /\ Decimal[n][i] = d[i]  BY <3>3, <3>4
      <4> QED  BY <4>1
    <3>6. f[at + Len(d)] = m
      <4>1. m \in S  BY <1>1, <3>2
      <4> QED  BY <3>5, <4>1
    <3>7. f[at + (Len(d) + 1)] = 10 * f[at + (Len(d) + 1) - 1] + (Decimal[n][Len(d) + 1] - 48)
      <4>1. Len(d) + 1 \in 1 .. Len(Decimal[n])  BY <3>3, <3>4
      <4> QED  BY <4>1
    <3>8. at + (Len(d) + 1) - 1 = at + Len(d)  BY <3>3
    <3>9. Decimal[n][Len(d) + 1] - 48 = c  BY <3>4
    <3>10. f[at + (Len(d) + 1)] = 10 * m + c
      <4> HIDE DEF d
      <4> QED  BY <3>6, <3>7, <3>8, <3>9
    <3>11. f[at + Len(Decimal[n])] = f[at + (Len(d) + 1)]  BY <3>4
    <3> QED  BY <3>1, <3>10, <3>11
  <2> QED  BY <2>1, <2>2
<1>2. \A n \in Nat : n \in S
  <2> HIDE DEF S
  <2> QED  BY <1>1, NatStrong
<1> QED  BY <1>2

-----------------------------------------------------------------------------
(* What a buffer holds of the bytes sent.                                   *)

\* After position `at` come the bytes s, as far as b reaches.
Holds(b, at, s) == \A i \in 1 .. Len(s) : at + i <= Len(b) => b[at + i] = s[i]

\* What holds of a sequence holds of its two parts.
LEMMA HoldsParts ==
  ASSUME NEW T, NEW s \in Seq(T), NEW t \in Seq(T), NEW b, NEW at \in Nat, Holds(b, at, s \o t)
  PROVE  Holds(b, at, s) /\ Holds(b, at + Len(s), t)
<1>1. /\ Len(s \o t) = Len(s) + Len(t) /\ Len(s) \in Nat /\ Len(t) \in Nat
      /\ \A p \in 1 .. Len(s) : (s \o t)[p] = s[p]
      /\ \A p \in 1 .. Len(t) : (s \o t)[Len(s) + p] = t[p]
  OBVIOUS
<1>2. Holds(b, at, s)
  <2> SUFFICES ASSUME NEW i \in 1 .. Len(s), at + i <= Len(b) PROVE b[at + i] = s[i]
    BY DEF Holds
  <2>1. i \in 1 .. Len(s \o t)  BY <1>1
  <2> QED  BY <1>1, <2>1 DEF Holds
<1>3. Holds(b, at + Len(s), t)
  <2> SUFFICES ASSUME NEW i \in 1 .. Len(t), (at + Len(s)) + i <= Len(b)
               PROVE  b[(at + Len(s)) + i] = t[i]
    BY DEF Holds
  <2>1. Len(s) + i \in 1 .. Len(s \o t)  BY <1>1
  <2>2. (at + Len(s)) + i = at + (Len(s) + i)  BY <1>1
  <2>3. b[at + (Len(s) + i)] = (s \o t)[Len(s) + i]  BY <2>1, <2>2 DEF Holds
  <2> QED  BY <1>1, <2>2, <2>3
<1> QED  BY <1>2, <1>3

\* A run of bytes of C ends where the next byte is another, or there is none.
LEMMA RunEndFacts ==
  ASSUME NEW b, Len(b) \in Nat, NEW at \in 0 .. Len(b), NEW C
  PROVE  /\ RunEnd(b, at, C) \in at .. Len(b)
         /\ RunEnd(b, at, C) = Len(b) \/ b[RunEnd(b, at, C) + 1] \notin C
         /\ \A i \in at .. RunEnd(b, at, C) - 1 : b[i + 1] \in C
<1> DEFINE S == { i \in at .. Len(b) : i = Len(b) \/ b[i + 1] \notin C }
<1>1. S \subseteq Nat /\ Len(b) \in S  OBVIOUS
<1>2. Min(S) \in S /\ \A x \in S : Min(S) <= x
  <2> HIDE DEF S
  <2>1. S \subseteq Nat /\ S # {}  BY <1>1
  <2> QED  BY <2>1, Least
<1>3. RunEnd(b, at, C) = Min(S)  BY DEF RunEnd
<1> DEFINE e == RunEnd(b, at, C)
<1> HIDE DEF e
<1>4. e \in S /\ \A x \in S : e <= x  BY <1>2, <1>3 DEF e
<1>5. ASSUME NEW i \in at .. e - 1 PROVE b[i + 1] \in C
  <2>1. i \notin S /\ i \in at .. Len(b) BY <1>4
  <2> QED  BY <2>1
<1>6. /\ e \in at .. Len(b) /\ (e = Len(b) \/ b[e + 1] \notin C)
      /\ \A i \in at .. e - 1 : b[i + 1] \in C
  BY <1>4, <1>5
<1> QED  BY <1>6 DEF e

\* k bytes of C, then one that is not: the run ends there, or where b ends.
LEMMA RunEndIs ==
  ASSUME NEW b, Len(b) \in Nat, NEW at \in 0 .. Len(b), NEW C, NEW k \in Nat,
         \A i \in 1 .. k : at + i <= Len(b) => b[at + i] \in C,
         at + k + 1 <= Len(b) => b[at + k + 1] \notin C
  PROVE  RunEnd(b, at, C) = IF at + k <= Len(b) THEN at + k ELSE Len(b)
<1> DEFINE e == RunEnd(b, at, C)
<1>1. /\ e \in at .. Len(b) /\ (e = Len(b) \/ b[e + 1] \notin C)
      /\ \A i \in at .. e - 1 : b[i + 1] \in C
  BY RunEndFacts
<1> HIDE DEF e
<1>2. e <= at + k
  <2> SUFFICES ASSUME e > at + k PROVE FALSE
    BY <1>1
  <2>1. at + k \in at .. e - 1 /\ at + k + 1 <= Len(b)  BY <1>1
  <2>2. b[(at + k) + 1] \in C  BY <1>1, <2>1
  <2> QED  BY <2>1, <2>2
<1>3. e < at + k => e = Len(b)
  <2> SUFFICES ASSUME e < at + k, e # Len(b) PROVE FALSE
    OBVIOUS
  <2>1. e + 1 - at \in 1 .. k /\ at + (e + 1 - at) <= Len(b) /\ at + (e + 1 - at) = e + 1
    BY <1>1
  <2>2. b[at + (e + 1 - at)] \in C  BY <2>1
  <2> QED  BY <1>1, <2>1, <2>2
<1>4. e = IF at + k <= Len(b) THEN at + k ELSE Len(b)
  BY <1>1, <1>2, <1>3
<1> QED  BY <1>4 DEF e

\* atoi() computes its value digit by digit.
LEMMA AtoiFacts ==
  ASSUME NEW b \in Seq(Nat), NEW at \in 0 .. Len(b), NEW end, end = RunEnd(b, at, DIGIT)
  PROVE  \E f \in [at .. end -> Nat] :
           /\ f[at] = 0 /\ \A i \in at + 1 .. end : f[i] = 10 * f[i - 1] + (b[i] - 48)
           /\ Atoi(b, at) = f[end]
<1>1. /\ end \in at .. Len(b) /\ Len(b) \in Nat /\ at \in Nat
      /\ \A i \in at .. end - 1 : b[i + 1] \in DIGIT
  BY RunEndFacts
<1> DEFINE G == [i \in at .. end |-> [v \in Nat |-> IF i = at THEN v ELSE 10 * v + (b[i] - 48)]]
           Rec(f) == [i \in at .. end |-> IF i = at THEN 0 ELSE 10 * f[i - 1] + (b[i] - 48)]
<1>2. ASSUME NEW i \in at + 1 .. end PROVE b[i] - 48 \in Nat
  <2>1. i - 1 \in at .. end - 1 /\ (i - 1) + 1 = i  BY <1>1
  <2>2. b[i] \in DIGIT  BY <1>1, <2>1
  <2> QED  BY <2>2 DEF DIGIT
<1>3. G \in [at .. end -> [Nat -> Nat]]
  <2> SUFFICES ASSUME NEW i \in at .. end, NEW v \in Nat
               PROVE  (IF i = at THEN v ELSE 10 * v + (b[i] - 48)) \in Nat
    OBVIOUS
  <2>1. CASE i = at  BY <2>1
  <2>2. CASE i # at
    <3>1. i \in at + 1 .. end  BY <1>1, <2>2
    <3>2. PICK d \in Nat : d = b[i] - 48  BY <1>2, <3>1
    <3>3. 10 * v + d \in Nat  OBVIOUS
    <3> QED  BY <2>2, <3>2, <3>3
  <2> QED  BY <2>1, <2>2
<1>4. PICK f \in [at .. end -> Nat] : Follows(f, G, 0, at, end)
  <2>1. at \in Int /\ end \in Int /\ at <= end  BY <1>1
  <2> PICK z \in Nat : z = 0  OBVIOUS
  <2> HIDE DEF G
  <2>2. \E f \in [at .. end -> Nat] : Follows(f, G, z, at, end)
    BY <1>3, <2>1, RecFcn
  <2> QED  BY <2>2
<1>5. f[at] = 0 /\ \A i \in at + 1 .. end : f[i] = 10 * f[i - 1] + (b[i] - 48)
  <2>1. f[at] = 0  BY <1>4 DEF Follows
  <2>2. ASSUME NEW i \in at + 1 .. end PROVE f[i] = 10 * f[i - 1] + (b[i] - 48)
    <3>1. i \in at .. end /\ i # at /\ i - 1 \in at .. end  BY <1>1
    <3>2. f[i - 1] \in Nat  BY <3>1
    <3>3. f[i] = G[i][f[i - 1]]  BY <1>4 DEF Follows
    <3>4. PICK v \in Nat : v = f[i - 1]  BY <3>2
    <3>5. G[i][v] = 10 * v + (b[i] - 48)  BY <3>1
    <3> QED  BY <3>3, <3>4, <3>5
  <2> QED  BY <2>1, <2>2
<1>6. f = Rec(f)
  <2>1. ASSUME NEW i \in at .. end
        PROVE  f[i] = IF i = at THEN 0 ELSE 10 * f[i - 1] + (b[i] - 48)
    <3>1. i = at \/ i \in at + 1 .. end  BY <1>1
    <3> QED  BY <1>5, <3>1, <1>1
  <2> QED  BY <2>1
<1> DEFINE g == CHOOSE h : h = Rec(h)
<1>7. g = Rec(g)
  <2> HIDE DEF Rec
  <2> QED  BY <1>6
<1>8. Atoi(b, at) = g[end]  BY DEF Atoi
<1> HIDE DEF g
<1>9. \A i \in at .. end : g[i] = IF i = at THEN 0 ELSE 10 * g[i - 1] + (b[i] - 48)
  BY <1>7
<1>10. \A i \in at .. end : f[i] = g[i]
  <2>1. f[at] = g[at]  BY <1>1, <1>5, <1>9
  <2>2. ASSUME NEW i \in at .. end - 1, f[i] = g[i] PROVE f[i + 1] = g[i + 1]
    <3>1. i + 1 \in at + 1 .. end /\ i + 1 \in at .. end /\ i + 1 # at /\ (i + 1) - 1 = i
      BY <1>1
    <3>2. f[i + 1] = 10 * f[(i + 1) - 1] + (b[i + 1] - 48)  BY <1>5, <3>1
    <3>3. g[i + 1] = 10 * g[(i + 1) - 1] + (b[i + 1] - 48)  BY <1>9, <3>1
    <3> QED  BY <2>2, <3>1, <3>2, <3>3
  <2>3. at \in Int /\ end \in Int /\ \A i \in at .. end - 1 : f[i] = g[i] => f[i + 1] = g[i + 1]
    BY <1>1, <2>2
  <2> DEFINE S == { i \in Int : f[i] = g[i] }
  <2>4. at \in S /\ \A i \in at .. end - 1 : i \in S => i + 1 \in S
    <3>1. \A i \in at .. end - 1 : i \in Int /\ i + 1 \in Int  OBVIOUS
    <3> QED  BY <2>1, <2>3, <3>1
  <2>5. \A i \in at .. end : i \in S
    <3> HIDE DEF S
    <3> QED  BY <2>3, <2>4, IntervalInduction
  <2> QED  BY <2>5
<1>11. f[end] = g[end]  BY <1>1, <1>10
<1> QED  BY <1>5, <1>8, <1>11

\* The value of digits is a number.
LEMMA AtoiType ==
  ASSUME NEW b \in Seq(Nat), NEW at \in 0 .. Len(b)
  PROVE  Atoi(b, at) \in Nat
<1> DEFINE end == RunEnd(b, at, DIGIT)
<1>1. PICK f \in [at .. end -> Nat] : Atoi(b, at) = f[end]  BY AtoiFacts
<1>2. end \in at .. Len(b) /\ Len(b) \in Nat  BY RunEndFacts
<1> HIDE DEF end
<1> QED  BY <1>1, <1>2

\* A number in decimal that no digit follows is read as it was written.
LEMMA AtoiReads ==
  ASSUME NEW b \in Seq(Nat), NEW at \in Nat, NEW n \in Nat, Holds(b, at, Decimal[n]),
         at + Len(Decimal[n]) < Len(b), b[at + Len(Decimal[n]) + 1] \notin DIGIT
  PROVE  Atoi(b, at) = n
<1> DEFINE d == Decimal[n]
           end == RunEnd(b, at, DIGIT)
<1>1. d \in Seq(DIGIT) /\ Len(d) \in Nat /\ \A i \in 1 .. Len(d) : d[i] \in DIGIT
  BY DecimalType
<1> HIDE DEF d
<1>2. Len(b) \in Nat /\ at + Len(d) < Len(b) /\ at \in 0 .. Len(b)
  BY <1>1 DEF d
<1>3. \A i \in 1 .. Len(d) : b[at + i] = d[i]
  BY <1>1, <1>2 DEF Holds, d
<1>4. end = at + Len(d)
  <2>1. \A i \in 1 .. Len(d) : at + i <= Len(b) => b[at + i] \in DIGIT  BY <1>1, <1>3
  <2>2. at + Len(d) + 1 <= Len(b) => b[at + Len(d) + 1] \notin DIGIT  BY DEF d
  <2>3. end = IF at + Len(d) <= Len(b) THEN at + Len(d) ELSE Len(b)
    BY <1>1, <1>2, <2>1, <2>2, RunEndIs
  <2> QED  BY <1>1, <1>2, <2>3
<1>5. PICK f \in [at .. end -> Nat] :
           /\ f[at] = 0 /\ \A i \in at + 1 .. end : f[i] = 10 * f[i - 1] + (b[i] - 48)
           /\ Atoi(b, at) = f[end]
  BY <1>2, AtoiFacts
<1> HIDE DEF end
<1>6. ASSUME NEW i \in 1 .. Len(d) PROVE f[at + i] = 10 * f[at + i - 1] + (d[i] - 48)
  <2>1. at + i \in at + 1 .. end  BY <1>1, <1>4
  <2>2. PICK j \in at + 1 .. end : j = at + i  BY <2>1
  <2>3. f[j] = 10 * f[j - 1] + (b[j] - 48)  BY <1>5
  <2>4. b[at + i] = d[i]  BY <1>3
  <2> QED  BY <2>2, <2>3, <2>4
<1>7. f[at + Len(d)] = n
  <2>1. ASSUME NEW k \in Nat, NEW F,
               F[k] = 0 /\ \A i \in 1 .. Len(Decimal[n]) :
                             F[k + i] = 10 * F[k + i - 1] + (Decimal[n][i] - 48)
        PROVE  F[k + Len(Decimal[n])] = n
    BY <2>1, DecimalValue, Zenon
  <2> QED  BY <1>5, <1>6, <2>1, Zenon DEF d
<1> QED  BY <1>4, <1>5, <1>7

-----------------------------------------------------------------------------
(* One turn of recv().                                                      *)

Eols == {<<LF>>, <<CR, LF>>}

\* Digits, line ends and blanks are told apart by their bytes.
LEMMA DigitBytes ==
  \A c \in DIGIT : c \in Nat /\ c # LF /\ c # CR /\ c \notin BLANK
BY DEF DIGIT, LF, CR, BLANK

\* The two bytes of line ends.
LEMMA EndBytes == LF \in Nat /\ CR \in Nat /\ LF \notin DIGIT /\ CR \notin DIGIT /\ LF # CR
BY DEF DIGIT, LF, CR

\* The two line ends recv() knows.
LEMMA EolBytes ==
  ASSUME NEW eol \in Eols
  PROVE  /\ eol \in Seq(Nat)
         /\ \/ eol = <<LF>> /\ Len(eol) = 1 /\ eol[1] = LF
            \/ eol = <<CR, LF>> /\ Len(eol) = 2 /\ eol[1] = CR /\ eol[2] = LF
<1>1. CASE eol = <<LF>>
  <2>1. <<LF>> \in Seq(Nat) /\ Len(<<LF>>) = 1 /\ <<LF>>[1] = LF  BY EndBytes
  <2> QED  BY <1>1, <2>1
<1>2. CASE eol = <<CR, LF>>
  <2>1. /\ <<CR, LF>> \in Seq(Nat) /\ Len(<<CR, LF>>) = 2
        /\ <<CR, LF>>[1] = CR /\ <<CR, LF>>[2] = LF
    BY EndBytes
  <2> QED  BY <1>2, <2>1
<1> QED  BY <1>1, <1>2 DEF Eols

\* A line end is one byte or two.
LEMMA EolLength ==
  ASSUME NEW eol \in Eols
  PROVE  eol \in Seq(Nat) /\ Len(eol) \in Nat /\ 1 <= Len(eol) /\ Len(eol) <= 2
<1>1. eol \in Seq(Nat) /\ (Len(eol) = 1 \/ Len(eol) = 2)  BY EolBytes
<1> PICK m \in {1, 2} : m = Len(eol)  BY <1>1
<1>2. m \in Nat /\ 1 <= m /\ m <= 2  OBVIOUS
<1> QED  BY <1>1, <1>2

\* A number is at least one digit.
LEMMA DecimalBytes ==
  ASSUME NEW n \in Nat
  PROVE  /\ Decimal[n] \in Seq(Nat) /\ Len(Decimal[n]) \in Nat /\ Len(Decimal[n]) >= 1
         /\ \A i \in 1 .. Len(Decimal[n]) : Decimal[n][i] \in DIGIT
<1>1. Decimal[n] \in Seq(DIGIT)  BY DecimalType
<1>2. Decimal[n] \in Seq(Nat)
  <2>1. DIGIT \subseteq Nat  BY DigitBytes
  <2> QED  BY <1>1, <2>1, WiderSeq
<1> QED  BY <1>2, DecimalType

\* What a search for a newline finds, or that there is none.
LEMMA NewlineFacts ==
  ASSUME NEW b, Len(b) \in Nat, NEW at \in Nat
  PROVE  \/ /\ NewlineAfter(b, at) \in at + 1 .. Len(b)
            /\ b[NewlineAfter(b, at)] = LF
            /\ \A i \in at + 1 .. NewlineAfter(b, at) - 1 : b[i] # LF
         \/ /\ NewlineAfter(b, at) = 0
            /\ \A i \in at + 1 .. Len(b) : b[i] # LF
<1> DEFINE nl == { i \in at + 1 .. Len(b) : b[i] = LF }
<1>1. nl \subseteq Nat  OBVIOUS
<1>2. NewlineAfter(b, at) = IF nl = {} THEN 0 ELSE Min(nl)  BY DEF NewlineAfter
<1>3. CASE nl = {}  BY <1>2, <1>3
<1>4. CASE nl # {}
  <2>1. Min(nl) \in nl /\ \A x \in nl : Min(nl) <= x
    <3> HIDE DEF nl
    <3> QED  BY <1>1, <1>4, Least
  <2> DEFINE e == NewlineAfter(b, at)
  <2>2. e = Min(nl)  BY <1>2, <1>4
  <2> HIDE DEF e
  <2>3. e \in at + 1 .. Len(b) /\ b[e] = LF  BY <2>1, <2>2
  <2>4. ASSUME NEW i \in at + 1 .. e - 1 PROVE b[i] # LF
    <3>1. i \notin nl /\ i \in at + 1 .. Len(b)  BY <2>1, <2>2, <2>3
    <3> QED  BY <3>1
  <2> QED  BY <2>3, <2>4 DEF e
<1> QED  BY <1>3, <1>4

\* k bytes and a newline: it is found once it is there.
LEMMA NewlineIs ==
  ASSUME NEW b, Len(b) \in Nat, NEW at \in Nat, NEW k \in Nat,
         \A i \in 1 .. k : at + i <= Len(b) => b[at + i] # LF,
         at + k + 1 <= Len(b) => b[at + k + 1] = LF
  PROVE  NewlineAfter(b, at) = IF at + k + 1 <= Len(b) THEN at + k + 1 ELSE 0
<1> DEFINE e == NewlineAfter(b, at)
<1>1. \/ /\ e \in at + 1 .. Len(b) /\ b[e] = LF
         /\ \A i \in at + 1 .. e - 1 : b[i] # LF
      \/ e = 0 /\ \A i \in at + 1 .. Len(b) : b[i] # LF
  BY NewlineFacts
<1> HIDE DEF e
<1>2. ASSUME NEW i \in at + 1 .. Len(b), i <= at + k PROVE b[i] # LF
  <2>1. i - at \in 1 .. k /\ at + (i - at) = i  BY <1>2
  <2>2. b[at + (i - at)] # LF  BY <2>1, <1>2
  <2> QED  BY <2>1, <2>2
<1>3. e = IF at + k + 1 <= Len(b) THEN at + k + 1 ELSE 0
  <2>1. CASE at + k + 1 <= Len(b)
    <3>1. at + k + 1 \in at + 1 .. Len(b) /\ b[at + k + 1] = LF  BY <2>1
    <3>2. e \in at + 1 .. Len(b) /\ b[e] = LF  BY <1>1, <3>1
    <3>3. ~(e <= at + k)  BY <1>2, <3>2
    <3>4. ~(at + k + 1 < e)  BY <1>1, <3>1, <3>2
    <3> QED  BY <2>1, <3>2, <3>3, <3>4
  <2>2. CASE ~(at + k + 1 <= Len(b))
    <3>1. \A i \in at + 1 .. Len(b) : b[i] # LF  BY <1>2, <2>2
    <3>2. ~(e \in at + 1 .. Len(b) /\ b[e] = LF)  BY <3>1
    <3> QED  BY <1>1, <2>2, <3>2
  <2> QED  BY <2>1, <2>2
<1> QED  BY <1>3 DEF e

\* A length line: the newline is found and the length read once all of it is there.
LEMMA HeaderReads ==
  ASSUME NEW b \in Seq(Nat), NEW at \in Nat, NEW n \in Nat, NEW eol \in Eols,
         Holds(b, at, Decimal[n] \o eol)
  PROVE  IF at + Len(Decimal[n]) + Len(eol) <= Len(b)
         THEN /\ NewlineAfter(b, at) = at + Len(Decimal[n]) + Len(eol)
              /\ Atoi(b, at) = n
         ELSE NewlineAfter(b, at) = 0
<1> DEFINE d == Decimal[n]
<1>1. /\ d \in Seq(Nat) /\ Len(d) \in Nat /\ Len(d) >= 1
      /\ \A i \in 1 .. Len(d) : d[i] \in DIGIT
  BY DecimalBytes
<1>2. Holds(b, at, d) /\ Holds(b, at + Len(d), eol)
  <2>2. eol \in Seq(Nat)  BY EolBytes
  <2>3. Holds(b, at, d \o eol)  OBVIOUS
  <2> HIDE DEF d
  <2> QED  BY <1>1, <2>2, <2>3, HoldsParts
<1> HIDE DEF d
<1>3. Len(b) \in Nat  OBVIOUS
<1>4. \A i \in 1 .. Len(d) : at + i <= Len(b) => b[at + i] \in DIGIT
  BY <1>1, <1>2 DEF Holds
<1>5. CASE eol = <<LF>>
  <2>1. Len(eol) = 1 /\ eol[1] = LF  BY <1>5
  <2>2. at + Len(d) + 1 <= Len(b) => b[at + Len(d) + 1] = LF
    BY <1>1, <1>2, <2>1 DEF Holds
  <2>3. \A i \in 1 .. Len(d) : at + i <= Len(b) => b[at + i] # LF
    BY <1>4, DigitBytes
  <2>4. NewlineAfter(b, at) = IF at + Len(d) + 1 <= Len(b) THEN at + Len(d) + 1 ELSE 0
    BY <1>1, <1>3, <2>2, <2>3, NewlineIs
  <2>5. ASSUME at + Len(d) + 1 <= Len(b) PROVE Atoi(b, at) = n
    <3>1. at + Len(d) < Len(b) /\ b[at + Len(d) + 1] \notin DIGIT
      BY <1>1, <1>3, <2>2, <2>5, EndBytes
    <3> QED  BY <1>2, <3>1, AtoiReads DEF d
  <2> QED  BY <1>1, <2>1, <2>4, <2>5 DEF d
<1>6. CASE eol = <<CR, LF>>
  <2>1. Len(eol) = 2 /\ eol[1] = CR /\ eol[2] = LF  BY <1>6
  <2> PICK k \in Nat : k = Len(d) + 1  BY <1>1
  <2>2. /\ at + Len(d) + 1 <= Len(b) => b[at + Len(d) + 1] = CR
        /\ at + Len(d) + 2 <= Len(b) => b[at + Len(d) + 2] = LF
    BY <1>1, <1>2, <2>1 DEF Holds
  <2>3. \A i \in 1 .. k : at + i <= Len(b) => b[at + i] # LF
    <3> SUFFICES ASSUME NEW i \in 1 .. k, at + i <= Len(b) PROVE b[at + i] # LF
      OBVIOUS
    <3>1. CASE i \in 1 .. Len(d)  BY <1>4, <3>1, DigitBytes
    <3>2. CASE i \notin 1 .. Len(d)
      <4> PICK l \in Nat : l = Len(d)  BY <1>1
      <4>0. i = l + 1  BY <3>2
      <4>1. at + i = at + Len(d) + 1  BY <4>0
      <4> QED  BY <2>2, <4>1, EndBytes
    <3> QED  BY <3>1, <3>2
  <2>4. at + k + 1 = at + Len(d) + 2  BY <1>1
  <2>5. NewlineAfter(b, at) = IF at + k + 1 <= Len(b) THEN at + k + 1 ELSE 0
    BY <1>1, <1>3, <2>2, <2>3, <2>4, NewlineIs
  <2>6. ASSUME at + k + 1 <= Len(b) PROVE Atoi(b, at) = n
    <3>1. at + Len(d) < Len(b) /\ b[at + Len(d) + 1] \notin DIGIT
      BY <1>1, <1>3, <2>2, <2>4, <2>6, EndBytes
    <3> QED  BY <1>2, <3>1, AtoiReads DEF d
  <2>7. at + Len(d) + Len(eol) = at + k + 1  BY <1>1, <2>1, <2>4
  <2> QED  BY <2>5, <2>6, <2>7 DEF d
<1> QED  BY <1>5, <1>6 DEF Eols

-----------------------------------------------------------------------------
\* The newline after a body, once all of it is there.
LEMMA EolReads ==
  ASSUME NEW b \in Seq(Nat), NEW at \in 0 .. Len(b), NEW eol \in Eols, Holds(b, at, eol)
  PROVE  AfterNewline(b, at) = IF at + Len(eol) <= Len(b) THEN at + Len(eol) ELSE 0
<1>1. Len(b) \in Nat /\ at \in Nat  OBVIOUS
<1>2. CASE eol = <<LF>>
  <2>1. Len(eol) = 1 /\ eol[1] = LF  BY <1>2
  <2>2. at + 1 <= Len(b) => b[at + 1] = LF  BY <2>1 DEF Holds
  <2> QED  BY <1>1, <2>1, <2>2, EndBytes DEF AfterNewline
<1>3. CASE eol = <<CR, LF>>
  <2>1. Len(eol) = 2 /\ eol[1] = CR /\ eol[2] = LF  BY <1>3
  <2>2. /\ at + 1 <= Len(b) => b[at + 1] = CR
        /\ at + 2 <= Len(b) => b[at + 2] = LF
    BY <2>1 DEF Holds
  <2> QED  BY <1>1, <2>1, <2>2, EndBytes DEF AfterNewline
<1> QED  BY <1>2, <1>3 DEF Eols

\* The newline after a body moves on, or is not found.
LEMMA AfterNewlineType ==
  ASSUME NEW b \in Seq(Nat), NEW at \in 0 .. Len(b)
  PROVE  AfterNewline(b, at) \in {0} \cup (at + 1 .. Len(b))
BY DEF AfterNewline

\* What recv() can return of bytes whatever they are.
Results == {NotReady, BadFormat} \cup
           [kind : {"packet"}, bodies : Seq(Seq(Nat)), consumed : Nat]

\* A packet of any bodies is a result.
LEMMA PacketType ==
  ASSUME NEW bs \in Seq(Seq(Nat)), NEW n \in Nat
  PROVE  Packet(bs, n) \in Results
BY DEF Results, Packet

\* One turn gives a result, or a record further on.
LEMMA TurnType ==
  ASSUME NEW b \in Seq(Nat), NEW x \in 0 .. Len(b)
  PROVE  IF Turn(b, x).kind = "record"
         THEN Turn(b, x).body \in Seq(Nat) /\ Turn(b, x).next \in x + 1 .. Len(b)
         ELSE Turn(b, x) \in Results
<1> DEFINE eoh    == NewlineAfter(b, x)
           header == SubSeq(b, x + 1, eoh - 1)
           end    == eoh + Atoi(b, x)
           next   == AfterNewline(b, end)
<1>1. eoh = 0 \/ eoh \in x + 1 .. Len(b)
  <2>1. Len(b) \in Nat /\ x \in Nat  OBVIOUS
  <2> QED  BY <2>1, NewlineFacts
<1>2. Atoi(b, x) \in Nat  BY AtoiType
<1>3. Len(b) \in Nat  OBVIOUS
<1>4. ASSUME eoh # 0, end <= Len(b), next # 0
      PROVE  next \in x + 1 .. Len(b) /\ SubSeq(b, eoh + 1, end) \in Seq(Nat)
  <2>1. end \in 0 .. Len(b) /\ end >= x + 1 /\ eoh \in Nat  BY <1>1, <1>2, <1>3, <1>4
  <2> HIDE DEF eoh, end
  <2>2. next \in end + 1 .. Len(b)  BY <1>4, <2>1, AfterNewlineType
  <2> QED  BY <1>3, <2>1, <2>2
<1>5. Turn(b, x) = IF eoh = 0 THEN NotReady
      ELSE IF header \in {<<>>, <<CR>>} THEN Packet(<<>>, eoh)
      ELSE IF header[1] \notin DIGIT \/ Len(header) > 18 THEN BadFormat
      ELSE IF end > Len(b) \/ next = 0 THEN NotReady
      ELSE IF Exceeds(next) THEN BadFormat
      ELSE [kind |-> "record", body |-> SubSeq(b, eoh + 1, end), next |-> next]
  BY DEF Turn
<1>6. eoh # 0 => Packet(<<>>, eoh) \in Results
  <2>1. eoh # 0 => eoh \in Nat  BY <1>1
  <2>2. <<>> \in Seq(Seq(Nat))  OBVIOUS
  <2> HIDE DEF eoh
  <2> QED  BY <2>1, <2>2, PacketType
<1>7. end > Len(b) \/ end <= Len(b)
  <2>1. end \in Int  BY <1>1, <1>2, <1>3
  <2> QED  BY <1>3, <2>1
<1> HIDE DEF eoh, header, end, next
<1>8. CASE Turn(b, x).kind = "record"
  <2>1. /\ eoh # 0 /\ ~(end > Len(b)) /\ next # 0
        /\ Turn(b, x) = [kind |-> "record", body |-> SubSeq(b, eoh + 1, end), next |-> next]
    BY <1>5, <1>8 DEF NotReady, BadFormat, Packet
  <2> QED  BY <1>4, <1>7, <1>8, <2>1
<1>9. CASE Turn(b, x).kind # "record"
  <2>1. Turn(b, x) \in {NotReady, BadFormat} \/ (eoh # 0 /\ Turn(b, x) = Packet(<<>>, eoh))
    BY <1>5, <1>9
  <2> QED  BY <1>6, <1>9, <2>1 DEF Results
<1> QED  BY <1>8, <1>9

\* ... and a result is one with a record before it.
LEMMA PrecededType ==
  ASSUME NEW body \in Seq(Nat), NEW r \in Results
  PROVE  Preceded(body, r) \in Results
<1>1. CASE r.kind = "packet"
  <2>1. PICK bs \in Seq(Seq(Nat)), n \in Nat : r = Packet(bs, n)
    <3>1. r \in [kind : {"packet"}, bodies : Seq(Seq(Nat)), consumed : Nat]
      BY <1>1 DEF Results, NotReady, BadFormat
    <3>2. r = Packet(r.bodies, r.consumed) /\ r.bodies \in Seq(Seq(Nat)) /\ r.consumed \in Nat
      BY <3>1 DEF Packet
    <3> QED  BY <3>2
  <2>2. r.bodies = bs /\ r.consumed = n  BY <2>1 DEF Packet
  <2>3. <<body>> \o bs \in Seq(Seq(Nat))
    <3>1. <<body>> \in Seq(Seq(Nat))  OBVIOUS
    <3> PICK T : T = Seq(Nat)  OBVIOUS
    <3>2. \A s \in Seq(T), t \in Seq(T) : s \o t \in Seq(T)  OBVIOUS
    <3> QED  BY <3>1, <3>2
  <2>4. Preceded(body, r) = Packet(<<body>> \o bs, n)  BY <1>1, <2>2 DEF Preceded
  <2> QED  BY <2>3, <2>4, PacketType
<1>2. CASE r.kind # "packet"  BY <1>2 DEF Preceded
<1> QED  BY <1>1, <1>2

\* recv() looks at the records one by one.
Scans(b, f) ==
  /\ SsdbRecv(b) = f[RunEnd(b, 0, BLANK)]
  /\ \A x \in 0 .. Len(b) :
       f[x] = IF Turn(b, x).kind = "record"
              THEN Preceded(Turn(b, x).body, f[Turn(b, x).next]) ELSE Turn(b, x)

\* The loop ends, because each record moves it on.
LEMMA ScanFacts ==
  ASSUME NEW b \in Seq(Nat)
  PROVE  \E f : Scans(b, f)
<1> DEFINE S == 0 .. Len(b)
           B == { x \in S : Turn(b, x).kind # "record" }
           c == [x \in S |-> Turn(b, x)]
           H == [x \in S |-> [r \in Results |-> Preceded(Turn(b, x).body, r)]]
           D == [x \in S |-> Turn(b, x).next]
           rank == [x \in S |-> Len(b) - x]
           Rec(f) == [x \in S |-> IF Turn(b, x).kind = "record"
                                  THEN Preceded(Turn(b, x).body, f[Turn(b, x).next])
                                  ELSE Turn(b, x)]
<1>1. rank \in [S -> Nat] /\ NotReady \in Results  BY DEF Results
<1>2. ASSUME NEW x \in S
      PROVE  IF x \in B THEN c[x] \in Results
             ELSE H[x] \in [Results -> Results] /\ D[x] \in S /\ rank[D[x]] < rank[x]
  <2>1. CASE x \in B  BY <2>1, TurnType
  <2>2. CASE x \notin B
    <3>1. Turn(b, x).body \in Seq(Nat) /\ Turn(b, x).next \in x + 1 .. Len(b)
      BY <2>2, TurnType
    <3>2. H[x] \in [Results -> Results]  BY <3>1, PrecededType
    <3>3. D[x] = Turn(b, x).next  OBVIOUS
    <3>4. D[x] \in S /\ rank[D[x]] < rank[x]
      <4> HIDE DEF D
      <4> QED  BY <3>1, <3>3
    <3> QED  BY <2>2, <3>2, <3>4
  <2> QED  BY <2>1, <2>2
<1>3. PICK f \in [S -> Results] : \A x \in S : Descends(f, x, B, c, H, D)
  <2> HIDE DEF S, B, c, H, D, rank
  <2> QED  BY <1>1, <1>2, RecRank
<1>4. f = Rec(f)
  <2>1. ASSUME NEW x \in S
        PROVE  f[x] = IF Turn(b, x).kind = "record"
                      THEN Preceded(Turn(b, x).body, f[Turn(b, x).next]) ELSE Turn(b, x)
    <3>1. Descends(f, x, B, c, H, D)  BY <1>3
    <3>2. CASE x \in B
      <4>1. f[x] = c[x]
        <5> HIDE DEF B, c, H, D
        <5> QED  BY <3>1, <3>2 DEF Descends
      <4> QED  BY <3>2, <4>1
    <3>3. CASE x \notin B
      <4>1. f[x] = H[x][f[D[x]]] /\ D[x] \in S /\ D[x] = Turn(b, x).next
        <5>1. f[x] = H[x][f[D[x]]] /\ D[x] \in S
          <6> HIDE DEF B, c, H, D
          <6> QED  BY <1>2, <3>1, <3>3 DEF Descends
        <5> QED  BY <5>1
      <4>2. f[D[x]] \in Results
        <5> HIDE DEF D
        <5> QED  BY <4>1
      <4>3. H[x][f[D[x]]] = Preceded(Turn(b, x).body, f[D[x]])
        <5> HIDE DEF D
        <5> QED  BY <4>2
      <4> HIDE DEF D, H
      <4> QED  BY <3>3, <4>1, <4>3
    <3> QED  BY <3>2, <3>3
  <2> HIDE DEF S
  <2> QED  BY <2>1
<1> DEFINE g == CHOOSE h : h = Rec(h)
<1>5. g = Rec(g)
  <2> HIDE DEF Rec
  <2> QED  BY <1>4
<1>6. SsdbRecv(b) = g[RunEnd(b, 0, BLANK)]  BY DEF SsdbRecv
<1> HIDE DEF g
<1>7. Scans(b, g)  BY <1>5, <1>6 DEF Scans
<1> QED  BY <1>7

-----------------------------------------------------------------------------
\* Bytes that are all there are read as they were sent.
LEMMA BodyReads ==
  ASSUME NEW b \in Seq(Nat), NEW at \in Nat, NEW body \in Seq(Nat), NEW end,
         Holds(b, at, body), end = at + Len(body), end <= Len(b)
  PROVE  SubSeq(b, at + 1, end) = body
<1>1. Len(b) \in Nat /\ Len(body) \in Nat  OBVIOUS
<1> PICK k \in Nat \ {0} : k = at + 1  OBVIOUS
<1>2. end \in k - 1 .. Len(b) /\ end - k + 1 = Len(body)  BY <1>1
<1> DEFINE s == SubSeq(b, k, end)
<1>3. s \in Seq(Nat) /\ Len(s) = Len(body) /\ \A i \in 1 .. Len(body) : s[i] = b[k + i - 1]
  BY <1>2, SubSeqFacts
<1> HIDE DEF s
<1>4. ASSUME NEW i \in 1 .. Len(s) PROVE s[i] = body[i]
  <2> PICK m \in Nat, n \in Nat : m = Len(body) /\ n = Len(b)  BY <1>1
  <2>0. i \in 1 .. m /\ at + m <= n  BY <1>3
  <2>1. i \in 1 .. Len(body) /\ k + i - 1 = at + i /\ at + i <= Len(b)  BY <2>0
  <2>2. b[at + i] = body[i]  BY <2>1 DEF Holds
  <2> QED  BY <1>3, <2>1, <2>2
<1>5. s = body  BY <1>3, <1>4, SameSeq
<1> QED  BY <1>5 DEF s

\* A record, as far as it has arrived.
LEMMA RecordTurn ==
  ASSUME NEW b \in Seq(Nat), NEW at \in 0 .. Len(b), NEW body \in Seq(Nat), NEW eol \in Eols,
         Holds(b, at, AppendRecord(eol, body)), NEW end, end = at + Len(AppendRecord(eol, body))
  PROVE  \/ /\ Turn(b, at) = [kind |-> "record", body |-> body, next |-> end]
            /\ end <= Len(b) /\ end <= MaxPacket
         \/ Turn(b, at) = NotReady /\ end > Len(b)
         \/ Turn(b, at) = BadFormat /\ end > MaxPacket
<1> DEFINE n == Len(body)
           d == Decimal[n]
<1>1. n \in Nat /\ Len(b) \in Nat /\ at \in Nat  OBVIOUS
<1> HIDE DEF n
<1>2. /\ d \in Seq(Nat) /\ Len(d) \in Nat /\ Len(d) >= 1
      /\ \A i \in 1 .. Len(d) : d[i] \in DIGIT
  BY <1>1, DecimalBytes
<1> HIDE DEF d
<1>3. eol \in Seq(Nat) /\ Len(eol) \in Nat /\ 1 <= Len(eol) /\ Len(eol) <= 2
  BY EolLength
<1>4. /\ AppendRecord(eol, body) = ((d \o eol) \o body) \o eol
      /\ Len(AppendRecord(eol, body)) = Len(d) + Len(eol) + n + Len(eol)
      /\ Len(d \o eol) = Len(d) + Len(eol) /\ Len((d \o eol) \o body) = Len(d) + Len(eol) + n
      /\ d \o eol \in Seq(Nat) /\ (d \o eol) \o body \in Seq(Nat)
  <2>1. AppendRecord(eol, body) = ((d \o eol) \o body) \o eol  BY DEF AppendRecord, d, n
  <2>2. d \o eol \in Seq(Nat) /\ Len(d \o eol) = Len(d) + Len(eol)  BY <1>2, <1>3, Appended
  <2>3. /\ (d \o eol) \o body \in Seq(Nat)
        /\ Len((d \o eol) \o body) = Len(d \o eol) + n
    BY <2>2, Appended DEF n
  <2>4. Len(((d \o eol) \o body) \o eol) = Len((d \o eol) \o body) + Len(eol)
    BY <2>3, <1>3, Appended
  <2> QED  BY <2>1, <2>2, <2>3, <2>4
<1> DEFINE h == at + Len(d) + Len(eol)
           e == h + n
<1>5. Holds(b, at, d \o eol) /\ Holds(b, h, body) /\ Holds(b, e, eol)
  <2>1. Holds(b, at, (d \o eol) \o body) /\ Holds(b, at + Len((d \o eol) \o body), eol)
    BY <1>1, <1>3, <1>4, HoldsParts
  <2>2. Holds(b, at, d \o eol) /\ Holds(b, at + Len(d \o eol), body)
    BY <1>1, <1>4, <2>1, HoldsParts
  <2>3. at + Len(d \o eol) = h /\ at + Len((d \o eol) \o body) = e
    BY <1>1, <1>2, <1>3, <1>4
  <2> QED  BY <2>1, <2>2, <2>3
<1>6. h \in Nat /\ e \in Nat /\ end = e + Len(eol) /\ h <= e /\ at + 1 < h /\ end \in Nat /\ e < end
      /\ h - 1 - at = Len(d) + Len(eol) - 1 /\ end > n
  <2> PICK l \in Nat, m \in Nat : l = Len(d) /\ m = Len(eol) /\ 1 <= m /\ m <= 2  BY <1>2, <1>3
  <2>1. h = at + l + m /\ e = at + l + m + n /\ end = at + (l + m + n + m) /\ l >= 1
    BY <1>2, <1>4
  <2>2. h - 1 - at = Len(d) + Len(eol) - 1  BY <2>1
  <2> HIDE DEF h, e
  <2> QED  BY <1>1, <2>1, <2>2
<1>7. /\ h <= Len(b) => NewlineAfter(b, at) = h /\ Atoi(b, at) = n
      /\ h > Len(b) => NewlineAfter(b, at) = 0
  <2>1. IF at + Len(d) + Len(eol) <= Len(b)
        THEN NewlineAfter(b, at) = at + Len(d) + Len(eol) /\ Atoi(b, at) = n
        ELSE NewlineAfter(b, at) = 0
    BY <1>1, <1>5, HeaderReads DEF d
  <2> QED  BY <1>1, <1>6, <2>1
<1> HIDE DEF h, e
<1>8. CASE h > Len(b)
  <2>1. Turn(b, at) = NotReady  BY <1>7, <1>8 DEF Turn
  <2> QED  BY <1>1, <1>3, <1>6, <1>8, <2>1
<1>9. CASE h <= Len(b)
  <2> DEFINE header == SubSeq(b, at + 1, h - 1)
  <2>1. header \in Seq(Nat) /\ Len(header) = Len(d) + Len(eol) - 1 /\ header[1] \in DIGIT
    <3> PICK k \in Nat \ {0} : k = at + 1  BY <1>1
    <3>1. h - 1 \in k - 1 .. Len(b) /\ (h - 1) - k + 1 = Len(d) + Len(eol) - 1
      BY <1>1, <1>6, <1>9
    <3>2. /\ SubSeq(b, k, h - 1) \in Seq(Nat)
          /\ Len(SubSeq(b, k, h - 1)) = (h - 1) - k + 1
          /\ \A i \in 1 .. (h - 1) - k + 1 : SubSeq(b, k, h - 1)[i] = b[k + i - 1]
      BY <3>1, SubSeqFacts
    <3>3. 1 \in 1 .. (h - 1) - k + 1 /\ k + 1 - 1 = at + 1  BY <1>2, <1>3, <3>1
    <3>4. b[at + 1] = d[1]
      <4>1. Holds(b, at, d)  BY <1>1, <1>2, <1>3, <1>5, HoldsParts
      <4>2. 1 \in 1 .. Len(d) /\ at + 1 <= Len(b)  BY <1>1, <1>2, <1>6, <1>9
      <4> QED  BY <4>1, <4>2 DEF Holds
    <3>5. d[1] \in DIGIT  BY <1>2
    <3> QED  BY <3>1, <3>2, <3>3, <3>4, <3>5
  <2> HIDE DEF header
  <2>2. header \notin {<<>>, <<CR>>}
    <3>1. Len(header) >= 1  BY <1>2, <1>3, <2>1
    <3>2. header # <<>>  BY <3>1
    <3>3. header # <<CR>>  BY <2>1, EndBytes
    <3> QED  BY <3>2, <3>3
  <2> DEFINE next == AfterNewline(b, e)
  <2>3. Turn(b, at) =
          IF Len(header) > 18 THEN BadFormat
          ELSE IF e > Len(b) \/ next = 0 THEN NotReady
          ELSE IF Exceeds(next) THEN BadFormat
          ELSE [kind |-> "record", body |-> SubSeq(b, h + 1, e), next |-> next]
    <3>1. NewlineAfter(b, at) = h /\ Atoi(b, at) = n /\ h # 0 /\ h + n = e
      BY <1>6, <1>7, <1>9 DEF e
    <3> QED  BY <2>1, <2>2, <3>1 DEF Turn, header
  <2>4. CASE Len(header) > 18
    <3>1. Len(d) > 9
      <4> PICK l \in Nat, m \in Nat : l = Len(d) /\ m = Len(eol) /\ 1 <= m /\ m <= 2  BY <1>2, <1>3
      <4>1. l + m - 1 > 18
        <5>1. Len(header) = l + m - 1  BY <2>1
        <5> QED  BY <2>4, <5>1
      <4>2. l > 9  BY <4>1
      <4> QED  BY <4>2
    <3>2. ~(n <= MaxPacket)  BY <1>1, <1>2, <3>1, FewDigits DEF d
    <3>3. end > MaxPacket  BY <1>1, <1>6, <3>2, FramingAssumption
    <3> QED  BY <2>3, <2>4, <3>3
  <2>5. CASE ~(Len(header) > 18)
    <3>1. CASE e > Len(b)
      <4>1. end > Len(b)  BY <1>1, <1>6, <3>1
      <4> QED  BY <2>3, <2>5, <3>1, <4>1
    <3>2. CASE ~(e > Len(b))
      <4>1. next = IF end <= Len(b) THEN end ELSE 0
        <5>1. e \in 0 .. Len(b) /\ end = e + Len(eol)  BY <1>1, <1>6, <3>2
        <5> QED  BY <1>5, <5>1, EolReads
      <4>2. SubSeq(b, h + 1, e) = body
        <5>1. e = h + Len(body) /\ e <= Len(b)  BY <1>1, <1>6, <3>2 DEF e, n
        <5> QED  BY <1>5, <1>6, <5>1, BodyReads
      <4> HIDE DEF next
      <4>3. CASE end <= Len(b)
        <5>1. next = end /\ next # 0  BY <1>6, <4>1, <4>3
        <5>2. CASE end > MaxPacket
          <6>1. Turn(b, at) = BadFormat  BY <2>3, <2>5, <3>2, <5>1, <5>2 DEF Exceeds
          <6> QED  BY <5>2, <6>1
        <5>3. CASE ~(end > MaxPacket)
          <6>1. Turn(b, at) = [kind |-> "record", body |-> body, next |-> end]
            BY <2>3, <2>5, <3>2, <4>2, <5>1, <5>3 DEF Exceeds
          <6>2. end <= MaxPacket  BY <1>6, <5>3, FramingAssumption
          <6> QED  BY <4>3, <6>1, <6>2
        <5> QED  BY <5>2, <5>3
      <4>4. CASE ~(end <= Len(b))
        <5>1. next = 0 /\ end > Len(b)  BY <1>1, <1>6, <4>1, <4>4
        <5> QED  BY <2>3, <2>5, <5>1
      <4> QED  BY <4>3, <4>4
    <3> QED  BY <3>1, <3>2
  <2> QED  BY <2>4, <2>5
<1> QED  BY <1>1, <1>6, <1>8, <1>9

\* The blank line that ends a packet.
LEMMA LastTurn ==
  ASSUME NEW b \in Seq(Nat), NEW at \in 0 .. Len(b), NEW eol \in Eols, Holds(b, at, eol),
         NEW end, end = at + Len(eol)
  PROVE  \/ Turn(b, at) = Packet(<<>>, end) /\ end <= Len(b)
         \/ Turn(b, at) = NotReady /\ end > Len(b)
<1>1. Len(b) \in Nat /\ at \in Nat  OBVIOUS
<1>2. CASE eol = <<LF>>
  <2>1. Len(eol) = 1 /\ eol[1] = LF  BY <1>2
  <2> PICK z \in Nat : z = 0  OBVIOUS
  <2>2. at + z + 1 <= Len(b) => b[at + z + 1] = LF  BY <2>1 DEF Holds
  <2>3. NewlineAfter(b, at) = IF at + z + 1 <= Len(b) THEN at + z + 1 ELSE 0
    <3>1. \A i \in 1 .. z : at + i <= Len(b) => b[at + i] # LF  OBVIOUS
    <3> QED  BY <1>1, <2>2, <3>1, NewlineIs
  <2>4. NewlineAfter(b, at) = IF end <= Len(b) THEN end ELSE 0  BY <2>1, <2>3
  <2>5. end <= Len(b) => SubSeq(b, at + 1, end - 1) = <<>>
    BY <1>1, <2>1
  <2>6. end # 0  BY <2>1
  <2>7. CASE end <= Len(b)  BY <2>4, <2>5, <2>6, <2>7 DEF Turn
  <2>8. CASE ~(end <= Len(b))
    <3>1. end > Len(b)  BY <1>1, <2>1, <2>8
    <3> QED  BY <2>4, <2>8, <3>1 DEF Turn
  <2> QED  BY <2>7, <2>8
<1>3. CASE eol = <<CR, LF>>
  <2>1. Len(eol) = 2 /\ eol[1] = CR /\ eol[2] = LF  BY <1>3
  <2> PICK k \in Nat : k = 1  OBVIOUS
  <2>2. /\ at + 1 <= Len(b) => b[at + 1] = CR
        /\ at + 2 <= Len(b) => b[at + 2] = LF
    BY <2>1 DEF Holds
  <2>3. NewlineAfter(b, at) = IF at + k + 1 <= Len(b) THEN at + k + 1 ELSE 0
    <3>1. at + k + 1 = at + 2 /\ \A i \in 1 .. k : at + i = at + 1  OBVIOUS
    <3>2. \A i \in 1 .. k : at + i <= Len(b) => b[at + i] # LF
      BY <2>2, <3>1, EndBytes
    <3> QED  BY <1>1, <2>2, <3>1, <3>2, NewlineIs
  <2>4. NewlineAfter(b, at) = IF end <= Len(b) THEN end ELSE 0  BY <2>1, <2>3
  <2>5. end <= Len(b) => SubSeq(b, at + 1, end - 1) = <<CR>>
    <3> SUFFICES ASSUME end <= Len(b) PROVE SubSeq(b, at + 1, end - 1) = <<CR>>
      OBVIOUS
    <3>1. Holds(b, at, <<CR>>)
      <4>1. <<CR>> \in Seq(Nat) /\ <<LF>> \in Seq(Nat) /\ eol = <<CR>> \o <<LF>>
        BY <1>3, EndBytes
      <4> PICK s \in Seq(Nat), t \in Seq(Nat) : s = <<CR>> /\ t = <<LF>>  BY <4>1
      <4>2. Holds(b, at, s \o t)  BY <4>1
      <4>3. Holds(b, at, s)  BY <1>1, <4>2, HoldsParts
      <4> QED  BY <4>3
    <3>4. <<CR>> \in Seq(Nat) /\ Len(<<CR>>) = 1  BY EndBytes
    <3> PICK s \in Seq(Nat) : s = <<CR>> /\ Len(s) = 1  BY <3>4
    <3> PICK e \in Nat : e = end - 1  BY <2>1
    <3>2. Holds(b, at, s) /\ e = at + Len(s) /\ e <= Len(b)  BY <1>1, <2>1, <3>1
    <3>3. SubSeq(b, at + 1, e) = s  BY <1>1, <3>2, BodyReads
    <3> QED  BY <3>3
  <2>6. end # 0  BY <2>1
  <2>7. CASE end <= Len(b)  BY <2>4, <2>5, <2>6, <2>7 DEF Turn
  <2>8. CASE ~(end <= Len(b))
    <3>1. end > Len(b)  BY <1>1, <2>1, <2>8
    <3> QED  BY <2>4, <2>8, <3>1 DEF Turn
  <2> QED  BY <2>7, <2>8
<1> QED  BY <1>2, <1>3 DEF Eols

-----------------------------------------------------------------------------
\* A part s of e that lies after its first u elements.
LEMMA HoldsInside ==
  ASSUME NEW b, NEW at \in Nat, NEW e, NEW s, NEW u \in Nat, Holds(b, at, e),
         Len(e) \in Nat, Len(s) \in Nat, u + Len(s) <= Len(e),
         \A j \in 1 .. Len(s) : e[u + j] = s[j]
  PROVE  Holds(b, at + u, s)
<1> SUFFICES ASSUME NEW j \in 1 .. Len(s), (at + u) + j <= Len(b)
             PROVE  b[(at + u) + j] = s[j]
  BY DEF Holds
<1>1. u + j \in 1 .. Len(e) /\ (at + u) + j = at + (u + j)  OBVIOUS
<1>2. b[at + (u + j)] = e[u + j]  BY <1>1 DEF Holds
<1> QED  BY <1>1, <1>2

\* What holds of the whole holds of each piece.
LEMMA HoldsPiece ==
  ASSUME NEW T, NEW seqs \in Seq(Seq(T)), NEW P, Laid(seqs, P), NEW b, NEW at \in Nat,
         Holds(b, at, FlattenSeq(seqs)), NEW i \in 1 .. Len(seqs)
  PROVE  Holds(b, at + P[i - 1], seqs[i])
<1> DEFINE n == Len(seqs)
           e == FlattenSeq(seqs)
<1>1. n \in Nat /\ i \in 1 .. n /\ i - 1 \in 0 .. n /\ i \in 0 .. n /\ n \in 0 .. n
  OBVIOUS
<1>2. Len(seqs[i]) \in Nat
  <2>1. seqs[i] \in Seq(T)  BY Element
  <2> QED  BY <2>1
<1>3. /\ P[i - 1] \in Nat /\ P[i] \in Nat /\ P[n] \in Nat /\ P[i] = P[i - 1] + Len(seqs[i])
      /\ \A j \in 1 .. Len(seqs[i]) : e[P[i - 1] + j] = seqs[i][j]
      /\ Len(e) = P[n]
  <2> HIDE DEF n, e
  <2>1. P \in [0 .. n -> Nat]  BY DEF Laid, n
  <2> QED  BY <1>1, <2>1 DEF Laid, n, e
<1>4. P[i] <= P[n]  BY <1>1, LaidInOrder
<1> HIDE DEF n, e
<1>5. P[i - 1] + Len(seqs[i]) <= Len(e) /\ Len(e) \in Nat  BY <1>3, <1>4
<1>6. Holds(b, at, e)  BY DEF e
<1> QED  BY <1>2, <1>3, <1>5, <1>6, HoldsInside

\* The records of a packet.
Records(eol, bodies) == [i \in 1 .. Len(bodies) |-> AppendRecord(eol, bodies[i])]

\* Each of them is bytes: a length line, a body and a newline.
LEMMA RecordsType ==
  ASSUME NEW eol \in Eols, NEW bodies \in Seq(Seq(Nat))
  PROVE  /\ Records(eol, bodies) \in Seq(Seq(Nat)) /\ Len(Records(eol, bodies)) = Len(bodies)
         /\ \A i \in 1 .. Len(bodies) : /\ AppendRecord(eol, bodies[i]) \in Seq(Nat)
                                        /\ Records(eol, bodies)[i] = AppendRecord(eol, bodies[i])
<1>1. ASSUME NEW i \in 1 .. Len(bodies) PROVE AppendRecord(eol, bodies[i]) \in Seq(Nat)
  <2>1. bodies[i] \in Seq(Nat)  BY Element
  <2>2. Len(bodies[i]) \in Nat  BY <2>1
  <2> DEFINE d == Decimal[Len(bodies[i])]
  <2>3. d \in Seq(Nat)  BY <2>2, DecimalBytes
  <2>4. eol \in Seq(Nat)  BY EolBytes
  <2> HIDE DEF d
  <2>5. d \o eol \in Seq(Nat)  BY <2>3, <2>4, Appended
  <2>6. (d \o eol) \o bodies[i] \in Seq(Nat)  BY <2>1, <2>5, Appended
  <2>7. ((d \o eol) \o bodies[i]) \o eol \in Seq(Nat)  BY <2>4, <2>6, Appended
  <2> QED  BY <2>7 DEF AppendRecord, d
<1>2. Len(bodies) \in Nat  OBVIOUS
<1> DEFINE n == Len(bodies)
<1> HIDE DEF n
<1>3. [i \in 1 .. n |-> AppendRecord(eol, bodies[i])] \in Seq(Seq(Nat))
  <2>1. [i \in 1 .. n |-> AppendRecord(eol, bodies[i])] \in [1 .. n -> Seq(Nat)]
    BY <1>1 DEF n
  <2>2. n \in Nat BY <1>2 DEF n
  <2> QED  BY <2>1, <2>2
<1>4. /\ Records(eol, bodies) \in Seq(Seq(Nat)) /\ Len(Records(eol, bodies)) = n
      /\ \A i \in 1 .. n : Records(eol, bodies)[i] = AppendRecord(eol, bodies[i])
  BY <1>2, <1>3 DEF Records, n
<1> QED  BY <1>1, <1>4 DEF n

\* The first records of a packet lie where a packet of them alone has them.
LEMMA SendFirst ==
  ASSUME NEW eol \in Eols, NEW bodies \in Seq(Seq(Nat)), NEW i \in 0 .. Len(bodies),
         NEW P, Laid(Records(eol, bodies), P)
  PROVE  Len(Send(eol, SubSeq(bodies, 1, i))) = P[i] + Len(eol)
<1> DEFINE r == Records(eol, bodies)
           c == SubSeq(bodies, 1, i)
           t == SubSeq(r, 1, i)
<1>1. /\ r \in Seq(Seq(Nat)) /\ Len(r) = Len(bodies) /\ Len(bodies) \in Nat
      /\ \A k \in 1 .. Len(bodies) : r[k] = AppendRecord(eol, bodies[k])
  BY RecordsType
<1>2. c \in Seq(Seq(Nat)) /\ Len(c) = i /\ \A k \in 1 .. i : c[k] = bodies[k]
  BY FirstOnes
<1>3. t \in Seq(Seq(Nat)) /\ Len(t) = i /\ \A k \in 1 .. i : t[k] = r[k]
  <2> HIDE DEF r
  <2> QED  BY <1>1, FirstOnes
<1>4. P[i] = Len(FlattenSeq(t))  BY <1>1 DEF Laid
<1>5. Send(eol, c) = FlattenSeq(Records(eol, c)) \o eol  BY DEF Send, Records
<1> HIDE DEF r, c, t
<1>6. Records(eol, c) = t
  <2>1. /\ Records(eol, c) \in Seq(Seq(Nat)) /\ Len(Records(eol, c)) = Len(c)
        /\ \A k \in 1 .. Len(c) : Records(eol, c)[k] = AppendRecord(eol, c[k])
    BY <1>2, RecordsType
  <2>2. ASSUME NEW k \in 1 .. i PROVE Records(eol, c)[k] = t[k]
    <3>1. k \in 1 .. Len(c) /\ k \in 1 .. Len(bodies)  BY <1>1, <1>2
    <3>2. Records(eol, c)[k] = AppendRecord(eol, bodies[k])  BY <1>2, <2>1, <3>1
    <3>3. t[k] = AppendRecord(eol, bodies[k])  BY <1>1, <1>3, <3>1
    <3> QED  BY <3>2, <3>3
  <2> DEFINE u == Records(eol, c)
  <2> HIDE DEF u
  <2>3. u \in Seq(Seq(Nat)) /\ Len(u) = Len(t) /\ \A k \in 1 .. Len(u) : u[k] = t[k]
    BY <1>2, <1>3, <2>1, <2>2 DEF u
  <2>4. u = t  BY <1>3, <2>3, SameSeq
  <2> QED  BY <2>4 DEF u
<1>7. FlattenSeq(t) \in Seq(Nat) /\ eol \in Seq(Nat)  BY <1>3, FlattenType, EolBytes
<1>8. Len(FlattenSeq(t) \o eol) = Len(FlattenSeq(t)) + Len(eol)  BY <1>7, Appended
<1> QED  BY <1>4, <1>5, <1>6, <1>8 DEF c

-----------------------------------------------------------------------------
\* What recv() makes of the records from the i-th on, R[i] the end of the i-th.
Scanned(b, bodies, R, end, r, i) ==
  \/ /\ r = Packet(SubSeq(bodies, i + 1, Len(bodies)), end) /\ end <= Len(b)
     /\ \A j \in i + 1 .. Len(bodies) : R[j] <= MaxPacket
  \/ r = NotReady /\ end > Len(b)
  \/ r = BadFormat /\ \E j \in i + 1 .. Len(bodies) : R[j] > MaxPacket

\* The bodies from the i-th on: the i-th, and those after it.
LEMMA OneMoreRecord ==
  ASSUME NEW T, NEW s \in Seq(T), NEW i \in 1 .. Len(s)
  PROVE  <<s[i]>> \o SubSeq(s, i + 1, Len(s)) = SubSeq(s, (i - 1) + 1, Len(s))
<1>1. Len(s) \in Nat /\ i \in Nat \ {0} /\ i + 1 \in Nat \ {0}
      /\ Len(s) \in i - 1 .. Len(s) /\ Len(s) \in (i + 1) - 1 .. Len(s)
  OBVIOUS
<1> DEFINE a == SubSeq(s, i, Len(s))
           c == SubSeq(s, i + 1, Len(s))
<1>2. /\ a \in Seq(T) /\ Len(a) = Len(s) - i + 1
      /\ \A k \in 1 .. Len(s) - i + 1 : a[k] = s[i + k - 1]
  BY <1>1, SubSeqFacts
<1>3. /\ c \in Seq(T) /\ Len(c) = Len(s) - (i + 1) + 1
      /\ \A k \in 1 .. Len(s) - (i + 1) + 1 : c[k] = s[(i + 1) + k - 1]
  BY <1>1, SubSeqFacts
<1> HIDE DEF a, c
<1>4. s[i] \in T  OBVIOUS
<1> DEFINE d == <<s[i]>> \o c
<1>5. /\ d \in Seq(T) /\ Len(d) = 1 + Len(c) /\ d[1] = s[i]
      /\ \A k \in 2 .. Len(c) + 1 : d[k] = c[k - 1]
  BY <1>3, <1>4
<1> HIDE DEF d
<1>6. Len(d) = Len(a)  BY <1>1, <1>2, <1>3, <1>5
<1>7. ASSUME NEW k \in 1 .. Len(d) PROVE d[k] = a[k]
  <2>1. k \in 1 .. Len(s) - i + 1 /\ i \in Nat /\ Len(s) \in Nat
    BY <1>1, <1>2, <1>6
  <2>2. CASE k = 1
    <3>1. i + k - 1 = i  BY <2>2
    <3> QED  BY <1>2, <1>5, <2>1, <2>2, <3>1
  <2>3. CASE k # 1
    <3>1. k \in 2 .. Len(c) + 1 /\ k - 1 \in 1 .. Len(s) - (i + 1) + 1
          /\ (i + 1) + (k - 1) - 1 = i + k - 1
      BY <1>1, <1>3, <2>1, <2>3
    <3>2. d[k] = s[(i + 1) + (k - 1) - 1]  BY <1>3, <1>5, <3>1
    <3> QED  BY <1>2, <2>1, <3>1, <3>2
  <2> QED  BY <2>2, <2>3
<1>8. d = a  BY <1>2, <1>5, <1>6, <1>7, SameSeq
<1>9. (i - 1) + 1 = i  OBVIOUS
<1> QED  BY <1>8, <1>9 DEF a, c, d

\* One record more in front.
LEMMA ScanStep ==
  ASSUME NEW b \in Seq(Nat), NEW bodies \in Seq(Seq(Nat)), NEW R \in [0 .. Len(bodies) -> Nat],
         NEW end \in Nat, \A j \in 1 .. Len(bodies) : R[j] <= end,
         NEW f, Scans(b, f), NEW i \in 1 .. Len(bodies), R[i - 1] <= Len(b),
         \/ /\ Turn(b, R[i - 1]) = [kind |-> "record", body |-> bodies[i], next |-> R[i]]
            /\ R[i] <= Len(b) /\ R[i] <= MaxPacket
         \/ Turn(b, R[i - 1]) = NotReady /\ R[i] > Len(b)
         \/ Turn(b, R[i - 1]) = BadFormat /\ R[i] > MaxPacket,
         R[i] <= Len(b) => Scanned(b, bodies, R, end, f[R[i]], i)
  PROVE  Scanned(b, bodies, R, end, f[R[i - 1]], i - 1)
<1> DEFINE n == Len(bodies)
<1>1. n \in Nat /\ i - 1 \in 0 .. n /\ i \in 0 .. n /\ (i - 1) + 1 = i /\ i \in i .. n
      /\ Len(b) \in Nat
  OBVIOUS
<1> HIDE DEF n
<1>2. R[i - 1] \in 0 .. Len(b) /\ R[i] \in Nat /\ R[i] <= end
  <2>1. R[i - 1] \in Nat /\ R[i] \in Nat  BY <1>1 DEF n
  <2>2. R[i] <= end  OBVIOUS
  <2> PICK x \in Nat : x = R[i - 1]  BY <2>1
  <2>3. x \in 0 .. Len(b)  BY <1>1
  <2> QED  BY <2>1, <2>2, <2>3
<1>3. f[R[i - 1]] = IF Turn(b, R[i - 1]).kind = "record"
                    THEN Preceded(Turn(b, R[i - 1]).body, f[Turn(b, R[i - 1]).next])
                    ELSE Turn(b, R[i - 1])
  BY <1>2 DEF Scans
<1>4. CASE /\ Turn(b, R[i - 1]) = [kind |-> "record", body |-> bodies[i], next |-> R[i]]
           /\ R[i] <= Len(b) /\ R[i] <= MaxPacket
  <2>1. f[R[i - 1]] = Preceded(bodies[i], f[R[i]])  BY <1>3, <1>4
  <2>2. Scanned(b, bodies, R, end, f[R[i]], i)  BY <1>4
  <2>3. CASE /\ f[R[i]] = Packet(SubSeq(bodies, i + 1, n), end) /\ end <= Len(b)
             /\ \A j \in i + 1 .. n : R[j] <= MaxPacket
    <3>1. Preceded(bodies[i], f[R[i]]) = Packet(<<bodies[i]>> \o SubSeq(bodies, i + 1, n), end)
      BY <2>3 DEF Preceded, Packet
    <3>2. f[R[i - 1]] = Packet(SubSeq(bodies, (i - 1) + 1, n), end)
      BY <2>1, <3>1, OneMoreRecord DEF n
    <3>3. \A j \in (i - 1) + 1 .. n : R[j] <= MaxPacket
      <4>1. \A j \in (i - 1) + 1 .. n : j = i \/ j \in i + 1 .. n  BY <1>1
      <4> QED  BY <1>4, <2>3, <4>1
    <3> QED  BY <2>3, <3>2, <3>3 DEF Scanned, n
  <2>4. CASE f[R[i]] = NotReady /\ end > Len(b)
    <3>1. f[R[i - 1]] = NotReady  BY <2>1, <2>4 DEF Preceded, NotReady
    <3> QED  BY <2>4, <3>1 DEF Scanned
  <2>5. CASE f[R[i]] = BadFormat /\ \E j \in i + 1 .. n : R[j] > MaxPacket
    <3>1. f[R[i - 1]] = BadFormat  BY <2>1, <2>5 DEF Preceded, BadFormat
    <3>2. \E j \in (i - 1) + 1 .. n : R[j] > MaxPacket
      <4>1. \A j \in i + 1 .. n : j \in (i - 1) + 1 .. n  BY <1>1
      <4> QED  BY <2>5, <4>1
    <3> QED  BY <3>1, <3>2 DEF Scanned, n
  <2> QED  BY <2>2, <2>3, <2>4, <2>5 DEF Scanned, n
<1>5. CASE Turn(b, R[i - 1]) = NotReady /\ R[i] > Len(b)
  <2>1. f[R[i - 1]] = NotReady  BY <1>3, <1>5 DEF NotReady
  <2>2. end > Len(b)  BY <1>1, <1>2, <1>5
  <2> QED  BY <2>1, <2>2 DEF Scanned
<1>6. CASE Turn(b, R[i - 1]) = BadFormat /\ R[i] > MaxPacket
  <2>1. f[R[i - 1]] = BadFormat  BY <1>3, <1>6 DEF BadFormat
  <2>2. i \in (i - 1) + 1 .. n  BY <1>1
  <2> QED  BY <1>6, <2>1, <2>2 DEF Scanned, n
<1> QED  BY <1>4, <1>5, <1>6

\* Nothing of a packet at all.
LEMMA EndTurn ==
  ASSUME NEW b \in Seq(Nat)
  PROVE  Turn(b, Len(b)) = NotReady
<1> PICK n \in Nat : n = Len(b)  OBVIOUS
<1>1. NewlineAfter(b, n) = 0
  <2>1. Len(b) \in Nat /\ ~(NewlineAfter(b, n) \in n + 1 .. Len(b))  OBVIOUS
  <2> QED  BY <2>1, NewlineFacts
<1> QED  BY <1>1 DEF Turn

\* A packet begins with its blank lines, then a digit.
LEMMA LeadReads ==
  ASSUME NEW b \in Seq(Nat), NEW lead \in Seq(BLANK), NEW eol \in Eols,
         NEW bodies \in Seq(Seq(Nat)), bodies # <<>>,
         Holds(b, 0, lead \o Send(eol, bodies))
  PROVE  /\ Holds(b, 0, lead)
         /\ Len(lead) + 1 <= Len(b) => b[Len(lead) + 1] \in DIGIT
<1> DEFINE r == Records(eol, bodies)
<1>1. 1 \in 1 .. Len(bodies) /\ 1 - 1 = 0  OBVIOUS
<1>2. /\ r \in Seq(Seq(Nat)) /\ Len(r) = Len(bodies) /\ bodies[1] \in Seq(Nat)
      /\ r[1] = AppendRecord(eol, bodies[1])
  BY <1>1, RecordsType, Element
<1>3. Send(eol, bodies) = FlattenSeq(r) \o eol  BY DEF Send, Records
<1> HIDE DEF r
<1>4. FlattenSeq(r) \in Seq(Nat) /\ eol \in Seq(Nat)  BY <1>2, FlattenType, EolLength
<1>5. lead \in Seq(Nat)
  <2>1. BLANK \subseteq Nat  BY DEF BLANK, LF, CR
  <2> QED  BY <2>1, WiderSeq
<1> PICK lp \in Nat : lp = Len(lead)  BY <1>5
<1>6. Holds(b, 0, lead) /\ Holds(b, lp, FlattenSeq(r))
  <2> DEFINE fl == FlattenSeq(r)
  <2> HIDE DEF fl
  <2>1. fl \o eol \in Seq(Nat)  BY <1>4, Appended DEF fl
  <2> PICK z \in Nat : z = 0  OBVIOUS
  <2>2. Holds(b, z, lead \o (fl \o eol))  BY <1>3 DEF fl
  <2>3. Holds(b, z, lead) /\ Holds(b, z + Len(lead), fl \o eol)
    BY <1>5, <2>1, <2>2, HoldsParts
  <2>4. Holds(b, lp, fl \o eol)  BY <2>3
  <2>5. Holds(b, lp, fl)  BY <1>4, <2>4, HoldsParts DEF fl
  <2> QED  BY <2>3, <2>5 DEF fl
<1> SUFFICES ASSUME lp + 1 <= Len(b) PROVE b[lp + 1] \in DIGIT
  BY <1>6
<1> PICK P : Laid(r, P)  BY <1>2, FlattenLaid
<1> DEFINE d == Decimal[Len(bodies[1])]
<1>7. d \in Seq(Nat) /\ Len(d) >= 1 /\ Len(d) \in Nat /\ \A i \in 1 .. Len(d) : d[i] \in DIGIT
  <2> PICK n \in Nat : n = Len(bodies[1])  BY <1>2
  <2> QED  BY DecimalBytes
<1>8. Holds(b, lp, AppendRecord(eol, bodies[1]))
  <2>1. Holds(b, lp + P[1 - 1], r[1])  BY <1>1, <1>2, <1>6, HoldsPiece
  <2>2. lp + P[1 - 1] = lp  BY <1>1 DEF Laid
  <2> QED  BY <1>2, <2>1, <2>2
<1> HIDE DEF d
<1>9. Holds(b, lp, d)
  <2>1. AppendRecord(eol, bodies[1]) = ((d \o eol) \o bodies[1]) \o eol
    BY DEF AppendRecord, d
  <2>2. d \o eol \in Seq(Nat)  BY <1>4, <1>7, Appended
  <2>3. (d \o eol) \o bodies[1] \in Seq(Nat)  BY <1>2, <2>2, Appended
  <2>4. Holds(b, lp, (d \o eol) \o bodies[1])  BY <1>4, <1>8, <2>1, <2>3, HoldsParts
  <2>5. Holds(b, lp, d \o eol)  BY <1>2, <2>2, <2>4, HoldsParts
  <2> QED  BY <1>4, <1>7, <2>5, HoldsParts
<1>10. b[lp + 1] = d[1]  BY <1>7, <1>9 DEF Holds
<1>11. d[1] \in DIGIT  BY <1>7
<1> QED  BY <1>10, <1>11

(* A packet of any bodies is taken whole and unaltered once all of it is   *)
(* there, waited for until then, and refused for nothing but its size,     *)
(* however much of it has arrived (link.cpp:275-350).                      *)
THEOREM SsdbReads ==
  ASSUME NEW b \in Seq(Nat), NEW lead \in Seq(BLANK), NEW eol \in Eols,
         NEW bodies \in Seq(Seq(Nat)), bodies # <<>>,
         NEW e, e = lead \o Send(eol, bodies), Holds(b, 0, e)
  PROVE  LET over == \E i \in 1 .. Len(bodies) :
                       Len(lead) + Len(Send(eol, SubSeq(bodies, 1, i))) - Len(eol) > MaxPacket
         IN  \/ SsdbRecv(b) = Packet(bodies, Len(e)) /\ Len(e) <= Len(b) /\ ~over
             \/ SsdbRecv(b) = NotReady /\ Len(e) > Len(b)
             \/ SsdbRecv(b) = BadFormat /\ over
<1> DEFINE over == \E i \in 1 .. Len(bodies) :
                     Len(lead) + Len(Send(eol, SubSeq(bodies, 1, i))) - Len(eol) > MaxPacket
           n == Len(bodies)
           r == Records(eol, bodies)
           end == Len(e)
<1>1. n \in Nat /\ n >= 1 /\ Len(b) \in Nat  OBVIOUS
<1>2. /\ r \in Seq(Seq(Nat)) /\ Len(r) = n
      /\ \A i \in 1 .. n : r[i] = AppendRecord(eol, bodies[i]) /\ r[i] \in Seq(Nat)
                           /\ bodies[i] \in Seq(Nat)
  BY RecordsType, Element
<1>3. Send(eol, bodies) = FlattenSeq(r) \o eol  BY DEF Send, Records
<1> HIDE DEF r
<1> PICK P : Laid(r, P)  BY <1>2, FlattenLaid
<1>4. FlattenSeq(r) \in Seq(Nat) /\ eol \in Seq(Nat) /\ Len(eol) \in Nat
  BY <1>2, FlattenType, EolBytes
<1>5. lead \in Seq(Nat) /\ Len(lead) \in Nat /\ \A i \in 1 .. Len(lead) : lead[i] \in BLANK
  <2>1. BLANK \subseteq Nat  BY DEF BLANK, LF, CR
  <2>2. lead \in Seq(Nat)  BY <2>1, WiderSeq
  <2> QED  BY <2>2
<1>6. P \in [0 .. n -> Nat] /\ P[0] = 0 /\ Len(FlattenSeq(r)) = P[n]
      /\ \A i \in 1 .. n : P[i] = P[i - 1] + Len(r[i])
  BY <1>2 DEF Laid
<1> DEFINE R == [i \in 0 .. n |-> Len(lead) + P[i]]
<1> PICK lp \in Nat : lp = Len(lead)  BY <1>5
<1>7. /\ R \in [0 .. n -> Nat] /\ R[0] = lp
      /\ \A i \in 0 .. n : R[i] = lp + P[i]
  <2> HIDE DEF n
  <2>1. ASSUME NEW i \in 0 .. n PROVE lp + P[i] \in Nat
    <3> PICK x \in Nat : x = P[i]  BY <1>6
    <3> QED  OBVIOUS
  <2>2. 0 \in 0 .. n  BY <1>1
  <2> QED  BY <1>6, <2>1, <2>2
<1> HIDE DEF R, n
<1>8. end = R[n] + Len(eol) /\ Holds(b, 0, lead) /\ Holds(b, lp, FlattenSeq(r))
      /\ Holds(b, R[n], eol)
  <2> DEFINE fl == FlattenSeq(r)
  <2> HIDE DEF fl
  <2>1. fl \o eol \in Seq(Nat) /\ Len(fl \o eol) = Len(fl) + Len(eol)
    BY <1>4, Appended DEF fl
  <2>2. e = lead \o (fl \o eol)  BY <1>3 DEF fl
  <2>3. Len(e) = Len(lead) + Len(fl \o eol)  BY <1>5, <2>1, <2>2, Appended
  <2>4. Holds(b, 0, lead) /\ Holds(b, 0 + Len(lead), fl \o eol)
    <3> PICK z \in Nat : z = 0  OBVIOUS
    <3>1. Holds(b, z, lead \o (fl \o eol))  BY <2>2
    <3> QED  BY <1>5, <2>1, <3>1, HoldsParts
  <2>5. Holds(b, lp, fl \o eol)  BY <1>5, <2>4
  <2>6. Holds(b, lp, fl) /\ Holds(b, lp + Len(fl), eol)
    BY <1>4, <2>5, HoldsParts DEF fl
  <2>7. n \in 0 .. n  BY <1>1
  <2>8. R[n] = lp + Len(fl) /\ Len(fl) \in Nat  BY <1>4, <1>6, <1>7, <2>7 DEF fl
  <2> QED  BY <1>4, <2>1, <2>3, <2>4, <2>6, <2>8 DEF fl
<1>9. \A i \in 1 .. n : R[i] <= R[n]
  <2> SUFFICES ASSUME NEW i \in 1 .. n PROVE R[i] <= R[n]
    OBVIOUS
  <2>1. i \in 0 .. n /\ n \in 0 .. n /\ i <= n  BY <1>1
  <2>2. P[i] <= P[n]  BY <1>2, <2>1, LaidInOrder
  <2>3. P[i] \in Nat /\ P[n] \in Nat  BY <1>6, <2>1
  <2> QED  BY <1>7, <2>1, <2>2, <2>3
<1>10. end \in Nat /\ R[n] \in Nat /\ R[n] < end /\ \A i \in 1 .. n : R[i] <= end
  <2>1. n \in 0 .. n  BY <1>1
  <2>2. R[n] \in Nat /\ Len(eol) \in Nat /\ 1 <= Len(eol)  BY <1>7, <2>1, EolLength
  <2>3. end \in Nat /\ R[n] < end
    <3> PICK x \in Nat, m \in Nat : x = R[n] /\ m = Len(eol) /\ 1 <= m  BY <2>2
    <3>1. end = x + m  BY <1>8
    <3>2. x + m \in Nat /\ x < x + m  OBVIOUS
    <3> HIDE DEF end
    <3> QED  BY <3>1, <3>2
  <2>4. \A i \in 1 .. n : i \in 0 .. n /\ R[i] \in Nat  BY <1>1, <1>7
  <2> QED  BY <1>9, <2>2, <2>3, <2>4
<1> PICK f : Scans(b, f)  BY ScanFacts
<1> DEFINE S == { k \in 0 .. n : R[n - k] <= Len(b) =>
                                   Scanned(b, bodies, R, end, f[R[n - k]], n - k) }
<1> HIDE DEF end
<1>11. 0 \in S
  <2>1. n - 0 = n /\ 0 \in 0 .. n  BY <1>1
  <2> SUFFICES ASSUME R[n] <= Len(b) PROVE Scanned(b, bodies, R, end, f[R[n]], n)
    BY <2>1
  <2>2. R[n] \in 0 .. Len(b)  BY <1>1, <1>10
  <2>3. \/ Turn(b, R[n]) = Packet(<<>>, end) /\ end <= Len(b)
        \/ Turn(b, R[n]) = NotReady /\ end > Len(b)
    BY <1>8, <2>2, LastTurn
  <2>4. f[R[n]] = IF Turn(b, R[n]).kind = "record"
                  THEN Preceded(Turn(b, R[n]).body, f[Turn(b, R[n]).next]) ELSE Turn(b, R[n])
    BY <2>2 DEF Scans
  <2>5. f[R[n]] = Turn(b, R[n])  BY <2>3, <2>4 DEF Packet, NotReady
  <2>6. SubSeq(bodies, n + 1, n) = <<>> /\ \A j \in n + 1 .. n : R[j] <= MaxPacket
    BY <1>1 DEF n
  <2> QED  BY <2>3, <2>5, <2>6 DEF Scanned, n
<1>12. ASSUME NEW k \in 0 .. n - 1, k \in S PROVE k + 1 \in S
  <2> PICK i \in 1 .. n : i = n - k  BY <1>1
  <2>1. n - (k + 1) = i - 1 /\ k + 1 \in 0 .. n /\ i - 1 \in 0 .. n /\ i \in 0 .. n  BY <1>1
  <2> SUFFICES ASSUME R[i - 1] <= Len(b)
               PROVE  Scanned(b, bodies, R, end, f[R[i - 1]], i - 1)
    BY <2>1
  <2>2. R[i] <= Len(b) => Scanned(b, bodies, R, end, f[R[i]], i)  BY <1>12
  <2>3. /\ R[i - 1] \in 0 .. Len(b) /\ R[i - 1] = lp + P[i - 1] /\ P[i - 1] \in Nat
        /\ R[i] = R[i - 1] + Len(AppendRecord(eol, bodies[i]))
    <3>1. R[i - 1] \in Nat /\ R[i - 1] = lp + P[i - 1] /\ R[i] = lp + P[i] /\ P[i - 1] \in Nat
      BY <1>6, <1>7, <2>1
    <3>2. P[i] = P[i - 1] + Len(AppendRecord(eol, bodies[i]))
          /\ Len(AppendRecord(eol, bodies[i])) \in Nat
      <4>1. Len(r[i]) \in Nat  BY <1>2
      <4> QED  BY <1>2, <1>6, <4>1
    <3> QED  BY <1>1, <3>1, <3>2
  <2>4. Holds(b, R[i - 1], AppendRecord(eol, bodies[i]))
    <3>1. Holds(b, lp + P[i - 1], r[i])  BY <1>2, <1>8, HoldsPiece
    <3> QED  BY <1>2, <2>3, <3>1
  <2>5. bodies[i] \in Seq(Nat)  BY <1>2
  <2>6. \/ /\ Turn(b, R[i - 1]) = [kind |-> "record", body |-> bodies[i], next |-> R[i]]
           /\ R[i] <= Len(b) /\ R[i] <= MaxPacket
        \/ Turn(b, R[i - 1]) = NotReady /\ R[i] > Len(b)
        \/ Turn(b, R[i - 1]) = BadFormat /\ R[i] > MaxPacket
    BY <2>3, <2>4, <2>5, RecordTurn
  <2> QED  BY <1>7, <1>10, <2>2, <2>6, ScanStep DEF n
<1>13. R[0] <= Len(b) => Scanned(b, bodies, R, end, f[R[0]], 0)
  <2> PICK z \in Int : z = 0  OBVIOUS
  <2>1. \A k \in z .. n : k \in S
    <3>1. z \in S /\ n \in Int /\ \A k \in z .. n - 1 : k \in S => k + 1 \in S
      BY <1>1, <1>11, <1>12
    <3> HIDE DEF S
    <3> QED  BY <3>1, IntervalInduction
  <2>2. n \in S /\ n - n = 0
    <3>1. n \in z .. n /\ n - n = 0  BY <1>1
    <3> HIDE DEF S
    <3> QED  BY <2>1, <3>1
  <2> QED  BY <2>2
<1>14. over <=> \E i \in 1 .. n : R[i] > MaxPacket
  <2>1. ASSUME NEW i \in 1 .. n
        PROVE  Len(lead) + Len(Send(eol, SubSeq(bodies, 1, i))) - Len(eol) = R[i]
    <3>1. i \in 0 .. Len(bodies) /\ i \in 0 .. n  BY <1>1 DEF n
    <3>2. Len(Send(eol, SubSeq(bodies, 1, i))) = P[i] + Len(eol)
      BY <3>1, SendFirst DEF r
    <3>3. P[i] \in Nat /\ R[i] = lp + P[i]  BY <1>6, <1>7, <3>1
    <3> PICK x \in Nat, m \in Nat : x = P[i] /\ m = Len(eol)  BY <1>4, <3>3
    <3>4. lp + (x + m) - m = lp + x  OBVIOUS
    <3> QED  BY <3>2, <3>3, <3>4
  <2> QED  BY <2>1 DEF n
<1>15. RunEnd(b, 0, BLANK) = IF lp <= Len(b) THEN lp ELSE Len(b)
  <2>1. \A i \in 1 .. lp : 0 + i <= Len(b) => b[0 + i] \in BLANK
    BY <1>5, <1>8 DEF Holds
  <2>2. 0 + lp + 1 <= Len(b) => b[0 + lp + 1] \notin BLANK
    <3>1. 0 + lp + 1 <= Len(b) => b[0 + lp + 1] \in DIGIT  BY LeadReads
    <3> QED  BY <3>1, DigitBytes
  <2> PICK z \in 0 .. Len(b) : z = 0  BY <1>1
  <2>3. RunEnd(b, z, BLANK) = IF z + lp <= Len(b) THEN z + lp ELSE Len(b)
    BY <1>1, <2>1, <2>2, RunEndIs
  <2> QED  BY <2>3
<1>16. SsdbRecv(b) = f[RunEnd(b, 0, BLANK)]  BY DEF Scans
<1>17. CASE lp <= Len(b)
  <2>1. Scanned(b, bodies, R, end, SsdbRecv(b), 0)  BY <1>7, <1>13, <1>15, <1>16, <1>17
  <2>2. SubSeq(bodies, 0 + 1, Len(bodies)) = bodies  OBVIOUS
  <2>3. 0 + 1 = 1  OBVIOUS
  <2>4. ~over <=> \A i \in 1 .. n : R[i] <= MaxPacket
    <3>1. \A i \in 1 .. n : i \in 0 .. n /\ R[i] \in Nat  BY <1>1, <1>7
    <3> HIDE DEF over
    <3> QED  BY <1>14, <3>1, FramingAssumption
  <2> HIDE DEF over
  <2>5. \/ SsdbRecv(b) = Packet(bodies, end) /\ end <= Len(b) /\ ~over
        \/ SsdbRecv(b) = NotReady /\ end > Len(b)
        \/ SsdbRecv(b) = BadFormat /\ over
    BY <1>14, <2>1, <2>2, <2>3, <2>4 DEF Scanned, n
  <2> QED  BY <2>5 DEF over, end
<1>18. CASE lp > Len(b)
  <2>1. RunEnd(b, 0, BLANK) = Len(b) /\ Len(b) \in 0 .. Len(b)  BY <1>1, <1>15, <1>18
  <2>2. Turn(b, Len(b)) = NotReady  BY EndTurn
  <2>3. SsdbRecv(b) = NotReady
    <3>0. Turn(b, Len(b)).kind # "record"  BY <2>2 DEF NotReady
    <3>1. f[Len(b)] = Turn(b, Len(b))  BY <2>1, <3>0 DEF Scans
    <3> QED  BY <1>16, <2>1, <2>2, <3>1
  <2>4. Len(e) > Len(b)
    <3>1. R[n] >= lp
      <4>1. n \in 0 .. n  BY <1>1
      <4> QED  BY <1>6, <1>7, <4>1
    <3>2. end > Len(b)  BY <1>1, <1>10, <1>18, <3>1
    <3> QED  BY <3>2 DEF end
  <2> QED  BY <2>3, <2>4
<1> QED  BY <1>1, <1>17, <1>18
=============================================================================
