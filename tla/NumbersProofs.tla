---------------------------- MODULE NumbersProofs ----------------------------
(* A number is kept as it was given, and answered as it is kept up to 2^53, *)
(* for ints, decimals, doubles and int64_t of any widths in this order.     *)
EXTENDS Numbers, TLAPS

\* Beyond DoubleMax some spacing of the doubles applies, and it is even.
LEMMA UlpFacts ==
  ASSUME NEW n \in Signed(LongMax), Abs(n) > DoubleMax
  PROVE  /\ Ulp(n) \in Ulps
         /\ DoubleMax * (Ulp(n) \div 2) < Abs(n)
         /\ Abs(n) <= DoubleMax * Ulp(n)
<1>1. DoubleMax \in Nat /\ LongMax \in Nat /\ LongMax < 1024 * DoubleMax
  BY NumbersAssumption DEF NumbersAssumption
<1>2. Abs(n) \in Nat /\ Abs(n) <= 1024 * DoubleMax
  BY <1>1 DEF Abs, Signed
<1> DEFINE a == Abs(n)
           Spaced(u) == DoubleMax * (u \div 2) < a /\ a <= DoubleMax * u
<1>3. \/ DoubleMax * 1 < a /\ a <= DoubleMax * 2
      \/ DoubleMax * 2 < a /\ a <= DoubleMax * 4
      \/ DoubleMax * 4 < a /\ a <= DoubleMax * 8
      \/ DoubleMax * 8 < a /\ a <= DoubleMax * 16
      \/ DoubleMax * 16 < a /\ a <= DoubleMax * 32
      \/ DoubleMax * 32 < a /\ a <= DoubleMax * 64
      \/ DoubleMax * 64 < a /\ a <= DoubleMax * 128
      \/ DoubleMax * 128 < a /\ a <= DoubleMax * 256
      \/ DoubleMax * 256 < a /\ a <= DoubleMax * 512
      \/ DoubleMax * 512 < a /\ a <= DoubleMax * 1024
  <2> HIDE DEF a
  <2> QED  BY <1>1, <1>2 DEF a
<1>4. \E u \in Ulps : Spaced(u)
  <2>1. /\ 2 \div 2 = 1 /\ 4 \div 2 = 2 /\ 8 \div 2 = 4 /\ 16 \div 2 = 8
        /\ 32 \div 2 = 16 /\ 64 \div 2 = 32 /\ 128 \div 2 = 64
        /\ 256 \div 2 = 128 /\ 512 \div 2 = 256 /\ 1024 \div 2 = 512
    OBVIOUS
  <2> HIDE DEF a
  <2> QED  BY <1>3, <2>1 DEF Ulps
<1>5. Ulp(n) \in Ulps /\ Spaced(Ulp(n))
  BY <1>4 DEF Ulp
<1> QED  BY <1>5

\* tonumber() is exact up to DoubleMax and does not fall below it beyond.
LEMMA ToNumberFacts ==
  ASSUME NEW n \in Signed(LongMax)
  PROVE  /\ ToNumber(n) \in Int
         /\ Abs(ToNumber(n)) < DoubleMax => ToNumber(n) = n
<1>1. n \in Int /\ DoubleMax \in Nat /\ DoubleMax % 2 = 0
  BY NumbersAssumption DEF NumbersAssumption, Signed
<1>2. CASE Abs(n) <= DoubleMax
  BY <1>1, <1>2 DEF ToNumber
<1>3. CASE Abs(n) > DoubleMax
  <2> DEFINE u == Ulp(n)
             q == n \div u
             m == NearestMultiple(n, u)
  <2>1. u \in Ulps /\ DoubleMax * (u \div 2) < Abs(n)
    BY <1>3, UlpFacts
  <2>2. ToNumber(n) = m
    <3>1. ~(Abs(n) <= DoubleMax)  BY <1>1, <1>3 DEF Abs
    <3> QED  BY <3>1 DEF ToNumber
  <2>3. u \in Nat /\ u > 0  BY <2>1 DEF Ulps
  <2>4. q \in Int /\ n % u \in Int  BY <1>1, <2>3
  <2>5. m = u * q \/ m = u * (q + 1)
    BY DEF NearestMultiple
  <2> HIDE DEF u
  <2>6. m \in Int  BY <2>3, <2>4, <2>5
  <2>7. Abs(m) >= DoubleMax
    <3> PICK e \in Nat : DoubleMax = 2 * e
      BY <1>1
    <3> HIDE DEF m
    <3>1. n = u * q + (n % u) /\ 0 <= n % u /\ n % u < u
      BY <1>1, <2>3, <2>4
    <3>2. DoubleMax * (u \div 2) = e * u
      BY <2>1 DEF Ulps
    <3>3. e * u < Abs(n)  BY <2>1, <3>2
    <3>4. u >= 2  BY <2>1 DEF Ulps
    <3>5. e * u >= DoubleMax  BY <2>1 DEF Ulps
    <3>6. CASE n >= 0
      <4>1. e * u < u * q + u
        BY <1>1, <2>3, <2>4, <3>1, <3>3, <3>6 DEF Abs
      <4>2. e < q + 1
        BY <2>1, <2>4, <4>1 DEF Ulps
      <4>3. e * u <= u * q /\ e * u <= u * (q + 1)
        BY <2>1, <2>4, <4>2 DEF Ulps
      <4> QED  BY <2>5, <2>6, <3>5, <4>3, <2>3, <2>4 DEF Abs
    <3>7. CASE n < 0
      <4>1. e * u < -(u * q)
        BY <1>1, <2>3, <2>4, <3>1, <3>3, <3>7 DEF Abs
      <4>2. e < -q
        BY <2>1, <2>4, <4>1 DEF Ulps
      <4>3. u * q <= -(e * u) /\ u * (q + 1) <= -(e * u)
        BY <2>1, <2>4, <4>2 DEF Ulps
      <4> QED  BY <2>5, <2>6, <3>5, <4>3, <2>3, <2>4 DEF Abs
    <3> QED  BY <1>1, <3>6, <3>7
  <2> QED  BY <1>1, <2>2, <2>6, <2>7 DEF Abs
<1> QED  BY <1>1, <1>2, <1>3 DEF Abs
-----------------------------------------------------------------------------
(* tonumber() never turns two numbers round.                                *)

LEMMA Divided ==
  ASSUME NEW n \in Int, NEW u \in Ulps
  PROVE  \E q \in Int, r \in Int :
           q = n \div u /\ r = n % u /\ n = u * q + r /\ 0 <= r /\ r < u
<1>1. u \in Nat /\ u > 0  BY DEF Ulps
<1>2. n \div u \in Int /\ n % u \in Int  BY <1>1
<1>3. n = u * (n \div u) + (n % u)  BY <1>1
<1>4. 0 <= n % u /\ n % u < u  BY <1>1
<1> QED  BY <1>2, <1>3, <1>4, Zenon

\* A multiple on one side of n stays on that side of n rounded.
LEMMA Rounded ==
  ASSUME NEW n \in Int, NEW u \in Ulps, NEW k \in Int
  PROVE  /\ NearestMultiple(n, u) \in Int
         /\ u * k <= n => u * k <= NearestMultiple(n, u)
         /\ n <= u * k => NearestMultiple(n, u) <= u * k
<1>1. u \in Nat /\ u > 0  BY DEF Ulps
<1>2. PICK q \in Int, r \in Int : q = n \div u /\ r = n % u /\ n = u * q + r /\ 0 <= r /\ r < u
  BY Divided
<1>3. NearestMultiple(n, u) = u * q \/ NearestMultiple(n, u) = u * (q + 1)
  BY <1>2 DEF NearestMultiple
<1>4. r = 0 => NearestMultiple(n, u) = u * q
  BY <1>1, <1>2 DEF NearestMultiple
<1>5. NearestMultiple(n, u) \in Int  BY <1>1, <1>3
<1>6. ASSUME u * k <= n PROVE u * k <= NearestMultiple(n, u)
  <2>1. k <= q  BY <1>2, <1>6 DEF Ulps
  <2>2. u * k <= u * q /\ u * k <= u * (q + 1)  BY <2>1 DEF Ulps
  <2> QED  BY <1>3, <2>2
<1>7. ASSUME n <= u * k PROVE NearestMultiple(n, u) <= u * k
  <2>1. CASE r = 0
    <3>1. n = u * q  BY <1>1, <1>2, <2>1
    <3> QED  BY <1>4, <1>7, <2>1, <3>1
  <2>2. CASE r # 0
    <3>1. q + 1 <= k  BY <1>2, <1>7, <2>2 DEF Ulps
    <3>2. u * q <= u * k /\ u * (q + 1) <= u * k  BY <3>1 DEF Ulps
    <3> QED  BY <1>3, <3>2
  <2> QED  BY <2>1, <2>2
<1> QED  BY <1>5, <1>6, <1>7

\* Rounding to the same spacing keeps the order.
LEMMA RoundedInOrder ==
  ASSUME NEW a \in Int, NEW b \in Int, a < b, NEW u \in Ulps
  PROVE  NearestMultiple(a, u) <= NearestMultiple(b, u)
<1>1. u \in Nat /\ u > 0  BY DEF Ulps
<1>2. PICK q \in Int, r \in Int : q = a \div u /\ r = a % u /\ a = u * q + r /\ 0 <= r /\ r < u
  BY Divided
<1>3. PICK p \in Int, s \in Int : p = b \div u /\ s = b % u /\ b = u * p + s /\ 0 <= s /\ s < u
  BY Divided
<1>4. q <= p  BY <1>2, <1>3 DEF Ulps
<1>5. CASE q < p
  <2>1. a <= u * (q + 1) /\ u * (q + 1) <= b  BY <1>2, <1>3, <1>5 DEF Ulps
  <2>2. q + 1 \in Int  OBVIOUS
  <2>3. NearestMultiple(a, u) <= u * (q + 1) /\ u * (q + 1) <= NearestMultiple(b, u)
    BY <2>1, <2>2, Rounded
  <2>4. NearestMultiple(a, u) \in Int /\ NearestMultiple(b, u) \in Int  BY <2>2, Rounded
  <2> QED  BY <1>1, <2>3, <2>4
<1>6. CASE q = p
  <2>1. r < s  BY <1>1, <1>2, <1>3, <1>6
  <2>2. NearestMultiple(a, u) = u * (IF 2 * r > u \/ (2 * r = u /\ q % 2 = 1) THEN q + 1 ELSE q)
    BY <1>2 DEF NearestMultiple
  <2>3. NearestMultiple(b, u) = u * (IF 2 * s > u \/ (2 * s = u /\ q % 2 = 1) THEN q + 1 ELSE q)
    BY <1>3, <1>6 DEF NearestMultiple
  <2>4. 2 * r > u \/ 2 * r = u => 2 * s > u  BY <1>1, <2>1
  <2>5. u * q <= u * (q + 1)  BY DEF Ulps
  <2>6. u * q \in Int /\ u * (q + 1) \in Int  BY <1>1
  <2> QED  BY <2>2, <2>3, <2>4, <2>5, <2>6
<1> QED  BY <1>4, <1>5, <1>6

\* A number beyond DoubleMax lies between two powers of two, and so does the
\* double nearest to it.
LEMMA Spaced ==
  ASSUME NEW n \in Signed(LongMax), Abs(n) > DoubleMax
  PROVE  \E u \in Ulps, lo \in Nat, hi \in Nat :
           /\ u = Ulp(n) /\ ToNumber(n) = NearestMultiple(n, u)
           /\ lo = DoubleMax * (u \div 2) /\ hi = DoubleMax * u /\ DoubleMax <= lo
           /\ n > 0 => lo < n /\ n <= hi /\ lo <= ToNumber(n) /\ ToNumber(n) <= hi
           /\ n < 0 => -hi <= n /\ n < -lo /\ -hi <= ToNumber(n) /\ ToNumber(n) <= -lo
<1>1. n \in Int /\ DoubleMax \in Nat /\ DoubleMax % 2 = 0
  BY NumbersAssumption DEF NumbersAssumption, Signed
<1>2. PICK u \in Ulps : u = Ulp(n) /\ DoubleMax * (u \div 2) < Abs(n) /\ Abs(n) <= DoubleMax * u
  BY UlpFacts
<1>3. PICK e \in Nat : DoubleMax = 2 * e  BY <1>1
<1>4. ToNumber(n) = NearestMultiple(n, u)
  <2>1. ~(Abs(n) <= DoubleMax)  BY <1>1 DEF Abs
  <2> QED  BY <1>2, <2>1 DEF ToNumber
<1>5. PICK lo \in Nat, hi \in Nat :
        /\ lo = DoubleMax * (u \div 2) /\ hi = DoubleMax * u /\ DoubleMax <= lo
        /\ lo = u * e /\ hi = u * DoubleMax /\ -lo = u * (-e) /\ -hi = u * (-DoubleMax)
  <2>1. /\ DoubleMax * (u \div 2) \in Nat /\ DoubleMax * u \in Nat
        /\ DoubleMax <= DoubleMax * (u \div 2)
        /\ DoubleMax * (u \div 2) = u * e /\ DoubleMax * u = u * DoubleMax
        /\ -(DoubleMax * (u \div 2)) = u * (-e) /\ -(DoubleMax * u) = u * (-DoubleMax)
    BY <1>1, <1>3 DEF Ulps
  <2> QED  BY <2>1
<1>6. ASSUME n > 0
      PROVE  lo < n /\ n <= hi /\ lo <= ToNumber(n) /\ ToNumber(n) <= hi
  <2>1. lo < n /\ n <= hi  BY <1>1, <1>2, <1>5, <1>6 DEF Abs
  <2>2. u * e <= n /\ n <= u * DoubleMax  BY <1>1, <1>5, <2>1
  <2>3. u * e <= NearestMultiple(n, u) /\ NearestMultiple(n, u) <= u * DoubleMax
    BY <1>1, <1>3, <2>2, Rounded
  <2> QED  BY <1>4, <1>5, <2>1, <2>3
<1>7. ASSUME n < 0
      PROVE  -hi <= n /\ n < -lo /\ -hi <= ToNumber(n) /\ ToNumber(n) <= -lo
  <2>1. -hi <= n /\ n < -lo  BY <1>1, <1>2, <1>5, <1>7 DEF Abs
  <2>2. -e \in Int /\ -DoubleMax \in Int  BY <1>1
  <2>3. u * (-DoubleMax) <= n /\ n <= u * (-e)  BY <1>1, <1>5, <2>1
  <2>4. u * (-DoubleMax) <= NearestMultiple(n, u) /\ NearestMultiple(n, u) <= u * (-e)
    BY <1>1, <2>2, <2>3, Rounded
  <2> QED  BY <1>4, <1>5, <2>1, <2>4
<1>8. u = Ulp(n)  BY <1>2
<1>9. lo = DoubleMax * (u \div 2) /\ hi = DoubleMax * u /\ DoubleMax <= lo  BY <1>5
<1> QED  BY <1>4, <1>6, <1>7, <1>8, <1>9, Zenon

LEMMA InOrder ==
  ASSUME NEW a \in Signed(LongMax), NEW b \in Signed(LongMax), a < b
  PROVE  ToNumber(a) <= ToNumber(b)
<1>1. a \in Int /\ b \in Int /\ DoubleMax \in Nat
  BY NumbersAssumption DEF NumbersAssumption, Signed
<1>2. ToNumber(a) \in Int /\ ToNumber(b) \in Int  BY ToNumberFacts
<1>3. CASE Abs(a) <= DoubleMax /\ Abs(b) <= DoubleMax
  BY <1>1, <1>3 DEF ToNumber
<1>4. CASE Abs(a) <= DoubleMax /\ ~(Abs(b) <= DoubleMax)
  <2>1. ToNumber(a) = a /\ a <= DoubleMax /\ b > 0 /\ Abs(b) > DoubleMax
    BY <1>1, <1>4 DEF ToNumber, Abs
  <2>2. PICK lo \in Nat : DoubleMax <= lo /\ lo <= ToNumber(b)  BY <2>1, Spaced
  <2> QED  BY <1>1, <1>2, <2>1, <2>2
<1>5. CASE ~(Abs(a) <= DoubleMax) /\ Abs(b) <= DoubleMax
  <2>1. ToNumber(b) = b /\ -DoubleMax <= b /\ a < 0 /\ Abs(a) > DoubleMax
    BY <1>1, <1>5 DEF ToNumber, Abs
  <2>2. PICK lo \in Nat : DoubleMax <= lo /\ ToNumber(a) <= -lo  BY <2>1, Spaced
  <2> QED  BY <1>1, <1>2, <2>1, <2>2
<1>6. CASE ~(Abs(a) <= DoubleMax) /\ ~(Abs(b) <= DoubleMax)
  <2>1. Abs(a) > DoubleMax /\ Abs(b) > DoubleMax /\ a # 0 /\ b # 0
    BY <1>1, <1>6 DEF Abs
  <2>2. PICK u \in Ulps, l \in Nat, h \in Nat :
          /\ u = Ulp(a) /\ ToNumber(a) = NearestMultiple(a, u)
          /\ l = DoubleMax * (u \div 2) /\ h = DoubleMax * u /\ DoubleMax <= l
          /\ a > 0 => l < a /\ a <= h /\ l <= ToNumber(a) /\ ToNumber(a) <= h
          /\ a < 0 => -h <= a /\ a < -l /\ -h <= ToNumber(a) /\ ToNumber(a) <= -l
    BY <2>1, Spaced
  <2>3. PICK v \in Ulps, m \in Nat, k \in Nat :
          /\ v = Ulp(b) /\ ToNumber(b) = NearestMultiple(b, v)
          /\ m = DoubleMax * (v \div 2) /\ k = DoubleMax * v /\ DoubleMax <= m
          /\ b > 0 => m < b /\ b <= k /\ m <= ToNumber(b) /\ ToNumber(b) <= k
          /\ b < 0 => -k <= b /\ b < -m /\ -k <= ToNumber(b) /\ ToNumber(b) <= -m
    BY <2>1, Spaced
  <2>4. CASE u = v
    BY <1>1, <2>2, <2>3, <2>4, RoundedInOrder
  <2>5. u < v => h <= m
    <3>1. u < v => u <= v \div 2  BY DEF Ulps
    <3>2. u <= v \div 2 => DoubleMax * u <= DoubleMax * (v \div 2)
      BY <1>1 DEF Ulps
    <3> QED  BY <2>2, <2>3, <3>1, <3>2
  <2>6. v < u => k <= l
    <3>1. v < u => v <= u \div 2  BY DEF Ulps
    <3>2. v <= u \div 2 => DoubleMax * v <= DoubleMax * (u \div 2)
      BY <1>1 DEF Ulps
    <3> QED  BY <2>2, <2>3, <3>1, <3>2
  <2>7. u \in Nat /\ v \in Nat  BY DEF Ulps
  <2>8. CASE u < v
    BY <1>1, <1>2, <2>1, <2>2, <2>3, <2>5, <2>8
  <2>9. CASE v < u
    BY <1>1, <1>2, <2>1, <2>2, <2>3, <2>6, <2>9
  <2> QED  BY <2>4, <2>7, <2>8, <2>9
<1> QED  BY <1>3, <1>4, <1>5, <1>6
-----------------------------------------------------------------------------
LEMMA TruncFacts ==
  ASSUME NEW h \in Int
  PROVE  /\ Trunc(h) \in Int
         /\ Whole(h) => 2 * Trunc(h) = h
         /\ \A n \in Int : h = 2 * n => Trunc(h) = n
  BY DEF Trunc, Whole

LEMMA CutFacts ==
  ASSUME NEW h \in Int, NEW max \in Nat, NEW i \in Cut(h, max)
  PROVE  /\ i \in Signed(max)
         /\ Trunc(h) \in Signed(max) => i = Trunc(h)
  BY DEF Cut

\* An int is an int64_t; and what LuaNumbers holds are numbers.
LEMMA Widths ==
  /\ IntMax \in Nat /\ TextMax \in Nat /\ DoubleMax \in Nat /\ LongMax \in Nat
  /\ Signed(IntMax) \subseteq Signed(LongMax)
  /\ \A h : Whole(h) /\ h \in Int /\ Abs(h) <= 2 * TextMax
       => \E n \in Signed(LongMax) : h = 2 * n
  /\ LuaNumbers \subseteq Int
  BY NumbersAssumption DEF NumbersAssumption, Signed, Whole, Abs

LEMMA DecimalFacts ==
  ASSUME NEW n \in Signed(LongMax)
  PROVE  /\ Decimal(n) \in Values /\ Decimal(n).num = 2 * n /\ Decimal(n).form = "integer"
         /\ Decimal(n).num \in { 2 * k : k \in Signed(LongMax) }
  BY Widths DEF Decimal, Values, Forms, Signed

\* A score is always a number: nothing but ZSet and incr puts one there.
IInv ==
  /\ TypeOK
  /\ kind = "zset" => Countable
  /\ KeptAsGiven
  /\ AnswerIsTheNumber

\* An answer is the double nearest to what the server still keeps.
Answered == Counts(last) => Countable /\ last.answer = ToNumber(Trunc(server.num))

LEMMA InitIInv == Init => IInv
  BY DEF Init, IInv, TypeOK, Values, Forms, Missing, Countable, KeptAsGiven, AnswerIsTheNumber,
         Counts

\* What can be counted on is a whole number of an int64_t, 0 when missing.
LEMMA Counted ==
  ASSUME NEW v, v.form \in {"missing", "integer"},
         v.form = "missing" => v.num = 0,
         v.form = "integer" => v.num \in { 2 * n : n \in Signed(LongMax) }
  PROVE  /\ Trunc(v.num) \in Signed(LongMax)
         /\ 2 * Trunc(v.num) = v.num
<1>1. \E n \in Signed(LongMax) : v.num = 2 * n
  <2>1. CASE v.form = "missing"
    <3>1. 0 \in Signed(LongMax) /\ v.num = 2 * 0  BY <2>1, Widths DEF Signed
    <3> QED  BY <3>1
  <2>2. CASE v.form = "integer"
    BY <2>2
  <2> QED  BY <2>1, <2>2
<1>2. PICK n \in Signed(LongMax) : v.num = 2 * n  BY <1>1
<1>3. n \in Int /\ v.num \in Int
  BY <1>2, Widths DEF Signed
<1>4. Trunc(v.num) = n  BY <1>2, <1>3, TruncFacts
<1> QED  BY <1>2, <1>4

LEMMA CountableFacts ==
  ASSUME IInv, Countable
  PROVE  /\ Trunc(server.num) \in Signed(LongMax)
         /\ 2 * Trunc(server.num) = server.num
  BY Counted DEF IInv, TypeOK, Countable

\* ... and after a step.
LEMMA CountableNext ==
  ASSUME IInv', Countable'
  PROVE  /\ Trunc(server'.num) \in Signed(LongMax)
         /\ 2 * Trunc(server'.num) = server'.num
  BY Counted DEF IInv, TypeOK, Countable

\* A text keeps what fits into its digits.
LEMMA TextFacts ==
  ASSUME NEW h \in Int, NEW v \in Text(h)
  PROVE  /\ v \in Values /\ v.form # "missing"
         /\ v.form = "integer" => v.num \in { 2 * n : n \in Signed(LongMax) }
         /\ Carries(h) => v.num = h
<1> PICK d \in Digits(h) : v = Printed(d)  BY DEF Text
<1>1. d \in Int /\ (Carries(h) => d = h)  BY DEF Digits
<1>2. CASE Abs(d) > 2 * TextMax
  <2>1. v = Exponent  BY <1>2 DEF Printed
  <2>2. ~Carries(h)
    <3>1. Carries(h) => Abs(h) <= 2 * TextMax  BY DEF Carries
    <3>2. Abs(h) \in Int /\ 2 * TextMax \in Int  BY Widths DEF Abs
    <3> QED  BY <1>1, <1>2, <3>1, <3>2
  <2> QED  BY <2>1, <2>2 DEF Exponent, Values, Forms
<1>3. CASE Abs(d) <= 2 * TextMax
  <2>1. v = [num |-> d, form |-> IF Whole(d) THEN "integer" ELSE "fraction"]
    <3>1. Abs(d) \in Int /\ 2 * TextMax \in Int  BY <1>1, Widths DEF Abs
    <3> QED  BY <1>3, <3>1 DEF Printed
  <2>2. v.num = d /\ v \in Values /\ v.form # "missing" /\ (v.form = "integer" => Whole(d))
    BY <1>1, <2>1 DEF Values, Forms
  <2> QED  BY <1>1, <1>3, <2>2, Widths
<1>4. Abs(d) > 2 * TextMax \/ Abs(d) <= 2 * TextMax
  BY <1>1, Widths DEF Abs
<1> QED  BY <1>2, <1>3, <1>4

LEMMA PutsIInv ==
  ASSUME IInv, NEW h \in LuaNumbers, Set(h) \/ PutText(h) \/ ZSet(h)
  PROVE  IInv'
<1>1. h \in Int /\ Trunc(h) \in Int  BY Widths, TruncFacts
<1>2. CASE Set(h)
  <2> PICK i \in ToInt(h) : server' = Decimal(i)  BY <1>2 DEF Set
  <2>1. i \in Signed(LongMax) /\ (Trunc(h) \in Signed(IntMax) => i = Trunc(h))
    BY <1>1, CutFacts, Widths DEF ToInt
  <2>2. exact' => given' = h /\ Whole(h) /\ i = Trunc(h)
    BY <1>2, <2>1 DEF Set, Puts
  <2>3. exact' => server'.num = given'
    BY <1>1, <2>1, <2>2, TruncFacts, DecimalFacts
  <2>4. /\ server' \in Values /\ server'.form = "integer"
        /\ server'.num \in { 2 * n : n \in Signed(LongMax) }
    BY <2>1, DecimalFacts
  <2>5. exact' \in BOOLEAN /\ given' \in Int
    BY <1>1, <1>2 DEF Set, Puts
  <2>6. last' = [op |-> "set", arg |-> h, done |-> TRUE, answer |-> 1]
    BY <1>2 DEF Set, Called
  <2> QED
    BY <1>1, <1>2, <2>3, <2>4, <2>5, <2>6
    DEF Set, IInv, TypeOK, Countable, KeptAsGiven, AnswerIsTheNumber, Counts
<1>3. CASE PutText(h)
  <2> PICK v \in Text(h) : server' = v  BY <1>3 DEF PutText
  <2>1. /\ v \in Values /\ v.form # "missing"
        /\ v.form = "integer" => v.num \in { 2 * n : n \in Signed(LongMax) }
        /\ Carries(h) => v.num = h
    BY <1>1, TextFacts
  <2>2. Carries(h) \in BOOLEAN  BY DEF Carries
  <2>3. exact' \in BOOLEAN /\ given' \in Int
    BY <1>1, <1>3, <2>2 DEF PutText, Puts
  <2>4. last' = [op |-> "put", arg |-> h, done |-> TRUE, answer |-> 1]
    BY <1>3 DEF PutText, Called
  <2>5. server' = v /\ kind' = kind /\ kind' # "zset"
    BY <1>3 DEF PutText
  <2>6. TypeOK'
    BY <1>1, <2>1, <2>3, <2>4, <2>5 DEF IInv, TypeOK
  <2>7. exact' => given' = h /\ Carries(h)
    BY <1>3 DEF PutText, Puts
  <2> QED
    BY <2>1, <2>4, <2>5, <2>6, <2>7 DEF IInv, KeptAsGiven, AnswerIsTheNumber, Counts
<1>4. CASE ZSet(h)
  <2> PICK i \in ToLong(h) : server' = Decimal(i)  BY <1>4 DEF ZSet
  <2>1. i \in Signed(LongMax) /\ (Trunc(h) \in Signed(LongMax) => i = Trunc(h))
    BY <1>1, CutFacts, Widths DEF ToLong
  <2>2. exact' => given' = h /\ Whole(h) /\ i = Trunc(h)
    BY <1>4, <2>1 DEF ZSet, Puts
  <2>3. exact' => server'.num = given'
    BY <1>1, <2>1, <2>2, TruncFacts, DecimalFacts
  <2>4. /\ server' \in Values /\ server'.form = "integer"
        /\ server'.num \in { 2 * n : n \in Signed(LongMax) }
    BY <2>1, DecimalFacts
  <2>5. exact' \in BOOLEAN /\ given' \in Int
    BY <1>1, <1>4 DEF ZSet, Puts
  <2>6. last' = [op |-> "zset", arg |-> h, done |-> TRUE, answer |-> 1]
    BY <1>4 DEF ZSet, Called
  <2> QED
    BY <1>1, <1>4, <2>3, <2>4, <2>5, <2>6
    DEF ZSet, IInv, TypeOK, Countable, KeptAsGiven, AnswerIsTheNumber, Counts
<1> QED  BY <1>2, <1>3, <1>4

LEMMA IncrIInv ==
  ASSUME IInv, NEW h \in LuaNumbers, IncrDone(h) \/ IncrRefused(h)
  PROVE  IInv'
<1>1. h \in Int /\ server.num \in Int /\ Trunc(server.num) \in Int
  BY Widths, TruncFacts DEF IInv, TypeOK, Values
<1>2. CASE IncrDone(h)
  <2> PICK d \in ToLong(h) :
        LET sum == Trunc(server.num) + d
        IN /\ Countable /\ sum \in Signed(LongMax)
           /\ server' = Decimal(sum)
           /\ Called("incr", h, TRUE, ToNumber(sum))
           /\ exact' = (exact /\ Whole(h) /\ Trunc(h) \in Signed(LongMax))
           /\ given' = IF exact' THEN given + h ELSE 0
           /\ UNCHANGED kind
    BY <1>2 DEF IncrDone
  <2> DEFINE sum == Trunc(server.num) + d
  <2>1. d \in Signed(LongMax) /\ (Trunc(h) \in Signed(LongMax) => d = Trunc(h))
    BY <1>1, CutFacts, Widths DEF ToLong
  <2>2. 2 * Trunc(server.num) = server.num
    BY CountableFacts
  <2>3. sum \in Signed(LongMax) /\ d \in Int
    BY <2>1, Widths DEF Signed
  <2>4. exact' => /\ server.num = given /\ d = Trunc(h) /\ 2 * d = h
                  /\ given' = given + h
    BY <1>1, <2>1, TruncFacts DEF IInv, KeptAsGiven
  <2>5. server'.num = 2 * sum /\ server' \in Values /\ server'.form = "integer"
        /\ server'.num \in { 2 * k : k \in Signed(LongMax) }
    BY <2>3, DecimalFacts
  <2>6. exact' => server'.num = given'
    BY <1>1, <2>2, <2>3, <2>4, <2>5
  <2>7. ToNumber(sum) \in Int /\ (Abs(ToNumber(sum)) < DoubleMax => ToNumber(sum) = sum)
    BY <2>3, ToNumberFacts
  <2>8. last' = [op |-> "incr", arg |-> h, done |-> TRUE, answer |-> ToNumber(sum)]
    BY DEF Called
  <2>9. exact' \in BOOLEAN /\ given' \in Int
    <3>1. exact' \in BOOLEAN
      <4>1. exact' = (exact /\ Whole(h) /\ Trunc(h) \in Signed(LongMax))  OBVIOUS
      <4> QED  BY <4>1, Zenon
    <3>2. given \in Int  BY DEF IInv, TypeOK
    <3> QED  BY <1>1, <3>1, <3>2
  <2>10. TypeOK'
    BY <1>1, <2>5, <2>7, <2>8, <2>9 DEF IInv, TypeOK
  <2>11. AnswerIsTheNumber'
    <3>1. last'.answer = ToNumber(sum)  BY <2>8
    <3> QED  BY <2>5, <2>7, <3>1 DEF AnswerIsTheNumber
  <2> QED  BY <2>5, <2>6, <2>10, <2>11 DEF IInv, Countable, KeptAsGiven
<1>3. CASE IncrRefused(h)
  BY <1>1, <1>3
  DEF IncrRefused, Called, IInv, TypeOK, Countable, KeptAsGiven, AnswerIsTheNumber, Counts
<1> QED  BY <1>2, <1>3

LEMMA ZGetIInv ==
  ASSUME IInv, ZGet
  PROVE  IInv'
<1>1. Countable  BY DEF ZGet, IInv
<1>2. /\ ToNumber(Trunc(server.num)) \in Int
      /\ Abs(ToNumber(Trunc(server.num))) < DoubleMax
           => server.num = 2 * ToNumber(Trunc(server.num))
  BY <1>1, CountableFacts, ToNumberFacts
<1>3. (server # Missing) \in BOOLEAN  OBVIOUS
<1>4. CASE server # Missing
  <2>1. last' = [op |-> "zget", arg |-> 0, done |-> TRUE,
                 answer |-> ToNumber(Trunc(server.num))]
    BY <1>4 DEF ZGet, Called
  <2> QED
    BY <1>2, <2>1
    DEF ZGet, IInv, TypeOK, Countable, KeptAsGiven, AnswerIsTheNumber, Counts
<1>5. CASE server = Missing
  <2>1. last' = [op |-> "zget", arg |-> 0, done |-> FALSE, answer |-> 0]
    BY <1>5 DEF ZGet, Called
  <2> QED
    BY <2>1
    DEF ZGet, IInv, TypeOK, Countable, KeptAsGiven, AnswerIsTheNumber, Counts
<1> QED  BY <1>4, <1>5

LEMMA StepIInv == IInv /\ [Next]_vars => IInv'
<1> SUFFICES ASSUME IInv, [Next]_vars PROVE IInv'
  OBVIOUS
<1>1. CASE Next
  BY <1>1, PutsIInv, IncrIInv, ZGetIInv DEF Next
<1>2. CASE UNCHANGED vars
  BY <1>2
  DEF vars, IInv, TypeOK, Countable, KeptAsGiven, AnswerIsTheNumber, Counts
<1> QED  BY <1>1, <1>2

THEOREM IInvAlways == Spec => []IInv
  BY InitIInv, StepIInv, PTL DEF Spec

LEMMA StepAnswered == IInv /\ Answered /\ [Next]_vars => Answered'
<1> SUFFICES ASSUME IInv, Answered, [Next]_vars PROVE Answered'
  OBVIOUS
<1>1. ASSUME NEW h \in LuaNumbers, Set(h) \/ PutText(h) \/ ZSet(h) PROVE Answered'
  <2>1. last'.op \in {"set", "put", "zset"}
    BY <1>1 DEF Set, PutText, ZSet, Called
  <2> QED  BY <2>1 DEF Answered, Counts
<1>2. ASSUME NEW h \in LuaNumbers, IncrDone(h) PROVE Answered'
  <2>1. PICK d \in ToLong(h), sum \in Signed(LongMax) :
          /\ sum = Trunc(server.num) + d
          /\ server' = Decimal(sum)
          /\ Called("incr", h, TRUE, ToNumber(sum))
    BY <1>2 DEF IncrDone
  <2>2. server'.form = "integer" /\ server'.num = 2 * sum  BY <2>1, DecimalFacts
  <2>3. sum \in Int /\ 2 * sum \in Int  BY <2>1, Widths DEF Signed
  <2>4. Trunc(server'.num) = sum  BY <2>2, <2>3, TruncFacts
  <2>5. last'.answer = ToNumber(sum)  BY <2>1 DEF Called
  <2> QED  BY <2>2, <2>4, <2>5 DEF Answered, Countable
<1>3. ASSUME NEW h \in LuaNumbers, IncrRefused(h) PROVE Answered'
  BY <1>3 DEF IncrRefused, Called, Answered, Counts
<1>4. ASSUME ZGet PROVE Answered'
  <2>1. Countable  BY <1>4 DEF ZGet, IInv
  <2>2. UNCHANGED <<kind, server, given, exact>>  BY <1>4 DEF ZGet
  <2>3. CASE server # Missing
    <3>1. last'.answer = ToNumber(Trunc(server.num))
      BY <1>4, <2>3 DEF ZGet, Called
    <3> QED  BY <2>1, <2>2, <3>1 DEF Answered, Countable
  <2>4. CASE server = Missing
    <3>1. last'.done = FALSE  BY <1>4, <2>4 DEF ZGet, Called
    <3> QED  BY <3>1 DEF Answered, Counts
  <2> QED  BY <2>3, <2>4
<1>5. ASSUME UNCHANGED vars PROVE Answered'
  BY <1>5 DEF vars, Answered, Counts, Countable
<1> QED  BY <1>1, <1>2, <1>3, <1>4, <1>5 DEF Next

(* Ints, texts and int64_t cells stay in their ranges, and a score is never *)
(* anything but a whole number (DB.lua:105-136, 319-347, 536-563).          *)
THEOREM NumbersTypeCorrect == Spec => []TypeOK
<1>1. IInv => TypeOK  BY DEF IInv
<1> QED  BY <1>1, IInvAlways, PTL

(* Whatever the widths, the server keeps the sum of what it was given, as   *)
(* long as each call carries its own number (DB.lua:105-136, 285-347).      *)
THEOREM NumbersKept == Spec => []KeptAsGiven
<1>1. IInv => KeptAsGiven  BY DEF IInv
<1> QED  BY <1>1, IInvAlways, PTL

(* Whatever the widths, an answer below the range where doubles are exact   *)
(* is the server's number itself (DB.lua:250, 346, 541, 562).               *)
THEOREM AnswersExact == Spec => []AnswerIsTheNumber
<1>1. IInv => AnswerIsTheNumber  BY DEF IInv
<1> QED  BY <1>1, IInvAlways, PTL

(* Whatever the widths, of two successive answers the later is never the    *)
(* smaller when the server's number grew, and they are equal only where     *)
(* doubles are no longer exact (DB.lua:250, 346, 541, 562).                 *)
THEOREM AnswersInOrder == Spec => AnswersFollow
<1>1. Init => Answered  BY DEF Init, Answered, Counts
<1>2. Spec => []Answered
  BY <1>1, StepAnswered, IInvAlways, PTL DEF Spec
<1>3. IInv /\ IInv' /\ Answered /\ Answered' =>
        (Counts(last) /\ Counts(last') /\ server.num < server'.num =>
          \/ last.answer < last'.answer
          \/ last.answer = last'.answer /\ Abs(last.answer) >= DoubleMax)
  <2> SUFFICES ASSUME IInv, IInv', Answered, Answered',
                      Counts(last), Counts(last'), server.num < server'.num
               PROVE  \/ last.answer < last'.answer
                      \/ last.answer = last'.answer /\ Abs(last.answer) >= DoubleMax
    OBVIOUS
  <2>1. PICK a \in Signed(LongMax) :
          2 * a = server.num /\ last.answer = ToNumber(a)
    BY CountableFacts DEF Answered
  <2>2. PICK b \in Signed(LongMax) :
          2 * b = server'.num /\ last'.answer = ToNumber(b)
    <3>1. Counts(last)'  BY DEF Counts
    <3>2. Countable' /\ last'.answer = ToNumber(Trunc(server'.num))
      BY <3>1 DEF Answered
    <3>3. Trunc(server'.num) \in Signed(LongMax) /\ 2 * Trunc(server'.num) = server'.num
      BY <3>2, CountableNext
    <3> QED  BY <3>2, <3>3
  <2>3. a \in Int /\ b \in Int  BY Widths DEF Signed
  <2>4. a < b  BY <2>1, <2>2, <2>3
  <2>5. ToNumber(a) <= ToNumber(b)  BY <2>4, InOrder
  <2>6. /\ ToNumber(a) \in Int /\ (Abs(ToNumber(a)) < DoubleMax => ToNumber(a) = a)
        /\ ToNumber(b) \in Int /\ (Abs(ToNumber(b)) < DoubleMax => ToNumber(b) = b)
    BY ToNumberFacts
  <2>7. ToNumber(a) = ToNumber(b) => Abs(ToNumber(a)) >= DoubleMax
    BY <2>3, <2>4, <2>6, Widths DEF Abs
  <2> QED  BY <2>1, <2>2, <2>5, <2>6, <2>7
<1> QED  BY <1>2, <1>3, IInvAlways, PTL DEF AnswersFollow
=============================================================================
