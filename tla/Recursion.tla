----------------------------- MODULE Recursion ------------------------------
(***************************************************************************)
(* Lemmas about functions defined by recursion over numbers, and about     *)
(* FlattenSeq of the community modules, which is defined by one.  The      *)
(* library's induction theorems take an operator for the property and the  *)
(* installed provers cannot give it one; here the property is a set, and   *)
(* its least missing number (WFMin) contradicts the step.                  *)
(***************************************************************************)
EXTENDS Integers, SequencesExt, SequenceTheorems, WellFoundedInduction, TLAPS

\* A set of numbers with 0 and with the next number of each has them all.
LEMMA NatSet ==
  ASSUME NEW S, 0 \in S, \A n \in Nat : n \in S => n + 1 \in S
  PROVE  \A n \in Nat : n \in S
<1> DEFINE T == Nat \ S
           R == OpToRel(<, Nat)
<1> SUFFICES ASSUME T # {} PROVE FALSE
  OBVIOUS
<1>1. IsWellFoundedOn(R, Nat)  BY NatLessThanWellFounded
<1>2. PICK x \in T : \A y \in T : ~(<<y, x>> \in R)
  <2>1. T \subseteq Nat OBVIOUS
  <2> HIDE DEF T, R
  <2> QED BY <1>1, <2>1, WFMin
<1>3. \A y \in T : ~(y < x)
  BY <1>2 DEF OpToRel
<1>4. x # 0 /\ x - 1 \in Nat OBVIOUS
<1>5. x - 1 \in S  BY <1>3, <1>4
<1> QED BY <1>4, <1>5

\* ... and likewise between two numbers.
LEMMA IntervalInduction ==
  ASSUME NEW m \in Int, NEW n \in Int, NEW S,
         m \in S, \A i \in m .. n - 1 : i \in S => i + 1 \in S
  PROVE  \A i \in m .. n : i \in S
<1> DEFINE T == { k \in Nat : m + k <= n => m + k \in S }
<1>1. 0 \in T
  OBVIOUS
<1>2. ASSUME NEW k \in Nat, k \in T PROVE k + 1 \in T
  <2> SUFFICES ASSUME m + (k + 1) <= n PROVE m + (k + 1) \in S
    OBVIOUS
  <2>1. m + k \in m .. n - 1 /\ m + k \in S
    BY <1>2
  <2>2. (m + k) + 1 \in S
    BY <2>1
  <2> QED  BY <2>2
<1>3. \A k \in Nat : k \in T
  <2> HIDE DEF T
  <2> QED  BY <1>1, <1>2, NatSet
<1> SUFFICES ASSUME NEW i \in m .. n PROVE i \in S
  OBVIOUS
<1>4. i - m \in Nat /\ m + (i - m) = i /\ i <= n
  OBVIOUS
<1>5. i - m \in T  BY <1>3, <1>4
<1> QED  BY <1>4, <1>5

\* Two functions that agree at m and step alike agree from m on.
LEMMA SameFcn ==
  ASSUME NEW m \in Int, NEW n \in Int, NEW f, NEW g, f[m] = g[m],
         \A i \in m .. n - 1 : f[i] = g[i] => f[i + 1] = g[i + 1]
  PROVE  \A i \in m .. n : f[i] = g[i]
<1> DEFINE S == { i \in Int : f[i] = g[i] }
<1>1. m \in S
  OBVIOUS
<1>2. ASSUME NEW i \in m .. n - 1, i \in S PROVE i + 1 \in S
  <2>1. f[i] = g[i] /\ i + 1 \in Int  BY <1>2
  <2>2. f[i + 1] = g[i + 1]  BY <2>1
  <2> QED  BY <2>1, <2>2
<1>3. \A i \in m .. n : i \in S
  <2> HIDE DEF S
  <2> QED  BY <1>1, <1>2, IntervalInduction
<1> QED  BY <1>3

\* f is c at m, and what G makes of the value before from there on.
Follows(f, G, c, m, n) == /\ f[m] = c
                          /\ \A i \in m + 1 .. n : f[i] = G[i][f[i - 1]]

\* There is such a function.
LEMMA RecFcn ==
  ASSUME NEW X, NEW m \in Int, NEW n \in Int, m <= n,
         NEW c \in X, NEW G \in [m .. n -> [X -> X]]
  PROVE  \E f \in [m .. n -> X] : Follows(f, G, c, m, n)
<1> DEFINE Upto(k, f) == /\ f[m] = c
                         /\ \A i \in m + 1 .. m + k : f[i] = G[i][f[i - 1]]
           S == { k \in Nat : m + k <= n => \E f \in [m .. m + k -> X] : Upto(k, f) }
<1>1. 0 \in S
  <2>1. [i \in m .. m + 0 |-> c] \in [m .. m + 0 -> X]
    OBVIOUS
  <2>2. Upto(0, [i \in m .. m + 0 |-> c])
    OBVIOUS
  <2> QED  BY <2>1, <2>2
<1>2. ASSUME NEW k \in Nat, k \in S PROVE k + 1 \in S
  <2> SUFFICES ASSUME m + (k + 1) <= n
               PROVE  \E f \in [m .. m + (k + 1) -> X] : Upto(k + 1, f)
    OBVIOUS
  <2>1. PICK f \in [m .. m + k -> X] : Upto(k, f)  BY <1>2
  <2> DEFINE g == [i \in m .. m + (k + 1) |->
                     IF i = m + (k + 1) THEN G[i][f[m + k]] ELSE f[i]]
  <2>2. g \in [m .. m + (k + 1) -> X]
    <3>1. ASSUME NEW i \in m .. m + (k + 1)
          PROVE  (IF i = m + (k + 1) THEN G[i][f[m + k]] ELSE f[i]) \in X
      <4>1. CASE i = m + (k + 1)
        <5>1. f[m + k] \in X /\ i \in m .. n
          BY <4>1
        <5>2. G[i] \in [X -> X]
          BY <5>1
        <5> QED  BY <4>1, <5>2
      <4>2. CASE i # m + (k + 1)
        <5>1. i \in m .. m + k  BY <4>2
        <5> QED  BY <4>2, <5>1
      <4> QED  BY <4>1, <4>2
    <3> QED  BY <3>1
  <2>3. Upto(k + 1, g)
    <3>1. g[m] = c  BY <2>1
    <3>2. ASSUME NEW i \in m + 1 .. m + (k + 1) PROVE g[i] = G[i][g[i - 1]]
      <4>1. i - 1 \in m .. m + k /\ g[i - 1] = f[i - 1]
        OBVIOUS
      <4>2. CASE i = m + (k + 1)
        <5>1. i - 1 = m + k  BY <4>2
        <5>2. g[i] = G[i][f[m + k]]  BY <4>2
        <5> QED  BY <4>1, <5>1, <5>2
      <4>3. CASE i # m + (k + 1)
        <5>1. i \in m + 1 .. m + k /\ g[i] = f[i]  BY <4>3
        <5> QED  BY <2>1, <4>1, <5>1
      <4> QED  BY <4>2, <4>3
    <3> QED  BY <3>1, <3>2
  <2> HIDE DEF g, Upto
  <2> QED  BY <2>2, <2>3
<1>3. n - m \in S
  <2>1. n - m \in Nat  OBVIOUS
  <2> HIDE DEF S
  <2>2. \A k \in Nat : k \in S  BY <1>1, <1>2, NatSet
  <2> QED  BY <2>1, <2>2
<1>4. m + (n - m) = n  OBVIOUS
<1> QED  BY <1>3, <1>4 DEF Follows
-----------------------------------------------------------------------------
\* An element of a sequence is one of its type.
LEMMA Element ==
  ASSUME NEW T, NEW s \in Seq(T), NEW j \in 1 .. Len(s)
  PROVE  s[j] \in T
OBVIOUS

\* What a sequence followed by another holds.
LEMMA Appended ==
  ASSUME NEW T, NEW s \in Seq(T), NEW t \in Seq(T)
  PROVE  /\ s \o t \in Seq(T)
         /\ Len(s \o t) = Len(s) + Len(t)
         /\ \A p \in 1 .. Len(s) : (s \o t)[p] = s[p]
         /\ \A p \in 1 .. Len(t) : (s \o t)[Len(s) + p] = t[p]
OBVIOUS

\* What FlattenSeq computes, piece by piece.
Flattens(f, seqs) == /\ f[1] = seqs[1]
                     /\ \A i \in 2 .. Len(seqs) : f[i] = f[i - 1] \o seqs[i]
                     /\ FlattenSeq(seqs) = f[Len(seqs)]

\* From m on, f appends one sequence after the other.
Appends(f, seqs, m, n) == \A i \in m + 1 .. n : f[i] = f[i - 1] \o seqs[i]

\* Two functions built by the same appends end alike.
LEMMA SameAppends ==
  ASSUME NEW m \in Int, NEW n \in Int, m <= n, NEW f, NEW g, NEW seqs, f[m] = g[m],
         Appends(f, seqs, m, n), Appends(g, seqs, m, n)
  PROVE  f[n] = g[n]
<1>1. \A i \in m .. n - 1 : f[i] = g[i] => f[i + 1] = g[i + 1]
  <2> SUFFICES ASSUME NEW i \in m .. n - 1, f[i] = g[i] PROVE f[i + 1] = g[i + 1]
    OBVIOUS
  <2>1. i + 1 \in m + 1 .. n /\ (i + 1) - 1 = i  OBVIOUS
  <2>2. f[i + 1] = f[i] \o seqs[i + 1]  BY <2>1 DEF Appends
  <2>3. g[i + 1] = g[i] \o seqs[i + 1]  BY <2>1 DEF Appends
  <2> QED  BY <2>2, <2>3
<1>2. \A i \in m .. n : f[i] = g[i]  BY <1>1, SameFcn
<1> QED  BY <1>2

\* FlattenSeq is the last of the sequences that the pieces make one by one.
LEMMA FlattenSteps ==
  ASSUME NEW T, NEW seqs \in Seq(Seq(T)), seqs # <<>>
  PROVE  \E f \in [1 .. Len(seqs) -> Seq(T)] : Flattens(f, seqs)
<1> DEFINE n == Len(seqs)
           G == [i \in 1 .. n |-> [t \in Seq(T) |-> t \o seqs[i]]]
           Rec(f) == [i \in 1 .. n |-> IF i = 1 THEN seqs[i] ELSE f[i - 1] \o seqs[i]]
<1>1. n \in Nat /\ n >= 1 /\ \A i \in 1 .. n : seqs[i] \in Seq(T)
  OBVIOUS
<1>2. G \in [1 .. n -> [Seq(T) -> Seq(T)]]
  BY <1>1
<1>3. PICK f \in [1 .. n -> Seq(T)] : Follows(f, G, seqs[1], 1, n)
  <2> PICK m \in Int : m = 1  OBVIOUS
  <2> HIDE DEF G, n
  <2>1. seqs[m] \in Seq(T) /\ n \in Int /\ m <= n /\ G \in [m .. n -> [Seq(T) -> Seq(T)]]
    BY <1>1, <1>2
  <2>2. \E f \in [m .. n -> Seq(T)] : Follows(f, G, seqs[m], m, n)
    BY <2>1, RecFcn
  <2> QED  BY <2>2
<1>4. f[1] = seqs[1]
  BY <1>3 DEF Follows
<1>5. ASSUME NEW i \in 2 .. n PROVE f[i] = f[i - 1] \o seqs[i]
  <2>1. i - 1 \in 1 .. n /\ i \in 1 .. n /\ i \in 1 + 1 .. n  BY <1>1
  <2>2. f[i - 1] \in Seq(T)  BY <2>1
  <2>3. f[i] = G[i][f[i - 1]]  BY <1>3, <2>1 DEF Follows
  <2> HIDE DEF n
  <2> QED  BY <2>1, <2>2, <2>3
<1>6. f = Rec(f)
  <2>1. ASSUME NEW i \in 1 .. n
        PROVE f[i] = IF i = 1 THEN seqs[i] ELSE f[i - 1] \o seqs[i]
    <3>1. CASE i = 1  BY <1>4, <3>1
    <3>2. CASE i # 1
      <4>1. i \in 2 .. n  BY <3>2
      <4> QED BY <1>5, <3>2, <4>1
    <3> QED BY <3>1, <3>2
  <2> HIDE DEF n
  <2> QED BY <2>1
<1> DEFINE g == CHOOSE h : h = Rec(h)
<1>7. g = Rec(g)
  <2> HIDE DEF Rec
  <2> QED  BY <1>6
<1>8. FlattenSeq(seqs) = g[n]
  BY <1>1 DEF FlattenSeq
<1> HIDE DEF g
<1>9. \A i \in 1 .. n : g[i] = IF i = 1 THEN seqs[i] ELSE g[i - 1] \o seqs[i]
  BY <1>7
<1>10. g[n] = f[n]
  <2> PICK m \in Int : m = 1  OBVIOUS
  <2>1. f[m] = g[m]  BY <1>1, <1>4, <1>9
  <2>2. Appends(f, seqs, m, n)
    <3> SUFFICES ASSUME NEW i \in m + 1 .. n PROVE f[i] = f[i - 1] \o seqs[i]
      BY DEF Appends
    <3>1. i \in 2 .. n  BY <1>1
    <3> QED  BY <1>5, <3>1
  <2>3. Appends(g, seqs, m, n)
    <3> SUFFICES ASSUME NEW i \in m + 1 .. n PROVE g[i] = g[i - 1] \o seqs[i]
      BY DEF Appends
    <3>1. i \in 1 .. n /\ i # 1  BY <1>1
    <3> QED  BY <1>9, <3>1
  <2>4. n \in Int /\ m <= n  BY <1>1
  <2> HIDE DEF n
  <2> QED  BY <2>1, <2>2, <2>3, <2>4, SameAppends
<1>11. Flattens(f, seqs)
  BY <1>1, <1>4, <1>5, <1>8, <1>10 DEF Flattens
<1> QED  BY <1>11

\* Flattening sequences over a set gives one over that set.
LEMMA FlattenType ==
  ASSUME NEW T, NEW seqs \in Seq(Seq(T))
  PROVE  FlattenSeq(seqs) \in Seq(T)
<1>1. CASE seqs = <<>>
  BY <1>1 DEF FlattenSeq
<1>2. CASE seqs # <<>>
  <2>1. PICK f \in [1 .. Len(seqs) -> Seq(T)] : Flattens(f, seqs)
    BY <1>2, FlattenSteps
  <2>2. Len(seqs) \in 1 .. Len(seqs)
    BY <1>2
  <2> QED  BY <2>1, <2>2 DEF Flattens
<1> QED  BY <1>1, <1>2

\* What was flattened first stays in front.
LEMMA FlattenPrefix ==
  ASSUME NEW T, NEW seqs \in Seq(Seq(T)), NEW f \in [1 .. Len(seqs) -> Seq(T)],
         Flattens(f, seqs), NEW i \in 1 .. Len(seqs)
  PROVE  /\ Len(f[i]) <= Len(FlattenSeq(seqs))
         /\ \A p \in 1 .. Len(f[i]) : FlattenSeq(seqs)[p] = f[i][p]
<1> DEFINE n == Len(seqs)
           S == { j \in 1 .. n : /\ Len(f[i]) <= Len(f[j])
                                 /\ \A p \in 1 .. Len(f[i]) : f[j][p] = f[i][p] }
<1>1. n \in Nat /\ i \in Int /\ n \in Int /\ n \in i .. n
  OBVIOUS
<1>2. i \in S
  OBVIOUS
<1>3. \A j \in i .. n - 1 : j \in S => j + 1 \in S
  <2> SUFFICES ASSUME NEW j \in i .. n - 1, j \in S PROVE j + 1 \in S
    OBVIOUS
  <2>1. j \in 1 .. n /\ j + 1 \in 1 .. n /\ j + 1 \in 2 .. n /\ (j + 1) - 1 = j
    BY <1>1
  <2>2. f[j + 1] = f[j] \o seqs[j + 1]
    BY <2>1 DEF Flattens
  <2>3. f[j] \in Seq(T) /\ seqs[j + 1] \in Seq(T) /\ f[i] \in Seq(T)
    <3>1. f[j] \in Seq(T) /\ f[i] \in Seq(T)
      BY <2>1
    <3>2. seqs[j + 1] \in Seq(T)
      BY <2>1, Element
    <3> QED  BY <3>1, <3>2
  <2>4. Len(f[j + 1]) >= Len(f[j])
    BY <2>2, <2>3
  <2>5. \A p \in 1 .. Len(f[j]) : f[j + 1][p] = f[j][p]
    BY <2>2, <2>3
  <2>6. Len(f[i]) <= Len(f[j]) /\ \A p \in 1 .. Len(f[i]) : f[j][p] = f[i][p]
    OBVIOUS
  <2>7. Len(f[i]) \in Nat /\ Len(f[j]) \in Nat /\ Len(f[j + 1]) \in Nat
    BY <2>1
  <2>8. \A p \in 1 .. Len(f[i]) : f[j + 1][p] = f[i][p]
    BY <2>5, <2>6, <2>7
  <2> QED  BY <2>1, <2>4, <2>6, <2>7, <2>8
<1>4. \A j \in i .. n : j \in S
  <2> HIDE DEF S, n
  <2> QED  BY <1>1, <1>2, <1>3, IntervalInduction
<1>5. n \in S
  <2> HIDE DEF S, n
  <2> QED  BY <1>1, <1>4
<1> QED  BY <1>5 DEF Flattens

\* Pieces of two elements lie two by two.
LEMMA FlattenPairs ==
  ASSUME NEW T, NEW seqs \in Seq(Seq(T)), \A j \in 1 .. Len(seqs) : Len(seqs[j]) = 2
  PROVE  /\ Len(FlattenSeq(seqs)) = 2 * Len(seqs)
         /\ \A j \in 1 .. Len(seqs) : /\ FlattenSeq(seqs)[2 * j - 1] = seqs[j][1]
                                       /\ FlattenSeq(seqs)[2 * j] = seqs[j][2]
<1>1. CASE seqs = <<>>
  BY <1>1 DEF FlattenSeq
<1>2. CASE seqs # <<>>
  <2> DEFINE n == Len(seqs)
  <2>1. PICK f \in [1 .. n -> Seq(T)] : Flattens(f, seqs)
    BY <1>2, FlattenSteps
  <2> DEFINE S == { j \in 1 .. n : Len(f[j]) = 2 * j }
  <2>2. n \in Int /\ n >= 1 /\ f[1] = seqs[1] /\ \A j \in 1 .. n : seqs[j] \in Seq(T) /\ f[j] \in Seq(T)
    <3>1. n \in Int /\ n >= 1 /\ f[1] = seqs[1]
      BY <1>2, <2>1 DEF Flattens
    <3>2. \A j \in 1 .. n : seqs[j] \in Seq(T)
      BY Element
    <3>3. \A j \in 1 .. n : f[j] \in Seq(T)
      BY <2>1
    <3> QED  BY <3>1, <3>2, <3>3
  <2>3. \A j \in 1 .. n : j \in S
    <3> PICK m \in Int : m = 1  OBVIOUS
    <3>1. m \in S
      BY <2>2
    <3>2. \A j \in m .. n - 1 : j \in S => j + 1 \in S
      <4> SUFFICES ASSUME NEW j \in m .. n - 1, j \in S PROVE j + 1 \in S
        OBVIOUS
      <4>1. j \in 1 .. n /\ j + 1 \in 1 .. n /\ j + 1 \in 2 .. n /\ (j + 1) - 1 = j
        BY <2>2
      <4>2. f[j + 1] = f[j] \o seqs[j + 1]
        BY <2>1, <4>1 DEF Flattens
      <4>3. Len(f[j]) = 2 * j /\ Len(seqs[j + 1]) = 2
        BY <4>1
      <4>4. Len(f[j + 1]) = 2 * j + 2
        <5>1. f[j] \in Seq(T) /\ seqs[j + 1] \in Seq(T)
          BY <2>2, <4>1
        <5>2. Len(f[j] \o seqs[j + 1]) = Len(f[j]) + Len(seqs[j + 1])
          BY <5>1, Appended
        <5> QED  BY <4>2, <4>3, <5>2
      <4> QED  BY <4>1, <4>4
    <3> HIDE DEF S, n
    <3>3. \A j \in m .. n : j \in S
      BY <2>2, <3>1, <3>2, IntervalInduction
    <3> QED  BY <3>3
  <2>4. ASSUME NEW j \in 1 .. n
        PROVE  /\ FlattenSeq(seqs)[2 * j - 1] = seqs[j][1]
               /\ FlattenSeq(seqs)[2 * j] = seqs[j][2]
    <3>1. Len(f[j]) = 2 * j /\ Len(seqs[j]) = 2 /\ seqs[j] \in Seq(T) /\ f[j] \in Seq(T)
      BY <2>2, <2>3
    <3>2. FlattenSeq(seqs)[2 * j - 1] = f[j][2 * j - 1] /\ FlattenSeq(seqs)[2 * j] = f[j][2 * j]
      <4>1. 2 * j - 1 \in 1 .. Len(f[j]) /\ 2 * j \in 1 .. Len(f[j])
        BY <3>1
      <4>2. \A p \in 1 .. Len(f[j]) : FlattenSeq(seqs)[p] = f[j][p]
        BY <2>1, FlattenPrefix
      <4> QED  BY <4>1, <4>2
    <3>3. CASE j = 1
      BY <2>2, <3>2, <3>3
    <3>4. CASE j # 1
      <4>1. j - 1 \in 1 .. n /\ j \in 2 .. n
        BY <3>4
      <4>2. f[j] = f[j - 1] \o seqs[j]
        BY <2>1, <4>1 DEF Flattens
      <4>3. f[j - 1] \in Seq(T) /\ Len(f[j - 1]) = 2 * j - 2
        <5>1. f[j - 1] \in Seq(T)  BY <2>2, <4>1
        <5>2. Len(f[j - 1]) = 2 * (j - 1)  BY <2>3, <4>1
        <5> QED  BY <5>1, <5>2
      <4>4. f[j][2 * j - 1] = seqs[j][1] /\ f[j][2 * j] = seqs[j][2]
        <5>1. \A p \in 1 .. Len(seqs[j]) : f[j][Len(f[j - 1]) + p] = seqs[j][p]
          <6>1. PICK s \in Seq(T), t \in Seq(T) : s = f[j - 1] /\ t = seqs[j]
            BY <3>1, <4>3
          <6>2. \A p \in 1 .. Len(t) : (s \o t)[Len(s) + p] = t[p]
            BY Appended
          <6> QED  BY <4>2, <6>1, <6>2
        <5>2. 1 \in 1 .. Len(seqs[j]) /\ 2 \in 1 .. Len(seqs[j])
          BY <3>1
        <5>3. f[j][(2 * j - 2) + 1] = seqs[j][1] /\ f[j][(2 * j - 2) + 2] = seqs[j][2]
          BY <4>3, <5>1, <5>2
        <5> QED  BY <5>3
      <4> QED  BY <3>2, <4>4
    <3> QED  BY <3>3, <3>4
  <2>5. Len(FlattenSeq(seqs)) = 2 * n
    <3>1. n \in 1 .. n  BY <2>2
    <3> QED  BY <2>1, <2>3, <3>1 DEF Flattens
  <2> QED  BY <2>4, <2>5
<1> QED  BY <1>1, <1>2
-----------------------------------------------------------------------------
(* Sets of numbers, recursion along any descent, and sequences.            *)

\* A set of numbers has a least one.
LEMMA Least ==
  ASSUME NEW S, S \subseteq Nat, S # {}
  PROVE  /\ Min(S) \in S
         /\ \A x \in S : Min(S) <= x
<1> DEFINE R == OpToRel(<, Nat)
<1>1. IsWellFoundedOn(R, Nat)  BY NatLessThanWellFounded
<1>2. PICK x \in S : \A y \in S : ~(<<y, x>> \in R)
  <2>1. S \subseteq Nat /\ S # {}  OBVIOUS
  <2> HIDE DEF R
  <2> QED BY <1>1, <2>1, WFMin
<1>3. \A y \in S : ~(y < x)
  BY <1>2 DEF OpToRel
<1>4. \A y \in S : x <= y
  <2> HIDE DEF R
  <2> QED  BY <1>3
<1> HIDE DEF R
<1> QED  BY <1>4 DEF Min

\* A set of numbers with each number that all smaller ones are in has them all.
LEMMA NatStrong ==
  ASSUME NEW S, \A n \in Nat : (\A m \in 0 .. n - 1 : m \in S) => n \in S
  PROVE  \A n \in Nat : n \in S
<1> DEFINE K == { n \in Nat : \A m \in 0 .. n - 1 : m \in S }
<1>1. 0 \in K  OBVIOUS
<1>2. ASSUME NEW n \in Nat, n \in K PROVE n + 1 \in K
  <2>1. \A m \in 0 .. (n + 1) - 1 : m \in 0 .. n - 1 \/ m = n  OBVIOUS
  <2>2. n \in S  BY <1>2
  <2> QED  BY <1>2, <2>1, <2>2
<1>3. \A n \in Nat : n \in K
  <2> HIDE DEF K
  <2> QED  BY <1>1, <1>2, NatSet
<1> QED  BY <1>3

\* f takes its value at x from D[x], unless x is one of B.
Descends(f, x, B, c, H, D) == f[x] = IF x \in B THEN c[x] ELSE H[x][f[D[x]]]

\* There is a function with Descends everywhere if D leads down.
LEMMA RecRank ==
  ASSUME NEW S, NEW X, NEW z \in X, NEW B, NEW c, NEW H, NEW D, NEW rank \in [S -> Nat],
         \A x \in S : IF x \in B THEN c[x] \in X
                      ELSE H[x] \in [X -> X] /\ D[x] \in S /\ rank[D[x]] < rank[x]
  PROVE  \E f \in [S -> X] : \A x \in S : Descends(f, x, B, c, H, D)
<1> DEFINE Upto(f, k) == \A x \in S : rank[x] < k => Descends(f, x, B, c, H, D)
<1>1. \A k \in Nat : \E f \in [S -> X] : Upto(f, k)
  <2> DEFINE K == { k \in Nat : \E f \in [S -> X] : Upto(f, k) }
  <2>1. 0 \in K
    <3>1. [x \in S |-> z] \in [S -> X]  OBVIOUS
    <3>2. Upto([x \in S |-> z], 0)  OBVIOUS
    <3> QED  BY <3>1, <3>2
  <2>2. ASSUME NEW k \in Nat, k \in K PROVE k + 1 \in K
    <3>1. PICK f \in [S -> X] : Upto(f, k)  BY <2>2
    <3> DEFINE g == [x \in S |-> IF rank[x] < k THEN f[x]
                                 ELSE IF x \in B THEN c[x]
                                 ELSE IF rank[x] = k THEN H[x][f[D[x]]] ELSE z]
    <3>2. g \in [S -> X]
      <4> SUFFICES ASSUME NEW x \in S PROVE g[x] \in X
        <5> HIDE DEF K, Upto
        <5> QED  OBVIOUS
      <4>1. x \notin B => H[x][f[D[x]]] \in X
        OBVIOUS
      <4>2. f[x] \in X /\ (x \in B => c[x] \in X)  OBVIOUS
      <4> HIDE DEF Upto, K
      <4> QED  BY <4>1, <4>2
    <3>3. Upto(g, k + 1)
      <4> SUFFICES ASSUME NEW x \in S, rank[x] < k + 1 PROVE Descends(g, x, B, c, H, D)
        OBVIOUS
      <4>1. rank[x] \in Nat  OBVIOUS
      <4>2. CASE x \in B
        <5>1. rank[x] < k => f[x] = c[x]  BY <3>1, <4>2 DEF Descends
        <5> HIDE DEF Upto, K
        <5> QED  BY <4>2, <5>1 DEF Descends
      <4>3. CASE x \notin B
        <5>1. D[x] \in S /\ rank[D[x]] \in Nat /\ rank[D[x]] < rank[x]  BY <4>3
        <5>2. rank[D[x]] < k  BY <4>1, <5>1
        <5>3. g[D[x]] = f[D[x]]  BY <5>1, <5>2
        <5>4. rank[x] < k => f[x] = H[x][f[D[x]]]  BY <3>1, <4>3 DEF Descends
        <5>5. g[x] = H[x][f[D[x]]]
          <6> HIDE DEF Upto, K
          <6> QED  BY <4>1, <4>3, <5>4
        <5> HIDE DEF g, Upto, K
        <5> QED  BY <4>3, <5>3, <5>5 DEF Descends
      <4> QED  BY <4>2, <4>3
    <3> HIDE DEF g, Upto
    <3> QED  BY <3>2, <3>3
  <2> HIDE DEF K
  <2>3. \A k \in Nat : k \in K  BY <2>1, <2>2, NatSet
  <2> QED  BY <2>3 DEF K
<1>2. ASSUME NEW f, NEW g, NEW k \in Nat, NEW l \in Nat, k <= l, Upto(f, k), Upto(g, l)
      PROVE  \A x \in S : rank[x] < k => f[x] = g[x]
  <2> DEFINE K == { r \in Nat : \A x \in S : rank[x] < r /\ rank[x] < k => f[x] = g[x] }
  <2>1. 0 \in K  OBVIOUS
  <2>2. ASSUME NEW r \in Nat, r \in K PROVE r + 1 \in K
    <3> SUFFICES ASSUME NEW x \in S, rank[x] < r + 1, rank[x] < k PROVE f[x] = g[x]
      OBVIOUS
    <3>1. rank[x] \in Nat /\ rank[x] < l  BY <1>2
    <3>2. Descends(f, x, B, c, H, D) /\ Descends(g, x, B, c, H, D)  BY <1>2, <3>1
    <3>3. CASE x \in B  BY <3>2, <3>3 DEF Descends
    <3>4. CASE x \notin B
      <4>1. D[x] \in S /\ rank[D[x]] \in Nat /\ rank[D[x]] < rank[x]  BY <3>4
      <4>2. rank[D[x]] < r /\ rank[D[x]] < k  BY <3>1, <4>1
      <4>3. f[D[x]] = g[D[x]]  BY <2>2, <4>1, <4>2
      <4> QED  BY <3>2, <3>4, <4>3 DEF Descends
    <3> QED  BY <3>3, <3>4
  <2>3. \A r \in Nat : r \in K
    <3> HIDE DEF K
    <3> QED  BY <2>1, <2>2, NatSet
  <2> QED  BY <2>3
<1> HIDE DEF Upto
<1> DEFINE Part(x) == CHOOSE f \in [S -> X] : Upto(f, rank[x] + 1)
           F == [x \in S |-> Part(x)[x]]
<1>3. ASSUME NEW x \in S PROVE Part(x) \in [S -> X] /\ Upto(Part(x), rank[x] + 1)
  <2>1. rank[x] + 1 \in Nat  OBVIOUS
  <2>2. \E f \in [S -> X] : Upto(f, rank[x] + 1)  BY <1>1, <2>1
  <2> QED  BY <2>2
<1> HIDE DEF Part
<1>4. F \in [S -> X]
  <2>1. ASSUME NEW x \in S PROVE Part(x)[x] \in X  BY <1>3
  <2> QED  BY <2>1
<1>5. ASSUME NEW x \in S PROVE Descends(F, x, B, c, H, D)
  <2>1. Descends(Part(x), x, B, c, H, D)
    <3>1. rank[x] < rank[x] + 1  OBVIOUS
    <3> QED  BY <1>3, <3>1 DEF Upto
  <2>2. CASE x \in B  BY <2>1, <2>2 DEF Descends
  <2>3. CASE x \notin B
    <3>1. D[x] \in S /\ rank[D[x]] \in Nat /\ rank[x] \in Nat /\ rank[D[x]] < rank[x]  BY <2>3
    <3>2. rank[D[x]] + 1 \in Nat /\ rank[x] + 1 \in Nat /\ rank[D[x]] + 1 <= rank[x] + 1
          /\ rank[D[x]] < rank[D[x]] + 1
      BY <3>1
    <3>3. Upto(Part(D[x]), rank[D[x]] + 1) /\ Upto(Part(x), rank[x] + 1)  BY <1>3, <3>1
    <3>4. Part(D[x])[D[x]] = Part(x)[D[x]]  BY <1>2, <3>1, <3>2, <3>3
    <3>5. F[D[x]] = Part(x)[D[x]] /\ F[x] = Part(x)[x]  BY <3>1, <3>4
    <3> HIDE DEF F
    <3> QED  BY <2>1, <2>3, <3>5 DEF Descends
  <2> QED  BY <2>2, <2>3
<1> QED  BY <1>4, <1>5
-----------------------------------------------------------------------------
LEMMA FirstOnes ==
  ASSUME NEW T, NEW s \in Seq(T), NEW i \in 0 .. Len(s)
  PROVE  /\ SubSeq(s, 1, i) \in Seq(T) /\ Len(SubSeq(s, 1, i)) = i
         /\ \A j \in 1 .. i : SubSeq(s, 1, i)[j] = s[j]
OBVIOUS

\* The first of some sequences flatten to what the steps make of them.
LEMMA FlattenFirst ==
  ASSUME NEW T, NEW seqs \in Seq(Seq(T)), NEW f \in [1 .. Len(seqs) -> Seq(T)],
         Flattens(f, seqs), NEW i \in 1 .. Len(seqs)
  PROVE  FlattenSeq(SubSeq(seqs, 1, i)) = f[i]
<1> DEFINE t == SubSeq(seqs, 1, i)
<1>1. /\ t \in Seq(Seq(T)) /\ Len(t) = i /\ t # <<>> /\ Len(seqs) \in Nat
      /\ \A j \in 1 .. i : t[j] = seqs[j]
  <2>1. i \in 0 .. Len(seqs) /\ i # 0 /\ Len(seqs) \in Nat  OBVIOUS
  <2>2. /\ t \in Seq(Seq(T)) /\ Len(t) = i /\ \A j \in 1 .. i : t[j] = seqs[j]
    BY <2>1, FirstOnes
  <2> HIDE DEF t
  <2>3. t # <<>>  BY <2>1, <2>2
  <2> QED  BY <2>1, <2>2, <2>3
<1> HIDE DEF t
<1>2. PICK g \in [1 .. i -> Seq(T)] : Flattens(g, t)
  BY <1>1, FlattenSteps
<1> PICK m \in Int : m = 1  OBVIOUS
<1>3. f[m] = g[m]
  <2>1. f[1] = seqs[1] /\ g[1] = t[1] /\ t[1] = seqs[1]
    BY <1>1, <1>2 DEF Flattens
  <2> QED  BY <2>1
<1>4. Appends(f, seqs, m, i)
  <2> SUFFICES ASSUME NEW j \in m + 1 .. i PROVE f[j] = f[j - 1] \o seqs[j]
    BY DEF Appends
  <2>1. j \in 2 .. Len(seqs)  BY <1>1
  <2> QED  BY <2>1 DEF Flattens
<1>5. Appends(g, seqs, m, i)
  <2> SUFFICES ASSUME NEW j \in m + 1 .. i PROVE g[j] = g[j - 1] \o seqs[j]
    BY DEF Appends
  <2>1. j \in 2 .. Len(t) /\ j \in 1 .. i  BY <1>1
  <2>2. g[j] = g[j - 1] \o t[j]  BY <1>2, <2>1 DEF Flattens
  <2> QED  BY <1>1, <2>1, <2>2
<1>6. i \in Int /\ m <= i  OBVIOUS
<1>7. f[i] = g[i]
  <2>1. /\ m <= i /\ f[m] = g[m] /\ Appends(f, seqs, m, i) /\ Appends(g, seqs, m, i)
    BY <1>3, <1>4, <1>5, <1>6
  <2>2. ASSUME NEW F, NEW G, NEW n \in Int, m <= n, F[m] = G[m],
               Appends(F, seqs, m, n), Appends(G, seqs, m, n)
        PROVE  F[n] = G[n]
    BY <2>2, SameAppends
  <2> QED  BY <1>6, <2>1, <2>2, Zenon
<1> QED  BY <1>1, <1>2, <1>7 DEF Flattens, t

\* Where each of the sequences lies: P[i] elements are those of the first i.
Laid(seqs, P) ==
  /\ P \in [0 .. Len(seqs) -> Nat] /\ P[0] = 0
  /\ \A i \in 1 .. Len(seqs) : P[i] = P[i - 1] + Len(seqs[i])
  /\ \A i \in 1 .. Len(seqs) : \A j \in 1 .. Len(seqs[i]) :
       FlattenSeq(seqs)[P[i - 1] + j] = seqs[i][j]
  /\ \A i \in 0 .. Len(seqs) : P[i] = Len(FlattenSeq(SubSeq(seqs, 1, i)))
  /\ Len(FlattenSeq(seqs)) = P[Len(seqs)]

LEMMA FlattenLaid ==
  ASSUME NEW T, NEW seqs \in Seq(Seq(T))
  PROVE  \E P : Laid(seqs, P)
<1> DEFINE n == Len(seqs)
<1>0. n \in Nat /\ Len(FlattenSeq(SubSeq(seqs, 1, 0))) = 0
  <2>1. SubSeq(seqs, 1, 0) = <<>>  OBVIOUS
  <2> QED  BY <2>1 DEF FlattenSeq
<1>1. CASE seqs = <<>>
  <2> DEFINE P == [i \in 0 .. 0 |-> 0]
  <2>1. n = 0 /\ FlattenSeq(seqs) = <<>>  BY <1>1 DEF FlattenSeq
  <2>2. Laid(seqs, P)  BY <1>0, <2>1 DEF Laid
  <2> QED  BY <2>2
<1>2. CASE seqs # <<>>
  <2>1. PICK f \in [1 .. n -> Seq(T)] : Flattens(f, seqs)
    BY <1>2, FlattenSteps
  <2> DEFINE P == [i \in 0 .. n |-> IF i = 0 THEN 0 ELSE Len(f[i])]
  <2>2. n >= 1 /\ \A i \in 1 .. n : seqs[i] \in Seq(T) /\ f[i] \in Seq(T)
    <3>1. n >= 1  BY <1>2
    <3>2. \A i \in 1 .. n : seqs[i] \in Seq(T)  BY Element
    <3>3. \A i \in 1 .. n : f[i] \in Seq(T)  BY <2>1
    <3> QED  BY <3>1, <3>2, <3>3
  <2>3. P \in [0 .. n -> Nat] /\ P[0] = 0 /\ \A i \in 1 .. n : P[i] = Len(f[i])
    <3>1. \A i \in 1 .. n : Len(f[i]) \in Nat  BY <2>2
    <3> HIDE DEF n
    <3> QED  BY <1>0, <3>1
  <2> HIDE DEF P
  <2>4. ASSUME NEW i \in 1 .. n
        PROVE  /\ P[i] = P[i - 1] + Len(seqs[i])
               /\ \A j \in 1 .. Len(seqs[i]) : f[i][P[i - 1] + j] = seqs[i][j]
    <3>1. CASE i = 1
      <4>1. f[i] = seqs[i] /\ P[i - 1] = 0 /\ P[i] = Len(f[i])
        BY <2>1, <2>3, <3>1 DEF Flattens
      <4>2. Len(seqs[i]) \in Nat  BY <2>2
      <4> QED  BY <4>1, <4>2
    <3>2. CASE i # 1
      <4>1. i \in 2 .. n /\ i - 1 \in 1 .. n  BY <1>0, <3>2
      <4>2. f[i] = f[i - 1] \o seqs[i] /\ P[i] = Len(f[i]) /\ P[i - 1] = Len(f[i - 1])
        BY <2>1, <2>3, <4>1 DEF Flattens
      <4>3. PICK a \in Seq(T), b \in Seq(T) : a = f[i - 1] /\ b = seqs[i]
        BY <2>2, <4>1
      <4>4. Len(a \o b) = Len(a) + Len(b) /\ \A j \in 1 .. Len(b) : (a \o b)[Len(a) + j] = b[j]
        BY Appended
      <4> QED  BY <4>2, <4>3, <4>4
    <3> QED  BY <3>1, <3>2
  <2>5. ASSUME NEW i \in 1 .. n, NEW j \in 1 .. Len(seqs[i])
        PROVE  FlattenSeq(seqs)[P[i - 1] + j] = seqs[i][j]
    <3>1. \A p \in 1 .. Len(f[i]) : FlattenSeq(seqs)[p] = f[i][p]
      BY <2>1, FlattenPrefix
    <3>2. P[i - 1] \in Nat /\ Len(seqs[i]) \in Nat /\ P[i] = Len(f[i])
          /\ P[i] = P[i - 1] + Len(seqs[i])
      <4>1. i - 1 \in 0 .. n /\ i \in 1 .. n  BY <1>0
      <4> HIDE DEF n
      <4> QED  BY <2>2, <2>3, <2>4, <4>1
    <3>3. P[i - 1] + j \in 1 .. Len(f[i])  BY <3>2
    <3> QED  BY <2>4, <3>1, <3>3
  <2>6. \A i \in 0 .. n : P[i] = Len(FlattenSeq(SubSeq(seqs, 1, i)))
    <3>1. \A i \in 1 .. n : FlattenSeq(SubSeq(seqs, 1, i)) = f[i]
      BY <2>1, FlattenFirst
    <3> HIDE DEF n
    <3> QED  BY <1>0, <2>3, <3>1
  <2>7. Len(FlattenSeq(seqs)) = P[n]
    <3>1. n \in 1 .. n  BY <1>0, <2>2
    <3> QED  BY <2>1, <2>3, <3>1 DEF Flattens
  <2> HIDE DEF n
  <2>8. Laid(seqs, P)
    BY <2>3, <2>4, <2>5, <2>6, <2>7 DEF Laid, n
  <2> QED  BY <2>8
<1> QED  BY <1>1, <1>2

LEMMA SubSeqFacts ==
  ASSUME NEW T, NEW s \in Seq(T), NEW i \in Nat \ {0}, NEW j \in i - 1 .. Len(s)
  PROVE  /\ SubSeq(s, i, j) \in Seq(T) /\ Len(SubSeq(s, i, j)) = j - i + 1
         /\ \A k \in 1 .. j - i + 1 : SubSeq(s, i, j)[k] = s[i + k - 1]
OBVIOUS

LEMMA AppendFacts ==
  ASSUME NEW T, NEW g \in Seq(T), NEW p \in T
  PROVE  /\ Append(g, p) \in Seq(T) /\ Len(Append(g, p)) = Len(g) + 1
         /\ \A i \in 1 .. Len(g) : Append(g, p)[i] = g[i]
         /\ Append(g, p)[Len(g) + 1] = p
OBVIOUS

LEMMA SameSeq ==
  ASSUME NEW T, NEW s \in Seq(T), NEW t \in Seq(T), Len(s) = Len(t),
         \A i \in 1 .. Len(s) : s[i] = t[i]
  PROVE  s = t
<1>1. s \in [1 .. Len(s) -> T] /\ t \in [1 .. Len(t) -> T]  OBVIOUS
<1> QED  BY <1>1

LEMMA WiderSeq ==
  ASSUME NEW S, NEW T, S \subseteq T, NEW s \in Seq(S)
  PROVE  s \in Seq(T)
<1>1. s \in [1 .. Len(s) -> S] /\ Len(s) \in Nat  OBVIOUS
<1>2. s \in [1 .. Len(s) -> T]  BY <1>1
<1> QED  BY <1>1, <1>2

LEMMA FcnSeq ==
  ASSUME NEW T, NEW n \in Nat, NEW f \in [1 .. n -> T]
  PROVE  f \in Seq(T) /\ Len(f) = n
OBVIOUS

LEMMA Associative ==
  ASSUME NEW T, NEW s \in Seq(T), NEW t \in Seq(T), NEW u \in Seq(T)
  PROVE  (s \o t) \o u = s \o (t \o u)
OBVIOUS

LEMMA FirstOnesAppend ==
  ASSUME NEW T, NEW s \in Seq(T), NEW i \in 1 .. Len(s)
  PROVE  Append(SubSeq(s, 1, i - 1), s[i]) = SubSeq(s, 1, i)
<1> DEFINE a == SubSeq(s, 1, i - 1)
           c == SubSeq(s, 1, i)
<1>1. i - 1 \in 0 .. Len(s) /\ i \in 0 .. Len(s) /\ i \in Nat  OBVIOUS
<1>2. a \in Seq(T) /\ Len(a) = i - 1 /\ \A j \in 1 .. i - 1 : a[j] = s[j]
  BY <1>1, FirstOnes
<1>3. c \in Seq(T) /\ Len(c) = i /\ \A j \in 1 .. i : c[j] = s[j]
  BY <1>1, FirstOnes
<1> HIDE DEF a, c
<1> DEFINE d == Append(a, s[i])
<1>4. /\ d \in Seq(T) /\ Len(d) = Len(a) + 1 /\ \A j \in 1 .. Len(a) : d[j] = a[j]
      /\ d[Len(a) + 1] = s[i]
  <2>1. s[i] \in T  OBVIOUS
  <2> QED  BY <1>2, <2>1, AppendFacts
<1> HIDE DEF d
<1>5. Len(d) = i /\ d[i] = s[i] /\ \A j \in 1 .. i - 1 : d[j] = s[j]
  BY <1>1, <1>2, <1>4
<1>6. ASSUME NEW j \in 1 .. Len(d) PROVE d[j] = c[j]
  <2>1. j \in 1 .. i /\ (j = i \/ j \in 1 .. i - 1)  BY <1>1, <1>5
  <2> QED  BY <1>3, <1>5, <2>1
<1>7. d = c  BY <1>3, <1>4, <1>5, <1>6, SameSeq
<1> QED  BY <1>7 DEF a, c, d

LEMMA SplitSeq ==
  ASSUME NEW T, NEW w \in Seq(T), NEW k \in 1 .. Len(w)
  PROVE  /\ SubSeq(w, 1, k) \in Seq(T) /\ SubSeq(w, k + 1, Len(w)) \in Seq(T)
         /\ SubSeq(w, 1, k) \o SubSeq(w, k + 1, Len(w)) = w
<1> PICK n \in Nat, k1 \in Nat \ {0} : n = Len(w) /\ k1 = k + 1  OBVIOUS
<1> DEFINE x == SubSeq(w, 1, k)
           y == SubSeq(w, k1, n)
<1>1. x \in Seq(T) /\ Len(x) = k /\ \A i \in 1 .. k : x[i] = w[i]
  <2>1. k \in 0 .. Len(w)  OBVIOUS
  <2> HIDE DEF x
  <2>2. x \in Seq(T) /\ Len(x) = k /\ \A i \in 1 .. k : x[i] = w[i]
    BY <2>1, FirstOnes DEF x
  <2> QED  BY <2>2
<1>2. y \in Seq(T) /\ Len(y) = n - k /\ \A i \in 1 .. n - k : y[i] = w[k + i]
  <2>1. n \in k1 - 1 .. Len(w) /\ n - k1 + 1 = n - k  OBVIOUS
  <2>2. \A i \in 1 .. n - k : k1 + i - 1 = k + i  OBVIOUS
  <2> HIDE DEF y
  <2>3. y \in Seq(T) /\ Len(y) = n - k1 + 1 /\ \A i \in 1 .. n - k1 + 1 : y[i] = w[k1 + i - 1]
    BY <2>1, SubSeqFacts DEF y
  <2> QED  BY <2>1, <2>2, <2>3
<1> HIDE DEF x, y
<1>3. /\ x \o y \in Seq(T) /\ Len(x \o y) = Len(x) + Len(y)
      /\ \A i \in 1 .. Len(x) : (x \o y)[i] = x[i]
      /\ \A i \in 1 .. Len(y) : (x \o y)[Len(x) + i] = y[i]
  <2>1. x \in Seq(T) /\ y \in Seq(T)  BY <1>1, <1>2
  <2> QED  BY <2>1, Appended
<1>4. Len(x \o y) = Len(w)
  <2>1. k + (n - k) = n  OBVIOUS
  <2> QED  BY <1>1, <1>2, <1>3, <2>1
<1>5. ASSUME NEW i \in 1 .. Len(w) PROVE (x \o y)[i] = w[i]
  <2>1. CASE i <= k  BY <1>1, <1>3, <2>1
  <2>2. CASE ~(i <= k)
    <3> PICK j \in 1 .. n - k : i = k + j
      <4>1. i - k \in 1 .. n - k /\ i = k + (i - k)  BY <2>2
      <4> QED  BY <4>1
    <3> QED  BY <1>1, <1>2, <1>3
  <2> QED  BY <2>1, <2>2
<1>6. x \o y = w  BY <1>3, <1>4, <1>5, SameSeq
<1> QED  BY <1>1, <1>2, <1>6 DEF x, y

\* A bounded set of numbers has a greatest one.
LEMMA Greatest ==
  ASSUME NEW n \in Nat, NEW S, S \subseteq 1 .. n, S # {}
  PROVE  Max(S) \in S /\ \A y \in S : y <= Max(S)
<1> DEFINE D == { d \in Nat : n - d \in S }
<1>1. D \subseteq Nat /\ D # {}
  <2> PICK x \in S : TRUE  OBVIOUS
  <2>1. n - x \in Nat /\ n - (n - x) = x  OBVIOUS
  <2>2. n - x \in D  BY <2>1
  <2> QED  BY <2>2
<1>2. \A x \in S : n - x \in D
  <2> SUFFICES ASSUME NEW x \in S PROVE n - x \in D
    OBVIOUS
  <2>1. n - x \in Nat /\ n - (n - x) = x  OBVIOUS
  <2> QED  BY <2>1
<1>3. \A d \in D : d \in Nat /\ n - d \in S  OBVIOUS
<1> HIDE DEF D
<1> PICK m \in D : \A d \in D : m <= d  BY <1>1, Least
<1>4. n - m \in S /\ \A y \in S : y <= n - m
  <2> SUFFICES ASSUME NEW y \in S PROVE y <= n - m
    BY <1>3
  <2>1. m <= n - y /\ m \in Nat /\ y \in 1 .. n  BY <1>2, <1>3
  <2> QED  BY <2>1
<1>5. \E x \in S : \A y \in S : x >= y
  <2>1. \A y \in S : n - m >= y
    <3> SUFFICES ASSUME NEW y \in S PROVE n - m >= y
      OBVIOUS
    <3>1. y <= n - m /\ m \in Nat /\ y \in 1 .. n  BY <1>3, <1>4
    <3> QED  BY <3>1
  <2> QED  BY <1>4, <2>1
<1>6. Max(S) \in S /\ \A y \in S : Max(S) >= y  BY <1>5 DEF Max
<1> PICK x : x = Max(S)  OBVIOUS
<1>7. x \in S /\ \A y \in S : x >= y  BY <1>6
<1>8. \A y \in S : y <= x
  <2> SUFFICES ASSUME NEW y \in S PROVE y <= x
    OBVIOUS
  <2>1. x \in 1 .. n /\ y \in 1 .. n /\ x >= y  BY <1>7
  <2> QED  BY <2>1
<1> QED  BY <1>7, <1>8

\* Later pieces lie further on.
LEMMA LaidInOrder ==
  ASSUME NEW T, NEW seqs \in Seq(Seq(T)), NEW P, Laid(seqs, P)
  PROVE  \A i, j \in 0 .. Len(seqs) : i <= j => P[i] <= P[j]
<1> DEFINE n == Len(seqs)
<1>1. n \in Nat /\ \A k \in 1 .. n : Len(seqs[k]) \in Nat
  <2>1. \A k \in 1 .. n : seqs[k] \in Seq(T)  BY Element
  <2> QED  BY <2>1
<1>2. /\ P \in [0 .. n -> Nat] /\ \A k \in 1 .. n : P[k] = P[k - 1] + Len(seqs[k])
  BY DEF Laid
<1> HIDE DEF n
<1> SUFFICES ASSUME NEW i \in 0 .. n PROVE \A j \in i .. n : P[i] <= P[j]
  BY <1>1 DEF n
<1> DEFINE S == { j \in i .. n : P[i] <= P[j] }
<1>3. i \in S
  <2>1. i \in i .. n /\ P[i] \in Nat  BY <1>1, <1>2
  <2> QED  BY <2>1
<1>4. ASSUME NEW j \in i .. n - 1, j \in S PROVE j + 1 \in S
  <2>1. j + 1 \in 1 .. n /\ (j + 1) - 1 = j /\ j \in 0 .. n /\ j + 1 \in i .. n
    BY <1>1
  <2>2. P[j + 1] = P[(j + 1) - 1] + Len(seqs[j + 1])  BY <1>2, <2>1
  <2>3. P[j] \in Nat /\ P[i] \in Nat /\ Len(seqs[j + 1]) \in Nat /\ P[i] <= P[j]
    BY <1>1, <1>2, <1>4, <2>1
  <2>4. P[i] <= P[j + 1]  BY <2>1, <2>2, <2>3
  <2> QED  BY <2>1, <2>4
<1>5. \A j \in i .. n : j \in S
  <2>1. i \in Int /\ n \in Int /\ \A j \in i .. n - 1 : j \in S => j + 1 \in S  BY <1>1, <1>4
  <2> HIDE DEF S
  <2> QED  BY <1>3, <2>1, IntervalInduction
<1> QED  BY <1>5
=============================================================================
