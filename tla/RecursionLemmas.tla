-------------------------- MODULE RecursionLemmas --------------------------
(***************************************************************************)
(* What loops over data compute: induction on the natural numbers, stated  *)
(* over sets so that the provers can apply it, the function that a loop    *)
(* with an accumulator defines, and FlattenSeq, the loop that appends.     *)
(***************************************************************************)
EXTENDS Integers, Sequences, SequencesExt, SequenceTheorems, WellFoundedInduction, TLAPS

\* A set of natural numbers that is not empty has a least element.
LEMMA LeastNat ==
  ASSUME NEW S, S \subseteq Nat, S # {}
  PROVE  \E x \in S : \A y \in S : x <= y
<1> DEFINE R == {ss \in Nat \X Nat : ss[1] < ss[2]}
<1>1. IsWellFoundedOn(R, Nat)
  BY NatLessThanWellFounded DEF OpToRel
<1>2. \A x, y \in Nat : y < x => <<y, x>> \in R
  OBVIOUS
<1>3. \E x \in S : \A y \in S : ~(<<y, x>> \in R)
  <2> HIDE DEF R
  <2> QED
    BY <1>1, WFMin
<1> HIDE DEF R
<1>4. PICK x \in S : \A y \in S : ~(<<y, x>> \in R)
  BY <1>3
<1>5. ASSUME NEW y \in S PROVE x <= y
  <2>1. x \in Nat /\ y \in Nat /\ ~(<<y, x>> \in R)
    BY <1>4
  <2>2. ~(y < x)
    BY <1>2, <2>1
  <2> QED
    BY <2>1, <2>2
<1> QED
  BY <1>5

\* Induction: a set that has 0 and, with a number, the next one, has them all.
LEMMA NatSetInduction ==
  ASSUME NEW S, 0 \in S, \A n \in Nat : n \in S => n + 1 \in S
  PROVE  \A n \in Nat : n \in S
<1> DEFINE T == {n \in Nat : n \notin S}
<1>1. SUFFICES ASSUME T # {} PROVE FALSE
  OBVIOUS
<1>2. PICK x \in T : \A y \in T : x <= y
  BY <1>1, LeastNat
<1>3. x - 1 \in Nat /\ x - 1 < x
  BY <1>2
<1>4. x - 1 \in S
  BY <1>2, <1>3
<1> QED
  BY <1>2, <1>3, <1>4, x = (x - 1) + 1

\* The same up to a bound.
LEMMA UpToInduction ==
  ASSUME NEW b \in Nat, NEW S, 0 \in S, \A n \in 0 .. b - 1 : n \in S => n + 1 \in S
  PROVE  \A n \in 0..b : n \in S
<1> DEFINE T == {n \in Nat : n <= b => n \in S}
<1>1. 0 \in T
  OBVIOUS
<1>2. ASSUME NEW n \in Nat, n \in T PROVE n + 1 \in T
  BY <1>2, n + 1 <= b => n \in 0 .. b - 1
<1> HIDE DEF T
<1>3. \A n \in Nat : n \in T
  BY <1>1, <1>2, NatSetInduction
<1> QED
  BY <1>3 DEF T

\* A set of numbers up to a bound that is not empty has a greatest element.
LEMMA GreatestNat ==
  ASSUME NEW b \in Nat, NEW S, S \subseteq 0..b, S # {}
  PROVE  \E x \in S : \A y \in S : y <= x
<1> DEFINE T == {b - x : x \in S}
<1>1. T \subseteq Nat
  <2>1. ASSUME NEW x \in S PROVE b - x \in Nat
    <3>1. x \in 0..b
      OBVIOUS
    <3> QED
      BY <3>1
  <2> QED
    BY <2>1
<1>5. T # {}
  OBVIOUS
<1>2. PICK t \in T : \A u \in T : t <= u
  BY <1>1, <1>5, LeastNat
<1>3. PICK x \in S : t = b - x
  BY <1>2
<1>4. ASSUME NEW y \in S PROVE y <= x
  <2>1. b - y \in T
    OBVIOUS
  <2>2. x \in 0..b /\ y \in 0..b /\ b - x <= b - y
    BY <1>2, <1>3, <2>1
  <2> QED
    BY <2>2
<1> QED
  BY <1>4

-----------------------------------------------------------------------------

\* A loop of n rounds over an accumulator, e before the first round, as the
\* function of its values after each round.
Loops(n, T, e, step) == {f \in [0..n -> T] : f[0] = e /\ \A i \in 1..n : f[i] = step[i][f[i-1]]}

\* There is one.
LEMMA LoopDefined ==
  ASSUME NEW n \in Nat, NEW T, NEW e \in T, NEW step \in [1..n -> [T -> T]]
  PROVE  Loops(n, T, e, step) # {}
<1> DEFINE Upto(m) == {f \in [0..m -> T] : f[0] = e /\ \A i \in 1..m : f[i] = step[i][f[i-1]]}
           S == {m \in 0..n : Upto(m) # {}}
<1>1. 0 \in S
  <2>1. [i \in 0..0 |-> e] \in Upto(0)
    OBVIOUS
  <2> QED
    BY <2>1
<1>2. ASSUME NEW m \in 0 .. n - 1, m \in S PROVE m + 1 \in S
  <2>1. PICK f : f \in Upto(m)
    BY <1>2
  <2> DEFINE g == [i \in 0 .. m + 1 |-> IF i <= m THEN f[i] ELSE step[m + 1][f[m]]]
  <2>2. f[m] \in T /\ m + 1 \in 1..n /\ step[m + 1] \in [T -> T]
    BY <2>1
  <2>3. g \in [0 .. m + 1 -> T]
    BY <2>1, <2>2
  <2>4. g[0] = e
    BY <2>1
  <2>5. ASSUME NEW i \in 1 .. m + 1 PROVE g[i] = step[i][g[i-1]]
    <3>1. CASE i <= m
      BY <2>1, <3>1, i \in 1..m
    <3>2. CASE i = m + 1
      BY <2>1, <3>2, i - 1 = m
    <3> QED
      BY <3>1, <3>2
  <2>6. g \in Upto(m + 1)
    BY <2>3, <2>4, <2>5
  <2> QED
    BY <2>6, m + 1 \in 0..n
<1> HIDE DEF S
<1>3. \A m \in 0..n : m \in S
  BY <1>1, <1>2, UpToInduction
<1> QED
  BY <1>3, n \in 0..n DEF S, Loops

-----------------------------------------------------------------------------
(* FlattenSeq(seqs) appends the sequences of seqs to one another.          *)

\* A function that appends them one by one has FlattenSeq(seqs) at its end.
LEMMA FlattenIsLast ==
  ASSUME NEW X, NEW seqs \in Seq(Seq(X)), NEW f \in [0..Len(seqs) -> Seq(X)],
         f[0] = <<>>, \A i \in 1..Len(seqs) : f[i] = f[i-1] \o seqs[i]
  PROVE  FlattenSeq(seqs) = f[Len(seqs)]
<1> DEFINE n == Len(seqs)
           Rounds(g) == [i \in 1..n |-> IF i = 1 THEN seqs[i] ELSE g[i-1] \o seqs[i]]
           h == CHOOSE g : g = Rounds(g)
<1>1. n \in Nat
  OBVIOUS
<1>2. CASE n = 0
  <2>1. FlattenSeq(seqs) = seqs /\ seqs = <<>>
    BY <1>2 DEF FlattenSeq
  <2> QED
    BY <2>1, <1>2
<1>3. CASE n # 0
  <2>1. FlattenSeq(seqs) = h[n]
    BY <1>3 DEF FlattenSeq
  <2> DEFINE g == [i \in 1..n |-> f[i]]
  <2>2. g = Rounds(g)
    <3>1. ASSUME NEW i \in 1..n PROVE g[i] = IF i = 1 THEN seqs[i] ELSE g[i-1] \o seqs[i]
      <4>1. CASE i = 1
        <5>1. seqs[1] \in Seq(X) /\ f[1] = <<>> \o seqs[1]
          <6>1. 1 \in 1..n /\ 0 \in 0..n /\ 1 - 1 = 0
            BY <4>1, <1>1
          <6>2. f[1] = f[1 - 1] \o seqs[1]
            BY <6>1
          <6> QED
            BY SMTT(30), <6>1, <6>2
        <5> QED
          BY <4>1, <5>1
      <4>2. CASE i # 1
        BY <4>2, <1>1, i - 1 \in 1..n
      <4> QED
        BY <4>1, <4>2
    <3> QED
      BY <3>1
  <2> HIDE DEF g
  <2>3. h = Rounds(h)
    BY <2>2
  <2> HIDE DEF h
  <2> DEFINE S == {i \in 0..n : i = 0 \/ h[i] = f[i]}
  <2>4. 0 \in S
    BY <1>1
  <2>5. ASSUME NEW i \in 0 .. n - 1, i \in S PROVE i + 1 \in S
    <3>1. i + 1 \in 1..n /\ i + 1 \in 0..n /\ (i + 1) - 1 = i
      BY <1>1
    <3>2. h[i + 1] = IF i + 1 = 1 THEN seqs[i + 1] ELSE h[i] \o seqs[i + 1]
      <4>1. \A j \in 1..n : h[j] = IF j = 1 THEN seqs[j] ELSE h[j-1] \o seqs[j]
        BY <2>3
      <4>2. h[i + 1] = IF i + 1 = 1 THEN seqs[i + 1] ELSE h[(i + 1) - 1] \o seqs[i + 1]
        BY <3>1, <4>1
      <4> QED
        BY <3>1, <4>2
    <3>3. f[i + 1] = f[i] \o seqs[i + 1]
      <4>1. f[i + 1] = f[(i + 1) - 1] \o seqs[i + 1]
        BY <3>1
      <4> QED
        BY <3>1, <4>1
    <3>4. CASE i = 0
      <4>1. seqs[1] \in Seq(X) /\ f[1] = <<>> \o seqs[1]
        <5>1. i + 1 = 1 /\ 1 \in 1..n
          BY <3>4, <3>1
        <5>2. f[1] = f[0] \o seqs[1]
          BY <3>3, <3>4, <5>1
        <5>3. seqs[1] \in Seq(X)
          BY <5>1
        <5> QED
          BY <5>2, <5>3
      <4> QED
        BY <3>1, <3>2, <3>4, <4>1
    <3>5. CASE i # 0
      <4>1. h[i] = f[i] /\ i + 1 # 1
        BY <3>1, <3>5, <2>5
      <4> QED
        BY <3>1, <3>2, <3>3, <4>1
    <3> QED
      BY <3>4, <3>5
  <2> HIDE DEF S
  <2>6. \A i \in 0..n : i \in S
    BY <1>1, <2>4, <2>5, UpToInduction
  <2>7. h[n] = f[n]
    BY <1>1, <1>3, <2>6 DEF S
  <2> QED
    BY <2>1, <2>7
<1> QED
  BY <1>2, <1>3

\* What FlattenSeq makes of the first m sequences, round by round.
LEMMA FlattenRounds ==
  ASSUME NEW X, NEW seqs \in Seq(Seq(X))
  PROVE  \E f \in [0..Len(seqs) -> Seq(X)] :
            /\ f[0] = <<>>
            /\ \A i \in 1..Len(seqs) : f[i] = f[i-1] \o seqs[i]
            /\ \A m \in 0..Len(seqs) : FlattenSeq(SubSeq(seqs, 1, m)) = f[m]
<1> DEFINE n == Len(seqs)
           step == [i \in 1..n |-> [t \in Seq(X) |-> t \o seqs[i]]]
<1>1. n \in Nat /\ <<>> \in Seq(X)
  OBVIOUS
<1>2. step \in [1..n -> [Seq(X) -> Seq(X)]]
  <2>1. ASSUME NEW i \in 1..n, NEW t \in Seq(X) PROVE t \o seqs[i] \in Seq(X)
    BY seqs[i] \in Seq(X)
  <2> QED
    BY <2>1
<1>3. Loops(n, Seq(X), <<>>, step) # {}
  <2> HIDE DEF n, step
  <2> QED
    BY <1>1, <1>2, LoopDefined
<1>4. PICK f \in [0..n -> Seq(X)] : f[0] = <<>> /\ \A i \in 1..n : f[i] = step[i][f[i-1]]
  <2> HIDE DEF n, step
  <2> QED
    BY <1>3 DEF Loops
<1>5. \A i \in 1..n : f[i] = f[i-1] \o seqs[i]
  <2>1. ASSUME NEW i \in 1..n PROVE f[i] = f[i-1] \o seqs[i]
    <3>1. i - 1 \in 0..n
      BY <1>1
    <3>2. f[i-1] \in Seq(X)
      BY <3>1
    <3> QED
      BY <1>4, <3>2
  <2> QED
    BY <2>1
<1>6. ASSUME NEW m \in 0..n PROVE FlattenSeq(SubSeq(seqs, 1, m)) = f[m]
  <2> DEFINE s == SubSeq(seqs, 1, m)
             g == [i \in 0..m |-> f[i]]
  <2>1. s \in Seq(Seq(X)) /\ Len(s) = m /\ \A i \in 1..m : s[i] = seqs[i]
    BY <1>1
  <2>2. g \in [0..m -> Seq(X)] /\ g[0] = <<>>
    <3>1. \A i \in 0..m : i \in 0..n
      BY <1>1
    <3>2. 0 \in 0..m
      BY <1>1
    <3> QED
      BY <1>4, <3>1, <3>2
  <2>3. \A i \in 1..m : g[i] = g[i-1] \o s[i]
    <3>1. ASSUME NEW i \in 1..m PROVE g[i] = g[i-1] \o s[i]
      <4>1. i \in 1..n /\ i - 1 \in 0..m /\ i \in 0..m
        BY <1>1
      <4> QED
        BY <1>5, <2>1, <4>1
    <3> QED
      BY <3>1
  <2>4. g[m] = f[m]
    BY <1>1
  <2> HIDE DEF s, g
  <2>5. FlattenSeq(s) = g[Len(s)]
    BY <2>1, <2>2, <2>3, FlattenIsLast
  <2> QED
    BY <2>1, <2>4, <2>5 DEF s
<1> QED
  BY <1>4, <1>5, <1>6

\* Where the elements of two sequences stand in the two together.
LEMMA ConcatAt ==
  ASSUME NEW X, NEW a \in Seq(X), NEW b \in Seq(X)
  PROVE  /\ \A p \in 1..Len(a) : p \in 1..Len(a \o b) /\ (a \o b)[p] = a[p]
         /\ \A p \in 1..Len(a \o b) : p <= Len(a) \/ (p - Len(a) \in 1..Len(b) /\ (a \o b)[p] = b[p - Len(a)])
<1>1. Len(a) \in Nat /\ Len(b) \in Nat /\ Len(a \o b) = Len(a) + Len(b)
  BY ConcatProperties
<1>2. \A p \in 1 .. Len(a) + Len(b) : (a \o b)[p] = IF p <= Len(a) THEN a[p] ELSE b[p - Len(a)]
  BY ConcatProperties
<1> QED
  BY <1>1, <1>2

\* Appending to nothing gives nothing, and each sequence comes after the ones
\* before it.
LEMMA FlattenPrefix ==
  ASSUME NEW X, NEW seqs \in Seq(Seq(X))
  PROVE  /\ FlattenSeq(SubSeq(seqs, 1, 0)) = <<>>
         /\ FlattenSeq(SubSeq(seqs, 1, Len(seqs))) = FlattenSeq(seqs)
         /\ \A m \in 0..Len(seqs) : FlattenSeq(SubSeq(seqs, 1, m)) \in Seq(X)
         /\ \A m \in 1..Len(seqs) : FlattenSeq(SubSeq(seqs, 1, m)) = FlattenSeq(SubSeq(seqs, 1, m - 1)) \o seqs[m]
<1>1. PICK f \in [0..Len(seqs) -> Seq(X)] :
        /\ f[0] = <<>>
        /\ \A i \in 1..Len(seqs) : f[i] = f[i-1] \o seqs[i]
        /\ \A m \in 0..Len(seqs) : FlattenSeq(SubSeq(seqs, 1, m)) = f[m]
  BY FlattenRounds
<1>2. Len(seqs) \in Nat /\ SubSeq(seqs, 1, Len(seqs)) = seqs
  OBVIOUS
<1>3. \A m \in 1..Len(seqs) : m \in 0..Len(seqs) /\ m - 1 \in 0..Len(seqs)
  BY <1>2
<1> QED
  BY <1>1, <1>2, <1>3, 0 \in 0..Len(seqs)

LEMMA FlattenType ==
  ASSUME NEW X, NEW seqs \in Seq(Seq(X))
  PROVE  FlattenSeq(seqs) \in Seq(X)
BY FlattenPrefix, Len(seqs) \in 0..Len(seqs)

\* Element k of sequence i stands k places after what comes before it.
LEMMA FlattenAt ==
  ASSUME NEW X, NEW seqs \in Seq(Seq(X)), NEW i \in 1..Len(seqs), NEW k \in 1..Len(seqs[i])
  PROVE  /\ Len(FlattenSeq(SubSeq(seqs, 1, i - 1))) + k \in 1..Len(FlattenSeq(seqs))
         /\ FlattenSeq(seqs)[Len(FlattenSeq(SubSeq(seqs, 1, i - 1))) + k] = seqs[i][k]
<1> DEFINE n == Len(seqs)
           F(m) == FlattenSeq(SubSeq(seqs, 1, m))
           p == Len(F(i - 1)) + k
           S == {d \in 0 .. n - i : p \in 1..Len(F(i + d)) /\ F(i + d)[p] = seqs[i][k]}
<1>1. n \in Nat /\ i \in 1..n /\ n - i \in Nat
  OBVIOUS
<1>2. (\A m \in 0..n : F(m) \in Seq(X)) /\ \A m \in 1..n : F(m) = F(m - 1) \o seqs[m]
  BY FlattenPrefix
<1>3. F(n) = FlattenSeq(seqs)
  BY FlattenPrefix
<1>4. \A m \in 1..n : seqs[m] \in Seq(X)
  OBVIOUS
<1> HIDE DEF F
<1>5. 0 \in S
  <2>1. F(i) = F(i - 1) \o seqs[i] /\ F(i - 1) \in Seq(X) /\ seqs[i] \in Seq(X)
    BY <1>1, <1>2, <1>4, i - 1 \in 0..n
  <2>2. p \in 1..Len(F(i)) /\ F(i)[p] = seqs[i][k]
    BY <2>1
  <2> QED
    BY <2>2, <1>1, i + 0 = i
<1>6. ASSUME NEW d \in 0 .. (n - i) - 1, d \in S PROVE d + 1 \in S
  <2>1. i + d \in 0..n /\ i + (d + 1) \in 1..n /\ (i + (d + 1)) - 1 = i + d /\ d + 1 \in 0 .. n - i
    BY <1>1
  <2>2. F(i + (d + 1)) = F(i + d) \o seqs[i + (d + 1)] /\ F(i + d) \in Seq(X) /\ seqs[i + (d + 1)] \in Seq(X)
    <3>1. F(i + (d + 1)) = F((i + (d + 1)) - 1) \o seqs[i + (d + 1)]
      BY <1>2, <2>1
    <3> QED
      BY <1>2, <1>4, <2>1, <3>1
  <2>3. p \in 1..Len(F(i + d)) /\ F(i + d)[p] = seqs[i][k]
    BY <1>6
  <2> HIDE DEF p
  <2>4. p \in 1..Len(F(i + (d + 1))) /\ F(i + (d + 1))[p] = seqs[i][k]
    <3> DEFINE a == F(i + d)
               b == seqs[i + (d + 1)]
    <3>1. a \in Seq(X) /\ b \in Seq(X) /\ F(i + (d + 1)) = a \o b /\ p \in 1..Len(a) /\ a[p] = seqs[i][k]
      BY <2>2, <2>3
    <3> HIDE DEF a, b
    <3>2. p \in 1..Len(a \o b) /\ (a \o b)[p] = a[p]
      BY <3>1, ConcatAt
    <3> QED
      BY <3>1, <3>2
  <2> QED
    BY <2>1, <2>4
<1> HIDE DEF S
<1>7. \A d \in 0 .. n - i : d \in S
  BY <1>1, <1>5, <1>6, UpToInduction
<1>8. n - i \in S /\ i + (n - i) = n
  BY <1>1, <1>7
<1> QED
  BY <1>3, <1>8 DEF S, F

\* The elements are those of the sequences.
LEMMA FlattenElements ==
  ASSUME NEW X, NEW seqs \in Seq(Seq(X)), NEW p \in 1..Len(FlattenSeq(seqs))
  PROVE  \E i \in 1..Len(seqs) : \E k \in 1..Len(seqs[i]) : FlattenSeq(seqs)[p] = seqs[i][k]
<1> DEFINE n == Len(seqs)
           F(m) == FlattenSeq(SubSeq(seqs, 1, m))
           From(e, m) == \E i \in 1..m : \E k \in 1..Len(seqs[i]) : e = seqs[i][k]
           S == {m \in 0..n : \A q \in 1..Len(F(m)) : From(F(m)[q], m)}
<1>1. n \in Nat
  OBVIOUS
<1>2. (\A m \in 0..n : F(m) \in Seq(X)) /\ \A m \in 1..n : F(m) = F(m - 1) \o seqs[m]
  BY FlattenPrefix
<1>3. F(n) = FlattenSeq(seqs) /\ F(0) = <<>>
  BY FlattenPrefix
<1>4. \A m \in 1..n : seqs[m] \in Seq(X)
  OBVIOUS
<1> HIDE DEF F
<1>5. 0 \in S
  BY <1>1, <1>3
<1>6. ASSUME NEW m \in 0 .. n - 1, m \in S PROVE m + 1 \in S
  <2>1. m \in 0..n /\ m + 1 \in 1..n /\ (m + 1) - 1 = m
    BY <1>1
  <2>2. F(m + 1) = F(m) \o seqs[m + 1] /\ F(m) \in Seq(X) /\ seqs[m + 1] \in Seq(X)
    <3>1. F(m + 1) = F((m + 1) - 1) \o seqs[m + 1]
      BY <1>2, <2>1
    <3> QED
      BY <1>2, <1>4, <2>1, <3>1
  <2>3. ASSUME NEW q \in 1..Len(F(m + 1)) PROVE From(F(m + 1)[q], m + 1)
    <3>1. CASE q <= Len(F(m))
      <4>1. q \in 1..Len(F(m)) /\ F(m + 1)[q] = F(m)[q]
        BY <2>2, <3>1, ConcatProperties
      <4>2. From(F(m)[q], m)
        BY <1>6, <4>1
      <4>3. \A i \in 1..m : i \in 1 .. m + 1
        BY <2>1
      <4> QED
        BY <4>1, <4>2, <4>3
    <3>2. CASE ~(q <= Len(F(m)))
      <4>1. q - Len(F(m)) \in 1..Len(seqs[m + 1]) /\ F(m + 1)[q] = seqs[m + 1][q - Len(F(m))]
        <5> DEFINE a == F(m)
                   b == seqs[m + 1]
        <5>1. a \in Seq(X) /\ b \in Seq(X) /\ F(m + 1) = a \o b /\ q \in 1..Len(a \o b) /\ ~(q <= Len(a))
          BY <2>2, <3>2
        <5> HIDE DEF a, b
        <5>2. \A r \in 1..Len(a \o b) : r <= Len(a) \/ (r - Len(a) \in 1..Len(b) /\ (a \o b)[r] = b[r - Len(a)])
          BY <5>1, ConcatAt
        <5>3. q - Len(a) \in 1..Len(b) /\ (a \o b)[q] = b[q - Len(a)]
          BY <5>1, <5>2
        <5> QED
          BY <5>1, <5>3 DEF a, b
      <4> QED
        BY SMTT(30), <4>1, <2>1
    <3> QED
      BY <3>1, <3>2
  <2>4. m + 1 \in 0..n
    BY <1>1, <2>1
  <2> HIDE DEF From, n
  <2> QED
    BY <2>3, <2>4
<1> HIDE DEF S
<1>7. \A m \in 0..n : m \in S
  BY <1>1, <1>5, <1>6, UpToInduction
<1>8. n \in S
  BY <1>1, <1>7
<1> QED
  BY SMTT(30), <1>3, <1>8 DEF S, F

\* The same of sets of elements.
Elements(s) == {s[i] : i \in 1..Len(s)}

LEMMA FlattenElementSet ==
  ASSUME NEW X, NEW seqs \in Seq(Seq(X)), NEW e
  PROVE  e \in Elements(FlattenSeq(seqs)) <=> \E i \in 1..Len(seqs) : e \in Elements(seqs[i])
<1>1. ASSUME e \in Elements(FlattenSeq(seqs)) PROVE \E i \in 1..Len(seqs) : e \in Elements(seqs[i])
  <2>1. PICK p \in 1..Len(FlattenSeq(seqs)) : e = FlattenSeq(seqs)[p]
    BY <1>1 DEF Elements
  <2>2. PICK i \in 1..Len(seqs) : \E k \in 1..Len(seqs[i]) : FlattenSeq(seqs)[p] = seqs[i][k]
    BY FlattenElements
  <2> QED
    BY <2>1, <2>2 DEF Elements
<1>2. ASSUME NEW i \in 1..Len(seqs), e \in Elements(seqs[i]) PROVE e \in Elements(FlattenSeq(seqs))
  <2>1. PICK k \in 1..Len(seqs[i]) : e = seqs[i][k]
    BY <1>2 DEF Elements
  <2> DEFINE p == Len(FlattenSeq(SubSeq(seqs, 1, i - 1))) + k
  <2>2. p \in 1..Len(FlattenSeq(seqs)) /\ FlattenSeq(seqs)[p] = seqs[i][k]
    BY FlattenAt
  <2> HIDE DEF p
  <2> QED
    BY <2>1, <2>2 DEF Elements
<1> QED
  BY <1>1, <1>2

LEMMA ConcatElements ==
  ASSUME NEW X, NEW a \in Seq(X), NEW b \in Seq(X)
  PROVE  a \o b \in Seq(X) /\ Elements(a \o b) = Elements(a) \cup Elements(b)
<1>1. a \o b \in Seq(X) /\ Len(a) \in Nat /\ Len(b) \in Nat /\ Len(a \o b) = Len(a) + Len(b)
  BY ConcatProperties
<1>2. \A i \in 1 .. Len(a) + Len(b) : (a \o b)[i] = IF i <= Len(a) THEN a[i] ELSE b[i - Len(a)]
  BY ConcatProperties
<1>3. ASSUME NEW i \in 1..Len(a \o b) PROVE (a \o b)[i] \in Elements(a) \cup Elements(b)
  <2>1. CASE i <= Len(a)
    BY <1>1, <1>2, <2>1, i \in 1..Len(a) DEF Elements
  <2>2. CASE ~(i <= Len(a))
    BY <1>1, <1>2, <2>2, i - Len(a) \in 1..Len(b) DEF Elements
  <2> QED
    BY <2>1, <2>2
<1>4. ASSUME NEW i \in 1..Len(a) PROVE a[i] \in Elements(a \o b)
  BY SMTT(30), <1>1, <1>2, i \in 1..Len(a \o b) DEF Elements
<1>5. ASSUME NEW i \in 1..Len(b) PROVE b[i] \in Elements(a \o b)
  <2>1. Len(a) + i \in 1..Len(a \o b) /\ ~(Len(a) + i <= Len(a)) /\ (Len(a) + i) - Len(a) = i
    BY <1>1
  <2>2. (a \o b)[Len(a) + i] = b[i]
    BY <1>1, <1>2, <2>1
  <2> QED
    BY <2>1, <2>2 DEF Elements
<1> QED
  BY <1>1, <1>3, <1>4, <1>5 DEF Elements

=============================================================================
