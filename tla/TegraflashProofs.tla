-------------------------- MODULE TegraflashProofs --------------------------
(***************************************************************************)
(* In a session for an unsecured T234 the state is well typed, and what    *)
(* the device is about to be sent is signed.  todo has a proof outline: a  *)
(* set of facts before each of its steps, such that each step may be taken *)
(* with what is known before it and leaves what is known after it.  The    *)
(* first half shows that every method and every command has one, from its  *)
(* steps alone; the second that an action does to the files what the       *)
(* outline says of its step.                                               *)
(***************************************************************************)
EXTENDS TegraflashInv, RecursionLemmas, TLAPS

-----------------------------------------------------------------------------
(* Short sequences.                                                        *)

\* A sequence with one more element.

LEMMA OneMore ==
  ASSUME NEW Z, NEW s \in Seq(Z), NEW x \in Z, NEW t \in Seq(Z), Len(t) = Len(s) + 1,
         \A i \in 1..Len(s) : t[i] = s[i], t[Len(t)] = x
  PROVE  s \o <<x>> = t /\ Append(s, x) = t
<1> DEFINE u == Append(s, x)
<1>1. u \in Seq(Z) /\ Len(u) = Len(s) + 1 /\ (\A i \in 1..Len(s) : u[i] = s[i]) /\ u[Len(s) + 1] = x
  BY AppendProperties
<1>2. Len(s) \in Nat
  OBVIOUS
<1> HIDE DEF u
<1>3. ASSUME NEW i \in 1..Len(u) PROVE u[i] = t[i]
  <2>1. CASE i \in 1..Len(s)
    BY <1>1, <2>1
  <2>2. CASE i = Len(s) + 1
    BY <1>1, <2>2
  <2> QED
    BY <1>1, <1>2, <2>1, <2>2
<1>4. u = t
  BY <1>1, <1>3, SeqEqual
<1> QED
  BY <1>4, AppendIsConcat DEF u

LEMMA Join1 ==
  ASSUME NEW a, NEW b
  PROVE  <<a>> \o <<b>> = <<a, b>> /\ Append(<<a>>, b) = <<a, b>>
<1> DEFINE s == <<a>>
           t == <<a, b>>
           Z == {a, b}
<1>1. s \in Seq(Z) /\ Len(s) = 1 /\ s[1] = a
  OBVIOUS
<1>2. t \in Seq(Z) /\ Len(t) = 2 /\ t[1] = a /\ t[2] = b
  OBVIOUS
<1>3. b \in Z
  OBVIOUS
<1> HIDE DEF s, t, Z
<1>4. (\A i \in 1..Len(s) : t[i] = s[i]) /\ Len(t) = Len(s) + 1 /\ t[Len(t)] = b
  BY <1>1, <1>2
<1>5. s \o <<b>> = t /\ Append(s, b) = t
  BY <1>1, <1>2, <1>3, <1>4, OneMore
<1> QED
  BY <1>5 DEF s, t

LEMMA Join2 ==
  ASSUME NEW a, NEW b, NEW c
  PROVE  <<a, b>> \o <<c>> = <<a, b, c>> /\ Append(<<a, b>>, c) = <<a, b, c>>
<1> DEFINE s == <<a, b>>
           t == <<a, b, c>>
           Z == {a, b, c}
<1>1. s \in Seq(Z) /\ Len(s) = 2 /\ s[1] = a /\ s[2] = b
  OBVIOUS
<1>2. t \in Seq(Z) /\ Len(t) = 3 /\ t[1] = a /\ t[2] = b /\ t[3] = c
  OBVIOUS
<1>3. c \in Z
  OBVIOUS
<1> HIDE DEF s, t, Z
<1>4. (\A i \in 1..Len(s) : t[i] = s[i]) /\ Len(t) = Len(s) + 1 /\ t[Len(t)] = c
  BY <1>1, <1>2
<1>5. s \o <<c>> = t /\ Append(s, c) = t
  BY <1>1, <1>2, <1>3, <1>4, OneMore
<1> QED
  BY <1>5 DEF s, t

LEMMA Join3 ==
  ASSUME NEW a, NEW b, NEW c, NEW d
  PROVE  <<a, b, c>> \o <<d>> = <<a, b, c, d>> /\ Append(<<a, b, c>>, d) = <<a, b, c, d>>
<1> DEFINE s == <<a, b, c>>
           t == <<a, b, c, d>>
           Z == {a, b, c, d}
<1>1. s \in Seq(Z) /\ Len(s) = 3 /\ s[1] = a /\ s[2] = b /\ s[3] = c
  OBVIOUS
<1>2. t \in Seq(Z) /\ Len(t) = 4 /\ t[1] = a /\ t[2] = b /\ t[3] = c /\ t[4] = d
  OBVIOUS
<1>3. d \in Z
  OBVIOUS
<1> HIDE DEF s, t, Z
<1>4. (\A i \in 1..Len(s) : t[i] = s[i]) /\ Len(t) = Len(s) + 1 /\ t[Len(t)] = d
  BY <1>1, <1>2
<1>5. s \o <<d>> = t /\ Append(s, d) = t
  BY <1>1, <1>2, <1>3, <1>4, OneMore
<1> QED
  BY <1>5 DEF s, t

LEMMA Join4 ==
  ASSUME NEW a, NEW b, NEW c, NEW d, NEW e
  PROVE  <<a, b, c, d>> \o <<e>> = <<a, b, c, d, e>> /\ Append(<<a, b, c, d>>, e) = <<a, b, c, d, e>>
<1> DEFINE s == <<a, b, c, d>>
           t == <<a, b, c, d, e>>
           Z == {a, b, c, d, e}
<1>1. s \in Seq(Z) /\ Len(s) = 4 /\ s[1] = a /\ s[2] = b /\ s[3] = c /\ s[4] = d
  OBVIOUS
<1>2. t \in Seq(Z) /\ Len(t) = 5 /\ t[1] = a /\ t[2] = b /\ t[3] = c /\ t[4] = d /\ t[5] = e
  OBVIOUS
<1>3. e \in Z
  OBVIOUS
<1> HIDE DEF s, t, Z
<1>4. (\A i \in 1..Len(s) : t[i] = s[i]) /\ Len(t) = Len(s) + 1 /\ t[Len(t)] = e
  BY <1>1, <1>2
<1>5. s \o <<e>> = t /\ Append(s, e) = t
  BY <1>1, <1>2, <1>3, <1>4, OneMore
<1> QED
  BY <1>5 DEF s, t

-----------------------------------------------------------------------------
(* Outlines.                                                               *)

\* One step.
Takes(w, a, X, Y) ==
    /\ X \subseteq Facts /\ Y \subseteq Facts
    /\ Legal(w, a) /\ Need(w, a) \subseteq X /\ Y \subseteq After(w, a, X)

LEMMA LeadsOne ==
  ASSUME NEW w, NEW a, NEW X, NEW Y, Takes(w, a, X, Y)
  PROVE  Leads(w, <<a>>, X, Y)
<1> DEFINE s == <<a>>
           A == [n \in 0..1 |-> IF n = 0 THEN X ELSE Y]
<1>1. s \in Seq({a}) /\ Len(s) = 1 /\ s[1] = a
  OBVIOUS
<1>2. A \in [0..Len(s) -> SUBSET Facts] /\ A[0] = X /\ A[1] = Y
  BY <1>1 DEF Takes
<1>3. Outline(w, s, A, 1)
  BY <1>1, <1>2 DEF Takes, Outline
<1> HIDE DEF s, A
<1>4. \A n \in 1..Len(s) : Outline(w, s, A, n)
  BY <1>1, <1>3
<1>5. Leads(w, s, X, Y)
  BY <1>1, <1>2, <1>4 DEF Leads
<1> QED
  BY <1>5 DEF s

LEMMA LeadsNone ==
  ASSUME NEW w, NEW X, NEW Y, Y \subseteq X, Y \subseteq Facts
  PROVE  Leads(w, <<>>, X, Y)
<1> DEFINE A == [n \in 0..0 |-> Y]
<1>1. <<>> \in Seq({}) /\ Len(<<>>) = 0 /\ A \in [0..0 -> SUBSET Facts] /\ A[0] = Y
  OBVIOUS
<1> HIDE DEF A
<1> QED
  BY <1>1 DEF Leads

LEMMA LeadsJoin ==
  ASSUME NEW w, NEW s, NEW t, NEW X, NEW Y, NEW V, Leads(w, s, X, Y), Leads(w, t, Y, V)
  PROVE  Leads(w, s \o t, X, V)
<1>1. PICK Z1 : s \in Seq(Z1)
  BY DEF Leads
<1>2. PICK Z2 : t \in Seq(Z2)
  BY DEF Leads
<1>3. PICK A \in [0..Len(s) -> SUBSET Facts] :
          A[0] \subseteq X /\ Y \subseteq A[Len(s)] /\ \A n \in 1..Len(s) : Outline(w, s, A, n)
  BY DEF Leads
<1>4. PICK B \in [0..Len(t) -> SUBSET Facts] :
          B[0] \subseteq Y /\ V \subseteq B[Len(t)] /\ \A n \in 1..Len(t) : Outline(w, t, B, n)
  BY DEF Leads
<1> DEFINE u == s \o t
           C == [n \in 0..Len(u) |-> IF n < Len(s) THEN A[n] ELSE B[n - Len(s)]]
<1>5. Len(s) \in Nat /\ Len(t) \in Nat
  BY <1>1, <1>2
<1>6. u \in Seq(Z1 \cup Z2) /\ Len(u) = Len(s) + Len(t)
  BY <1>1, <1>2
<1>7. \A n \in 1..Len(s) : u[n] = s[n]
  BY <1>1, <1>2
<1>8. \A n \in 1..Len(t) : u[Len(s) + n] = t[n]
  BY <1>1, <1>2
<1>9. C \in [0..Len(u) -> SUBSET Facts]
  BY <1>5, <1>6
<1>10. C[0] \subseteq X
  <2>1. CASE Len(s) = 0
    BY <1>3, <1>4, <1>5, <1>6, <2>1
  <2>2. CASE Len(s) > 0
    BY <1>3, <1>5, <1>6, <2>2
  <2> HIDE DEF C
  <2> QED
    BY <1>5, <2>1, <2>2
<1>11. C[Len(u)] = B[Len(t)]
  BY <1>5, <1>6
<1>12. ASSUME NEW n \in 1..Len(u) PROVE Outline(w, u, C, n)
  <2>1. CASE n < Len(s)
    <3>1. n \in 1..Len(s) /\ C[n] = A[n] /\ C[n-1] = A[n-1] /\ u[n] = s[n]
      BY <1>5, <1>6, <1>7, <2>1
    <3> QED
      BY <1>3, <3>1 DEF Outline
  <2>2. CASE n = Len(s)
    <3>1. n \in 1..Len(s) /\ C[n] = B[0] /\ C[n-1] = A[n-1] /\ u[n] = s[n]
      BY <1>5, <1>6, <1>7, <2>2
    <3> QED
      BY <1>3, <1>4, <2>2, <3>1 DEF Outline
  <2>3. CASE n > Len(s)
    <3> DEFINE m == n - Len(s)
    <3>1. m \in 1..Len(t) /\ C[n] = B[m] /\ C[n-1] = B[m-1] /\ u[n] = t[m]
      <4>1. m \in 1..Len(t) /\ n = Len(s) + m
        BY <1>5, <1>6, <2>3
      <4>2. u[n] = t[m]
        BY <1>8, <4>1
      <4> QED
        BY <1>5, <1>6, <2>3, <4>1, <4>2
    <3> HIDE DEF m
    <3> QED
      BY <1>4, <3>1 DEF Outline
  <2> QED
    BY <1>5, <2>1, <2>2, <2>3
<1> HIDE DEF u, C
<1>13. Leads(w, u, X, V)
  BY <1>4, <1>6, <1>9, <1>10, <1>11, <1>12 DEF Leads
<1> QED
  BY <1>13 DEF u

LEMMA LeadsFrom ==
  ASSUME NEW w, NEW s, NEW X, NEW Y, NEW X1, NEW Y1, Leads(w, s, X, Y), X \subseteq X1, Y1 \subseteq Y
  PROVE  Leads(w, s, X1, Y1)
  BY DEF Leads

LEMMA LeadsTwo ==
  ASSUME NEW w, NEW a, NEW b, NEW X0, NEW X1, NEW X2, Takes(w, a, X0, X1), Takes(w, b, X1, X2)
  PROVE  Leads(w, <<a, b>>, X0, X2)
<1>1. <<a>> \o <<b>> = <<a, b>>
  BY Join1
<1> QED
  BY <1>1, LeadsOne, LeadsJoin

LEMMA LeadsThree ==
  ASSUME NEW w, NEW a, NEW b, NEW c, NEW X0, NEW X1, NEW X2, NEW X3,
         Takes(w, a, X0, X1), Takes(w, b, X1, X2), Takes(w, c, X2, X3)
  PROVE  Leads(w, <<a, b, c>>, X0, X3)
<1>1. <<a, b>> \o <<c>> = <<a, b, c>>
  BY Join2
<1> QED
  BY <1>1, LeadsOne, LeadsTwo, LeadsJoin

LEMMA LeadsFour ==
  ASSUME NEW w, NEW a, NEW b, NEW c, NEW d, NEW X0, NEW X1, NEW X2, NEW X3, NEW X4,
         Takes(w, a, X0, X1), Takes(w, b, X1, X2), Takes(w, c, X2, X3), Takes(w, d, X3, X4)
  PROVE  Leads(w, <<a, b, c, d>>, X0, X4)
<1>1. <<a, b, c>> \o <<d>> = <<a, b, c, d>>
  BY Join3
<1> QED
  BY <1>1, LeadsOne, LeadsThree, LeadsJoin

\* When(c, s), and what may be left out.
LEMMA LeadsWhen ==
  ASSUME NEW w, NEW s, NEW c, NEW X, NEW Y, c => Leads(w, s, X, Y), ~c => Y \subseteq X /\ Y \subseteq Facts
  PROVE  Leads(w, T23!When(c, s), X, Y)
<1>1. CASE c
  BY <1>1 DEF T23!When
<1>2. CASE ~c
  BY <1>2, LeadsNone DEF T23!When
<1> QED
  BY <1>1, <1>2

\* What is left when a step has been taken.
LEMMA LeadsTail ==
  ASSUME NEW w, NEW s, NEW X, NEW Y, Leads(w, s, X, Y), s # <<>>
  PROVE  \E X0 \in SUBSET Facts :
             /\ X0 \subseteq X /\ Legal(w, Head(s)) /\ Need(w, Head(s)) \subseteq X0
             /\ Leads(w, Tail(s), After(w, Head(s), X0), Y)
<1>1. PICK Z : s \in Seq(Z)
  BY DEF Leads
<1>2. PICK A \in [0..Len(s) -> SUBSET Facts] :
          A[0] \subseteq X /\ Y \subseteq A[Len(s)] /\ \A n \in 1..Len(s) : Outline(w, s, A, n)
  BY DEF Leads
<1> DEFINE t == Tail(s)
           B == [n \in 0..Len(t) |-> A[n + 1]]
<1>3. Len(s) \in Nat \ {0} /\ t \in Seq(Z) /\ Len(t) = Len(s) - 1 /\ Head(s) = s[1]
      /\ \A n \in 1..Len(t) : t[n] = s[n + 1]
  BY <1>1
<1>4. A[0] \in SUBSET Facts /\ Outline(w, s, A, 1)
  BY <1>2, <1>3
<1>5. B \in [0..Len(t) -> SUBSET Facts] /\ B[0] = A[1] /\ B[Len(t)] = A[Len(s)]
  BY <1>2, <1>3
<1>6. ASSUME NEW n \in 1..Len(t) PROVE Outline(w, t, B, n)
  <2>1. n + 1 \in 1..Len(s) /\ B[n] = A[n + 1] /\ B[n - 1] = A[n] /\ t[n] = s[n + 1] /\ (n + 1) - 1 = n
    BY <1>2, <1>3
  <2>2. Outline(w, s, A, n + 1)
    BY <1>2, <2>1
  <2> QED
    BY <2>1, <2>2 DEF Outline
<1> HIDE DEF t, B
<1>7. Leads(w, t, A[1], Y)
  BY <1>2, <1>3, <1>5, <1>6 DEF Leads
<1>8. Leads(w, t, After(w, Head(s), A[0]), Y)
  BY <1>3, <1>4, <1>7, LeadsFrom DEF Outline
<1> QED
  BY <1>2, <1>3, <1>4, <1>8 DEF Outline, t

\* What is left of todo when the steps up to one that keeps nothing are dropped.
LEMMA LeadsSuffix ==
  ASSUME NEW w, NEW s, NEW X, NEW Y, Leads(w, s, X, Y), NEW k \in 1..Len(s),
         \A U \in SUBSET Facts : After(w, s[k], U) = {}
  PROVE  Legal(w, s[k]) /\ Leads(w, SubSeq(s, k + 1, Len(s)), {}, Y)
<1>1. PICK Z : s \in Seq(Z)
  BY DEF Leads
<1>2. PICK A \in [0..Len(s) -> SUBSET Facts] :
          A[0] \subseteq X /\ Y \subseteq A[Len(s)] /\ \A n \in 1..Len(s) : Outline(w, s, A, n)
  BY DEF Leads
<1> DEFINE t == SubSeq(s, k + 1, Len(s))
           B == [n \in 0..Len(t) |-> A[n + k]]
<1>3. Len(s) \in Nat /\ t \in Seq(Z) /\ Len(t) = Len(s) - k
  BY <1>1
<1>4. \A n \in 1..Len(t) : t[n] = s[n + k]
  BY <1>1, <1>3
<1>5. Outline(w, s, A, k) /\ A[k - 1] \in SUBSET Facts
  BY <1>2, <1>3
<1>6. A[k] = {}
  BY <1>5 DEF Outline
<1>7. B \in [0..Len(t) -> SUBSET Facts] /\ B[0] = A[k] /\ B[Len(t)] = A[Len(s)]
  BY <1>2, <1>3
<1>8. ASSUME NEW n \in 1..Len(t) PROVE Outline(w, t, B, n)
  <2>1. n + k \in 1..Len(s) /\ B[n] = A[n + k] /\ B[n - 1] = A[n + k - 1]
    BY <1>2, <1>3
  <2>3. t[n] = s[n + k]
    BY <1>4
  <2> HIDE DEF t, B
  <2>2. Outline(w, s, A, n + k)
    BY <1>2, <2>1
  <2> QED
    BY <2>1, <2>2, <2>3 DEF Outline
<1> HIDE DEF t, B
<1>9. Leads(w, t, {}, Y)
  BY <1>2, <1>3, <1>6, <1>7, <1>8 DEF Leads
<1> QED
  BY <1>5, <1>9 DEF Outline, t

-----------------------------------------------------------------------------
(* Sequences without some of their elements.                               *)

Kept(s, xs, f) ==
    /\ f[0] = <<>>
    /\ \A i \in 1..Len(s) : f[i] = IF s[i] \in xs THEN f[i-1] ELSE Append(f[i-1], s[i])

\* Removing() counts through s.
LEMMA RemovingCounts ==
  ASSUME NEW T, NEW s \in Seq(T), NEW xs
  PROVE  \E f \in [0..Len(s) -> Seq(T)] : Kept(s, xs, f) /\ Removing(s, xs) = f[Len(s)]
<1> DEFINE n == Len(s)
           Rounds(g) == [i \in 0..n |-> IF i = 0 THEN <<>>
                                        ELSE IF s[i] \in xs THEN g[i-1] ELSE Append(g[i-1], s[i])]
           h == CHOOSE g : g = Rounds(g)
           step == [i \in 1..n |-> [r \in Seq(T) |-> IF s[i] \in xs THEN r ELSE Append(r, s[i])]]
<1>1. n \in Nat
  OBVIOUS
<1>2. step \in [1..n -> [Seq(T) -> Seq(T)]]
  <2>1. ASSUME NEW i \in 1..n, NEW r \in Seq(T) PROVE (IF s[i] \in xs THEN r ELSE Append(r, s[i])) \in Seq(T)
    <3>1. s[i] \in T
      OBVIOUS
    <3> QED
      BY <3>1
  <2> QED
    BY <2>1
<1>3. Loops(n, Seq(T), <<>>, step) # {}
  <2>1. <<>> \in Seq(T)
    OBVIOUS
  <2> HIDE DEF step, n
  <2> QED
    BY <1>1, <1>2, <2>1, LoopDefined
<1>4. PICK f \in [0..n -> Seq(T)] : f[0] = <<>> /\ \A i \in 1..n : f[i] = step[i][f[i-1]]
  BY <1>3 DEF Loops
<1>5. ASSUME NEW i \in 1..n PROVE f[i] = IF s[i] \in xs THEN f[i-1] ELSE Append(f[i-1], s[i])
  <2>1. f[i-1] \in Seq(T)
    BY <1>1, i - 1 \in 0..n
  <2> QED
    BY <1>4, <2>1
<1>6. f = Rounds(f)
  <2>1. ASSUME NEW i \in 0..n
        PROVE f[i] = IF i = 0 THEN <<>> ELSE IF s[i] \in xs THEN f[i-1] ELSE Append(f[i-1], s[i])
    BY <1>1, <1>4, <1>5, i = 0 \/ i \in 1..n
  <2> QED
    BY <2>1
<1>7. h = Rounds(h)
  BY <1>6
<1>8. Removing(s, xs) = h[n]
  BY DEF Removing
<1> HIDE DEF h, step
<1>9. h[0] = <<>> /\ \A i \in 1..n : h[i] = IF s[i] \in xs THEN h[i-1] ELSE Append(h[i-1], s[i])
  <2>1. \A i \in 0..n : h[i] = IF i = 0 THEN <<>> ELSE IF s[i] \in xs THEN h[i-1] ELSE Append(h[i-1], s[i])
    BY <1>7
  <2> QED
    BY <1>1, <2>1, 0 \in 0..n
<1> DEFINE U0 == {i \in 0..n : h[i] = f[i]}
<1>10. 0 \in U0
  BY <1>1, <1>4, <1>9
<1>11. ASSUME NEW i \in 0 .. n - 1, i \in U0 PROVE i + 1 \in U0
  <2>1. i + 1 \in 1..n /\ (i + 1) - 1 = i
    BY <1>1
  <2>2. h[i + 1] = IF s[i + 1] \in xs THEN h[i] ELSE Append(h[i], s[i + 1])
    BY <1>9, <2>1
  <2>3. f[i + 1] = IF s[i + 1] \in xs THEN f[i] ELSE Append(f[i], s[i + 1])
    BY <1>5, <2>1
  <2> QED
    BY <1>1, <1>11, <2>1, <2>2, <2>3
<1> HIDE DEF U0
<1>12. \A i \in 0..n : i \in U0
  BY <1>1, <1>10, <1>11, UpToInduction
<1>13. h[n] = f[n]
  BY <1>1, <1>12 DEF U0
<1> QED
  BY <1>4, <1>5, <1>8, <1>13 DEF Kept

LEMMA RemovingType ==
  ASSUME NEW T, NEW s \in Seq(T), NEW xs
  PROVE  Removing(s, xs) \in Seq(T)
<1>1. PICK f \in [0..Len(s) -> Seq(T)] : Removing(s, xs) = f[Len(s)]
  BY RemovingCounts
<1> QED
  BY <1>1, Len(s) \in 0..Len(s)

LEMMA RemovingEmpty == ASSUME NEW xs PROVE Removing(<<>>, xs) = <<>>
<1>1. <<>> \in Seq({})
  OBVIOUS
<1>2. PICK f \in [0..Len(<<>>) -> Seq({})] : Kept(<<>>, xs, f) /\ Removing(<<>>, xs) = f[Len(<<>>)]
  BY <1>1, RemovingCounts
<1> QED
  BY <1>2 DEF Kept

LEMMA RemovingAppend ==
  ASSUME NEW T, NEW s \in Seq(T), NEW x \in T, NEW xs
  PROVE  Removing(Append(s, x), xs) = IF x \in xs THEN Removing(s, xs) ELSE Append(Removing(s, xs), x)
<1> DEFINE t == Append(s, x)
           n == Len(s)
<1>1. /\ t \in Seq(T) /\ Len(t) = n + 1 /\ n \in Nat
      /\ (\A i \in 1..n : t[i] = s[i]) /\ t[n + 1] = x
  BY AppendProperties
<1> HIDE DEF t, n
<1>2. PICK f \in [0..Len(s) -> Seq(T)] : Kept(s, xs, f) /\ Removing(s, xs) = f[Len(s)]
  BY RemovingCounts
<1>3. PICK g \in [0..Len(t) -> Seq(T)] : Kept(t, xs, g) /\ Removing(t, xs) = g[Len(t)]
  BY <1>1, RemovingCounts
<1> DEFINE U0 == {i \in 0..n : f[i] = g[i]}
<1>4. 0 \in U0
  BY <1>1, <1>2, <1>3 DEF Kept
<1>5. ASSUME NEW i \in 0 .. n - 1, i \in U0 PROVE i + 1 \in U0
  <2>1. i + 1 \in 1..n /\ i + 1 \in 1 .. n + 1 /\ (i + 1) - 1 = i /\ i + 1 \in 0..n
    BY <1>1
  <2>2. g[i + 1] = IF t[i + 1] \in xs THEN g[i] ELSE Append(g[i], t[i + 1])
    BY <1>1, <1>3, <2>1 DEF Kept
  <2>3. f[i + 1] = IF s[i + 1] \in xs THEN f[i] ELSE Append(f[i], s[i + 1])
    BY <1>2, <2>1 DEF Kept, n
  <2> QED
    BY <1>1, <1>5, <2>1, <2>2, <2>3
<1> HIDE DEF U0
<1>6. \A i \in 0..n : i \in U0
  BY <1>1, <1>4, <1>5, UpToInduction
<1>7. f[n] = g[n]
  <2>1. n \in 0..n
    BY <1>1
  <2>2. n \in U0
    BY <1>6, <2>1
  <2> QED
    BY <2>2 DEF U0
<1>8. g[n + 1] = IF t[n + 1] \in xs THEN g[n] ELSE Append(g[n], t[n + 1])
  <2>1. n + 1 \in 1 .. n + 1 /\ (n + 1) - 1 = n
    BY <1>1
  <2> QED
    BY <1>1, <1>3, <2>1 DEF Kept
<1>9. Removing(t, xs) = IF x \in xs THEN Removing(s, xs) ELSE Append(Removing(s, xs), x)
  BY <1>1, <1>2, <1>3, <1>7, <1>8 DEF n
<1> QED
  BY <1>9 DEF t

\* The first element stays the first.
LEMMA RemovingHead ==
  ASSUME NEW T, NEW s \in Seq(T), NEW xs, s # <<>>, s[1] \notin xs
  PROVE  Removing(s, xs) \in Seq(T) /\ Removing(s, xs) # <<>> /\ Removing(s, xs)[1] = s[1]
<1>1. PICK f \in [0..Len(s) -> Seq(T)] : Kept(s, xs, f) /\ Removing(s, xs) = f[Len(s)]
  BY RemovingCounts
<1> DEFINE n == Len(s)
           U0 == {i \in 0..n : i > 0 => f[i] # <<>> /\ f[i][1] = s[1]}
<1>2. n \in Nat \ {0} /\ s[1] \in T
  OBVIOUS
<1>3. 0 \in U0
  BY <1>2
<1>4. ASSUME NEW i \in 0 .. n - 1, i \in U0 PROVE i + 1 \in U0
  <2>1. i + 1 \in 1..n /\ (i + 1) - 1 = i /\ i + 1 \in 0..n /\ i \in 0..n /\ s[i + 1] \in T
    BY <1>2
  <2>2. f[i + 1] = IF s[i + 1] \in xs THEN f[i] ELSE Append(f[i], s[i + 1])
    BY <1>1, <2>1 DEF Kept
  <2>3. f[i] \in Seq(T)
    BY <1>1, <2>1
  <2>4. CASE i = 0
    <3>1. f[i] = <<>> /\ f[i + 1] = Append(<<>>, s[1])
      BY <1>1, <2>2, <2>4 DEF Kept
    <3>2. f[i + 1] # <<>> /\ f[i + 1][1] = s[1]
      BY <1>2, <3>1
    <3> QED
      BY <2>1, <3>2
  <2>5. CASE i # 0
    <3>1. f[i] # <<>> /\ f[i][1] = s[1]
      BY <1>4, <2>1, <2>5
    <3>2. Append(f[i], s[i + 1]) # <<>> /\ Append(f[i], s[i + 1])[1] = s[1]
      BY <2>1, <2>3, <3>1
    <3> QED
      BY <2>1, <2>2, <3>1, <3>2
  <2> QED
    BY <2>4, <2>5
<1> HIDE DEF U0
<1>5. \A i \in 0..n : i \in U0
  BY <1>2, <1>3, <1>4, UpToInduction
<1>6. f[n] # <<>> /\ f[n][1] = s[1]
  BY <1>2, <1>5 DEF U0
<1> QED
  BY <1>1, <1>6, RemovingType

-----------------------------------------------------------------------------
(* What is known after the steps, one by one.                              *)

LEMMA NeedIs ==
  ASSUME NEW w
  PROVE  /\ \A x \in {"tool", "crash", "raise", "repoint", "pt", "list", "signlist"} : Need(w, <<x>>) = {}
         /\ \A x \in {"odm", "digest"} : \A a : Need(w, <<x, a>>) = {}
         /\ \A x \in {"make", "edit", "copy", "header", "join", "sign", "attach", "sha", "putsha", "keep", "set", "layout"} :
                \A a, b : Need(w, <<x, a, b>>) = {}
         /\ \A a, b : Need(w, <<"rename", a, b>>) = {<<"kept", a>>}
         /\ \A a, b : Need(w, <<"call", a, b>>) = CASE a = "send_to_bootrom" -> NeedRom
                                          [] a = "send_to_bootloader" -> MemBct \cup {<<"val", "raw">>}
                                          [] OTHER -> {}
  BY DEF Need

LEMMA LegalIs ==
  ASSUME NEW w, NEW a, NEW b
  PROVE  /\ \A x \in {"tool", "crash", "raise", "repoint", "pt", "list", "signlist"} : Legal(w, <<x>>)
         /\ IsName(a) /\ Signable(b) /\ b # <<>> => Legal(w, <<"make", a, b>>)
         /\ a = S("mb1") /\ b # "unsigned" => Legal(w, <<"edit", a, b>>)
         /\ IsName(a) /\ b # "unsigned" => Legal(w, <<"edit", F(a), b>>)
         /\ IsName(a) => Legal(w, <<"odm", a>>)
         /\ SameHead(a, b) => Legal(w, <<"copy", a, b>>)
         /\ Target(a, b) => /\ Legal(w, <<"header", a, b>>) /\ Legal(w, <<"sign", a, b>>)
                            /\ Legal(w, <<"attach", a, b>>)
         /\ Legal(w, <<"sha", F(BrBct), BrBct>>) /\ Legal(w, <<"putsha", F(BrBct), BrBct>>)
         /\ Legal(w, <<"digest", F(BrBct)>>)
         /\ a \in Keepers \ {"pt", "unheard", "ramcode"} /\ IsName(b) => Legal(w, <<"keep", a, b>>)
         /\ LegalCall(a, b) => Legal(w, <<"call", a, b>>)
  BY DEF Legal, Unmodelled, F

-----------------------------------------------------------------------------
(* Names.                                                                  *)

LEMMA Shared ==
  ASSUME NEW a, NEW b
  PROVE  /\ T23!F(a) = F(a) /\ T23!K(a) = K(a) /\ T23!S(a) = S(a) /\ T23!P(a) = P(a)
         /\ T23!Exists(a) = Exists(a) /\ T23!None = None
         /\ T23!Call(a) = <<"call", a, <<>>>> /\ T23!CallWith(a, b) = <<"call", a, b>>
         /\ T23!RunTool = <<<<"tool">>>>
  BY DEF T23!F, T23!K, T23!S, T23!P, T23!Exists, T23!None, T23!Call, T23!CallWith, T23!RunTool,
         F, K, S, P, Exists, None

LEMMA SharedWithout ==
  ASSUME NEW a, NEW b
  PROVE  T23!Without(a, b) = Removing(a, {b})
  BY DEF T23!Without, T23!Removing, Removing

\* Sequences, of whatever.
LEMMA IsSeqOf ==
  ASSUME NEW Z, NEW s \in Seq(Z)
  PROVE  IsSeq(s) /\ DOMAIN s = 1..Len(s) /\ Len(s) \in Nat
<1>1. \A i \in 1..Len(s) : s[i] \in {s[j] : j \in 1..Len(s)}
  OBVIOUS
<1> QED
  BY <1>1 DEF IsSeq

LEMMA IsSeqParts ==
  ASSUME NEW s, IsSeq(s)
  PROVE  DOMAIN s = 1..Len(s) /\ Len(s) \in Nat /\ \A Z : (\A i \in 1..Len(s) : s[i] \in Z) => s \in Seq(Z)
  BY DEF IsSeq

LEMMA IsSeqJoin ==
  ASSUME NEW s, NEW t, IsSeq(s), IsSeq(t)
  PROVE  /\ IsSeq(s \o t) /\ Len(s \o t) = Len(s) + Len(t)
         /\ \A i \in 1..Len(s) : (s \o t)[i] = s[i]
         /\ \A i \in 1..Len(t) : (s \o t)[Len(s) + i] = t[i]
         /\ s # <<>> => s \o t # <<>> /\ (s \o t)[1] = s[1]
<1> DEFINE Z == {s[i] : i \in DOMAIN s} \cup {t[i] : i \in DOMAIN t}
<1>1. s \in Seq(Z) /\ t \in Seq(Z)
  BY IsSeqParts
<1> HIDE DEF Z
<1>2. IsSeq(s \o t) /\ Len(s) \in Nat /\ Len(t) \in Nat
  BY <1>1, IsSeqOf, ConcatProperties
<1>3. \A i \in 1 .. Len(s) + Len(t) : (s \o t)[i] = IF i <= Len(s) THEN s[i] ELSE t[i - Len(s)]
  BY <1>1, ConcatProperties
<1>4. Len(s \o t) = Len(s) + Len(t)
  BY <1>1, ConcatProperties
<1>5. s # <<>> => 1 \in 1..Len(s)
  BY <1>1
<1>6. \A i \in 1..Len(s) : (s \o t)[i] = s[i]
  BY <1>2, <1>3
<1>7. ASSUME NEW i \in 1..Len(t) PROVE (s \o t)[Len(s) + i] = t[i]
  <2>1. Len(s) + i \in 1 .. Len(s) + Len(t) /\ ~(Len(s) + i <= Len(s)) /\ (Len(s) + i) - Len(s) = i
    BY <1>2
  <2> QED
    BY <1>3, <2>1
<1>8. s # <<>> => s \o t # <<>>
  BY <1>2, <1>4, <1>5
<1> QED
  BY <1>2, <1>4, <1>5, <1>6, <1>7, <1>8

LEMMA IsSeqAppend ==
  ASSUME NEW s, NEW x, IsSeq(s)
  PROVE  /\ IsSeq(Append(s, x)) /\ s \o <<x>> = Append(s, x) /\ Append(s, x) # <<>>
         /\ Len(Append(s, x)) = Len(s) + 1 /\ Append(s, x)[Len(s) + 1] = x
         /\ \A i \in 1..Len(s) : Append(s, x)[i] = s[i]
         /\ s # <<>> => Append(s, x)[1] = s[1]
<1> DEFINE Z == {s[i] : i \in DOMAIN s} \cup {x}
<1>1. s \in Seq(Z) /\ x \in Z
  BY IsSeqParts
<1> HIDE DEF Z
<1>2. Append(s, x) \in Seq(Z) /\ s \o <<x>> = Append(s, x)
  BY <1>1, AppendIsConcat
<1>3. s # <<>> => 1 \in 1..Len(s)
  BY <1>1
<1> QED
  <2>1. IsSeq(Append(s, x))
    BY <1>2, IsSeqOf
  <2>2. /\ Append(s, x) # <<>> /\ Len(Append(s, x)) = Len(s) + 1 /\ Append(s, x)[Len(s) + 1] = x
        /\ \A i \in 1..Len(s) : Append(s, x)[i] = s[i]
    BY <1>1, AppendProperties
  <2> QED
    BY <1>2, <1>3, <2>1, <2>2

LEMMA IsSeqShort ==
  ASSUME NEW x, NEW y
  PROVE  /\ IsSeq(<<>>) /\ IsSeq(<<x>>) /\ IsSeq(<<x, y>>)
         /\ Len(<<x>>) = 1 /\ <<x>>[1] = x /\ <<x>> # <<>>
         /\ Len(<<x, y>>) = 2 /\ <<x, y>>[1] = x /\ <<x, y>>[2] = y /\ <<x, y>> # <<>>
<1>1. <<>> \in Seq({}) /\ <<x>> \in Seq({x}) /\ <<x, y>> \in Seq({x, y})
  OBVIOUS
<1> QED
  BY <1>1, IsSeqOf

LEMMA IsSeqWithout ==
  ASSUME NEW s, NEW xs, IsSeq(s)
  PROVE  /\ IsSeq(Removing(s, xs))
         /\ \A x : Removing(Append(s, x), xs) = IF x \in xs THEN Removing(s, xs) ELSE Append(Removing(s, xs), x)
         /\ s # <<>> /\ s[1] \notin xs => Removing(s, xs) # <<>> /\ Removing(s, xs)[1] = s[1]
<1>1. IsSeq(Removing(s, xs))
  BY RemovingType, IsSeqOf DEF IsSeq
<1>2. ASSUME NEW x PROVE Removing(Append(s, x), xs) = IF x \in xs THEN Removing(s, xs) ELSE Append(Removing(s, xs), x)
  <2> DEFINE Z == {s[i] : i \in DOMAIN s} \cup {x}
  <2>1. s \in Seq(Z) /\ x \in Z
    BY IsSeqParts
  <2> HIDE DEF Z
  <2> QED
    BY <2>1, RemovingAppend
<1>3. s # <<>> /\ s[1] \notin xs => Removing(s, xs) # <<>> /\ Removing(s, xs)[1] = s[1]
  BY RemovingHead DEF IsSeq
<1> QED
  BY <1>1, <1>2, <1>3

LEMMA Appended ==
  ASSUME NEW h, NEW f, NEW x, Named(f, h)
  PROVE  Named(f \o <<x>>, h) /\ Named(Append(f, x), h) /\ f \o <<x>> = Append(f, x)
<1>1. IsSeq(f) /\ f # <<>> /\ f[1] = h
  BY DEF Named, IsName
<1>2. IsSeq(Append(f, x)) /\ f \o <<x>> = Append(f, x) /\ Append(f, x) # <<>> /\ Append(f, x)[1] = f[1]
  BY <1>1, IsSeqAppend
<1> QED
  BY <1>1, <1>2 DEF Named, IsName

\* What has nothing to remove stays as it is.
LEMMA GivenNames ==
  ASSUME NEW h \in Signers
  PROVE  Named(Given(h), h) /\ Removing(Given(h), {"aligned"}) = Given(h)
<1>1. ASSUME NEW x, x # "aligned" PROVE Removing(<<x>>, {"aligned"}) = <<x>>
  <2>1. Append(<<>>, x) = <<x>>
    OBVIOUS
  <2>2. IsSeq(<<>>) /\ Removing(<<>>, {"aligned"}) = <<>>
    BY RemovingEmpty, IsSeqShort
  <2>3. PICK e : e = <<>>
    OBVIOUS
  <2>5. IsSeq(e)
    BY <2>2, <2>3
  <2>4. Removing(Append(e, x), {"aligned"}) = Append(Removing(e, {"aligned"}), x)
    BY <1>1, <2>5, IsSeqWithout
  <2> QED
    BY <2>1, <2>2, <2>3, <2>4
<1>2. ASSUME NEW x, NEW y, x # "aligned", y # "aligned" PROVE Removing(<<x, y>>, {"aligned"}) = <<x, y>>
  <2>1. Append(<<x>>, y) = <<x, y>>
    BY Join1
  <2>2. IsSeq(<<x>>) /\ Removing(<<x>>, {"aligned"}) = <<x>>
    BY <1>1, <1>2, IsSeqShort
  <2>3. Removing(Append(<<x>>, y), {"aligned"}) = Append(Removing(<<x>>, {"aligned"}), y)
    BY <1>2, <2>2, IsSeqWithout
  <2> QED
    BY <2>1, <2>2, <2>3
<1>3. h # "aligned"
  BY DEF Signers
<1> QED
  BY <1>1, <1>2, <1>3, IsSeqShort DEF Given, Named, IsName

LEMMA FileOfNames ==
  ASSUME NEW w, NEW h \in Signers
  PROVE  Named(FileOf(w, h), h) /\ Removing(FileOf(w, h), {"aligned"}) = FileOf(w, h)
<1>1. Named(Given(h), h) /\ Removing(Given(h), {"aligned"}) = Given(h)
  BY GivenNames
<1>2. Given(h) \o <<"encrypt">> = Append(Given(h), "encrypt") /\ Named(Given(h) \o <<"encrypt">>, h)
  BY <1>1, Appended
<1>3. Removing(Append(Given(h), "encrypt"), {"aligned"}) = Append(Given(h), "encrypt")
  BY <1>1, IsSeqWithout DEF Named, IsName
<1> QED
  BY <1>1, <1>2, <1>3 DEF FileOf

\* The names that signing a file makes of its own.
Headed(f) == f \o <<"aligned">> \o <<"sigheader">>
LEMMA HeaderNames ==
  ASSUME NEW h, NEW f, Named(f, h), h # "aligned"
  PROVE  /\ Named(f \o <<"aligned">>, h) /\ Named(Headed(f), h) /\ Named(SignedOf(Headed(f)), h)
         /\ Named(Removing(Headed(f), {"aligned"}) \o <<"signed">>, h)
<1>1. /\ Named(f \o <<"aligned">>, h) /\ Named(Headed(f), h) /\ Named(SignedOf(Headed(f)), h)
  BY Appended DEF Headed, SignedOf
<1>2. Named(Removing(Headed(f), {"aligned"}), h)
  BY <1>1, IsSeqWithout DEF Named, IsName
<1> QED
  BY <1>1, <1>2, Appended

LEMMA ResultNames ==
  ASSUME NEW w, NEW h \in Signers
  PROVE  /\ HeaderOf(w, h) = Headed(FileOf(w, h))
         /\ Removing(Headed(FileOf(w, h)), {"aligned"}) \o <<"signed">> = ResultOf(w, h)
         /\ Named(HeaderOf(w, h), h) /\ Named(SignedOf(HeaderOf(w, h)), h) /\ Named(ResultOf(w, h), h)
<1> DEFINE f == FileOf(w, h)
<1>1. Named(f, h) /\ Removing(f, {"aligned"}) = f /\ h # "aligned"
  BY FileOfNames DEF Signers
<1> HIDE DEF f
<1>2. Named(Append(f, "aligned"), h) /\ Headed(f) = Append(Append(f, "aligned"), "sigheader")
  BY <1>1, Appended DEF Headed
<1>3. Removing(Append(f, "aligned"), {"aligned"}) = f
  BY <1>1, IsSeqWithout DEF Named, IsName
<1>4. Removing(Headed(f), {"aligned"}) = Append(f, "sigheader")
  BY <1>2, <1>3, IsSeqWithout DEF Named, IsName
<1>5. Append(f, "sigheader") = f \o <<"sigheader">>
  BY <1>1, Appended
<1>6. (f \o <<"sigheader">>) \o <<"signed">> = f \o (<<"sigheader">> \o <<"signed">>)
  <2> DEFINE Z == {f[i] : i \in DOMAIN f} \cup {"sigheader", "signed"}
  <2>1. f \in Seq(Z)
    BY <1>1, IsSeqParts DEF Named, IsName
  <2>2. "sigheader" \in Z /\ "signed" \in Z
    OBVIOUS
  <2> HIDE DEF Z
  <2>3. <<"sigheader">> \in Seq(Z) /\ <<"signed">> \in Seq(Z)
    BY <2>2
  <2> QED
    BY <2>1, <2>3, ConcatAssociative
<1>7. <<"sigheader">> \o <<"signed">> = <<"sigheader", "signed">>
  BY Join1
<1>8. HeaderOf(w, h) = Headed(f)
  BY DEF HeaderOf, Headed, T23!Aligned, f
<1>9. Removing(Headed(f), {"aligned"}) \o <<"signed">> = ResultOf(w, h)
  BY <1>4, <1>5, <1>6, <1>7 DEF ResultOf, T23!OemSigned, f
<1> QED
  BY <1>1, <1>8, <1>9, HeaderNames DEF f

-----------------------------------------------------------------------------
(* Signing a file.                                                         *)

\* What is known of a file that is signed, and the rest.
About(k, w, f) == {x \in {k} \X Signers : f = FileOf(w, x[2])}
Rest(X, f) == Unwritten(X, f[1])

LEMMA AboutFacts ==
  ASSUME NEW k \in {"header", "sigfile", "attached", "signed"}, NEW w, NEW f
  PROVE  /\ About(k, w, f) \subseteq Facts
         /\ \A x \in About(k, w, f) :
               /\ x = <<k, x[2]>> /\ x[2] \in Signers /\ f = FileOf(w, x[2]) /\ f[1] = x[2] /\ Of(x) = {f[1]}
               /\ HeaderOf(w, x[2]) = Headed(f) /\ ResultOf(w, x[2]) = Removing(Headed(f), {"aligned"}) \o <<"signed">>
         /\ \A h \in Signers : f = FileOf(w, h) => <<k, h>> \in About(k, w, f)
<1>1. ASSUME NEW x \in About(k, w, f)
      PROVE  x = <<k, x[2]>> /\ x[2] \in Signers /\ f = FileOf(w, x[2])
  BY DEF About
<1>2. ASSUME NEW x \in About(k, w, f) PROVE f[1] = x[2] /\ Of(x) = {f[1]}
  <2>1. f[1] = x[2]
    BY <1>1, FileOfNames DEF Named
  <2>2. x[1] = k
    BY <1>1
  <2> QED
    BY <2>1, <2>2 DEF Of
<1>3. About(k, w, f) \subseteq Facts
  BY <1>1 DEF Facts
<1>4. \A h \in Signers : f = FileOf(w, h) => <<k, h>> \in About(k, w, f)
  BY DEF About
<1> QED
  BY <1>1, <1>2, <1>3, <1>4, ResultNames

LEMMA RestFacts ==
  ASSUME NEW X, X \subseteq Facts, NEW f
  PROVE  Rest(X, f) \subseteq Facts /\ Rest(X, f) \subseteq X /\ Unwritten(Rest(X, f), f[1]) = Rest(X, f)
         /\ \A Y : Rest(X, f) \subseteq Unwritten(Rest(X, f) \cup Y, f[1])
  BY DEF Rest, Unwritten

LEMMA SameHeads ==
  ASSUME NEW f, NEW g, NEW h, Named(f, h), Named(g, h)
  PROVE  SameHead(F(f), g) /\ Target(F(f), g)
  BY DEF Named, SameHead, Target, F

\* Of a copy to a file of the same first word only the rest stays known.
LEMMA TakesCopy ==
  ASSUME NEW w, NEW X, X \subseteq Facts, NEW h, NEW f, NEW g, NEW e, Named(f, h), Named(g, h), e[1] = h
  PROVE  Takes(w, <<"copy", F(f), g>>, X, Rest(X, e))
<1>1. Legal(w, <<"copy", F(f), g>>) /\ Need(w, <<"copy", F(f), g>>) = {}
  BY SameHeads, LegalIs, NeedIs
<1>2. Rest(X, e) \subseteq After(w, <<"copy", F(f), g>>, X)
  BY DEF After, AfterCopy, Rest, Named
<1> QED
  BY <1>1, <1>2, RestFacts DEF Takes

LEMMA TakesTool ==
  ASSUME NEW w, NEW X, X \subseteq Facts
  PROVE  Takes(w, <<"tool">>, X, X) /\ Takes(w, <<"crash">>, X, X) /\ Takes(w, <<"raise">>, X, X)
         /\ Takes(w, <<"repoint">>, X, X)
  BY LegalIs, NeedIs DEF After, Takes

LEMMA TakesEdit ==
  ASSUME NEW w, NEW X, X \subseteq Facts, NEW f, NEW e, IsName(f), e[1] = f[1], NEW b, b # "unsigned"
  PROVE  Takes(w, <<"edit", F(f), b>>, X, Rest(X, e))
<1>1. Legal(w, <<"edit", F(f), b>>) /\ Need(w, <<"edit", F(f), b>>) = {}
  BY LegalIs, NeedIs
<1>2. Rest(X, e) \subseteq After(w, <<"edit", F(f), b>>, X)
  <2>1. F(f) # S("mb1") /\ F(f)[2] = f
    BY DEF F, S
  <2> QED
    BY <2>1 DEF After, AfterEdit, Rest
<1> QED
  BY <1>1, <1>2, RestFacts DEF Takes

LEMMA TakesSigning ==
  ASSUME NEW w, NEW X, X \subseteq Facts, NEW f, IsName(f), f[1] # "aligned"
  PROVE  LET R == Rest(X, f)
             sh == Headed(f)
         IN /\ Takes(w, <<"header", F(f \o <<"aligned">>), sh>>, R, R \cup About("header", w, f))
            /\ Takes(w, <<"sign", F(sh), sh>>, R \cup About("header", w, f), R \cup About("sigfile", w, f))
            /\ Takes(w, <<"attach", F(SignedOf(sh)), sh>>, R \cup About("sigfile", w, f), R \cup About("attached", w, f))
            /\ Takes(w, <<"copy", F(SignedOf(sh)), Removing(sh, {"aligned"}) \o <<"signed">>>>,
                     R \cup About("attached", w, f), R \cup About("signed", w, f))
<1> DEFINE R == Rest(X, f)
           sh == Headed(f)
           al == f \o <<"aligned">>
           to == Removing(sh, {"aligned"}) \o <<"signed">>
<1>1. Named(f, f[1]) /\ Named(al, f[1]) /\ Named(sh, f[1]) /\ Named(SignedOf(sh), f[1]) /\ Named(to, f[1])
  BY HeaderNames DEF Named
<1>2. R \subseteq Facts /\ \A Y : R \subseteq Unwritten(R \cup Y, f[1])
  BY RestFacts
<1>3. /\ \A x \in About("header", w, f) \cup About("sigfile", w, f) \cup About("attached", w, f) \cup About("signed", w, f) :
            x[2] \in Signers /\ HeaderOf(w, x[2]) = sh /\ ResultOf(w, x[2]) = to /\ f = FileOf(w, x[2])
      /\ About("header", w, f) \subseteq Facts /\ About("sigfile", w, f) \subseteq Facts
      /\ About("attached", w, f) \subseteq Facts /\ About("signed", w, f) \subseteq Facts
      /\ \A h \in Signers : f = FileOf(w, h) => /\ <<"header", h>> \in About("header", w, f)
                                                /\ <<"sigfile", h>> \in About("sigfile", w, f)
                                                /\ <<"attached", h>> \in About("attached", w, f)
  BY AboutFacts
<1>4. sh[1] = f[1] /\ to[1] = f[1] /\ al[1] = f[1] /\ SignedOf(sh)[1] = f[1]
  BY <1>1 DEF Named
<1> HIDE DEF R, sh, al, to
<1>5. Takes(w, <<"header", F(al), sh>>, R, R \cup About("header", w, f))
  <2>1. Legal(w, <<"header", F(al), sh>>) /\ Need(w, <<"header", F(al), sh>>) = {}
    BY <1>1, SameHeads, LegalIs, NeedIs
  <2>2. After(w, <<"header", F(al), sh>>, R) = AfterHeader(w, sh, R)
    BY DEF After
  <2>3. About("header", w, f) \subseteq {x \in {"header"} \X Signers : sh = HeaderOf(w, x[2])}
    BY <1>3 DEF About
  <2>4. R \subseteq Unwritten(R, sh[1])
    <3>1. R = R \cup {}
      OBVIOUS
    <3> QED
      BY <1>2, <1>4, <3>1
  <2> QED
    BY <1>2, <1>3, <2>1, <2>2, <2>3, <2>4 DEF Takes, AfterHeader
<1>6. Takes(w, <<"sign", F(sh), sh>>, R \cup About("header", w, f), R \cup About("sigfile", w, f))
  <2> DEFINE A == R \cup About("header", w, f)
  <2>1. Legal(w, <<"sign", F(sh), sh>>) /\ Need(w, <<"sign", F(sh), sh>>) = {}
    BY <1>1, SameHeads, LegalIs, NeedIs
  <2>2. After(w, <<"sign", F(sh), sh>>, A) = AfterSign(w, F(sh), sh, A)
    BY DEF After
  <2>3. About("sigfile", w, f) \subseteq {x \in {"sigfile"} \X Signers : sh = HeaderOf(w, x[2]) /\ F(sh) = F(sh) /\ <<"header", x[2]>> \in A}
    BY <1>3 DEF About
  <2>4. R \subseteq Unwritten(A, sh[1])
    BY <1>2, <1>4
  <2> QED
    BY <1>2, <1>3, <2>1, <2>2, <2>3, <2>4 DEF Takes, AfterSign
<1>7. Takes(w, <<"attach", F(SignedOf(sh)), sh>>, R \cup About("sigfile", w, f), R \cup About("attached", w, f))
  <2> DEFINE A == R \cup About("sigfile", w, f)
             r == F(SignedOf(sh))
  <2>1. Legal(w, <<"attach", r, sh>>) /\ Need(w, <<"attach", r, sh>>) = {}
    BY <1>1, SameHeads, LegalIs, NeedIs
  <2>2. After(w, <<"attach", r, sh>>, A) = AfterAttach(w, r, sh, A)
    BY DEF After
  <2>3. About("attached", w, f) \subseteq {x \in {"attached"} \X Signers : sh = HeaderOf(w, x[2]) /\ r = F(SignedOf(sh)) /\ <<"sigfile", x[2]>> \in A}
    BY <1>3 DEF About
  <2>4. R \subseteq Unwritten(A, sh[1])
    BY <1>2, <1>4
  <2> QED
    BY <1>2, <1>3, <2>1, <2>2, <2>3, <2>4 DEF Takes, AfterAttach
<1>8. Takes(w, <<"copy", F(SignedOf(sh)), to>>, R \cup About("attached", w, f), R \cup About("signed", w, f))
  <2> DEFINE A == R \cup About("attached", w, f)
             r == F(SignedOf(sh))
  <2>1. Legal(w, <<"copy", r, to>>) /\ Need(w, <<"copy", r, to>>) = {}
    BY <1>1, SameHeads, LegalIs, NeedIs
  <2>2. After(w, <<"copy", r, to>>, A) = AfterCopy(w, r, to, A)
    BY DEF After
  <2>3. About("signed", w, f) \subseteq {x \in {"signed"} \X Signers : r = F(SignedOf(HeaderOf(w, x[2]))) /\ to = ResultOf(w, x[2]) /\ <<"attached", x[2]>> \in A}
    BY <1>3 DEF About
  <2>4. R \subseteq Unwritten(A, to[1])
    BY <1>2, <1>4
  <2> QED
    BY <1>2, <1>3, <2>1, <2>2, <2>3, <2>4 DEF Takes, AfterCopy
<1> QED
  BY <1>5, <1>6, <1>7, <1>8 DEF R, sh, al, to

-----------------------------------------------------------------------------
(* More single steps.                                                      *)

LEMMA OfIs ==
  /\ \A k : Of(<<"kept", k>>) = {} /\ Of(<<"val", k>>) = {} /\ Of(<<"list", k>>) = {"mb1", "psc"}
  /\ \A k \in {"digested", "good", "goodA"} : Of(<<"br", k>>) = {"br_bct", "mb1"}
  /\ \A k \in {"made", "sigfile", "signed", "shafile"} : Of(<<"br", k>>) = {"br_bct"}
  /\ \A a \in {"header", "sigfile", "attached", "signed"} : \A k : Of(<<a, k>>) = {k}
  BY DEF Of

\* The rest is all when nothing is known of such files.
LEMMA OfWhat ==
  ASSUME NEW X, X \subseteq Facts, NEW h, h \notin Plain \cup {"br_bct"}
  PROVE  Unwritten(X, h) = X
<1>1. ASSUME NEW x \in Facts PROVE Of(x) \subseteq Plain \cup {"br_bct"}
  BY DEF Facts, Of, Plain, BrKinds
<1> QED
  BY <1>1 DEF Unwritten

LEMMA TakesFrom ==
  ASSUME NEW w, NEW a, NEW X, NEW Y, NEW Z, Takes(w, a, X, Y), Z \subseteq Y
  PROVE  Takes(w, a, X, Z)
  BY DEF Takes

LEMMA TakesSign ==
  ASSUME NEW w, NEW X, X \subseteq Facts, NEW h, NEW f, NEW g, NEW e, Named(f, h), Named(g, h), e[1] = h
  PROVE  Takes(w, <<"sign", F(f), g>>, X, Rest(X, e)) /\ Takes(w, <<"attach", F(f), g>>, X, Rest(X, e))
         /\ Takes(w, <<"header", F(f), g>>, X, Rest(X, e))
<1>1. Legal(w, <<"sign", F(f), g>>) /\ Need(w, <<"sign", F(f), g>>) = {}
      /\ Legal(w, <<"attach", F(f), g>>) /\ Need(w, <<"attach", F(f), g>>) = {}
      /\ Legal(w, <<"header", F(f), g>>) /\ Need(w, <<"header", F(f), g>>) = {}
  BY SameHeads, LegalIs, NeedIs
<1>2. Rest(X, e) \subseteq After(w, <<"sign", F(f), g>>, X)
  BY DEF After, AfterSign, Rest, Named
<1>3. Rest(X, e) \subseteq After(w, <<"attach", F(f), g>>, X)
  BY DEF After, AfterAttach, Rest, Named
<1>4. Rest(X, e) \subseteq After(w, <<"header", F(f), g>>, X)
  BY DEF After, AfterHeader, Rest, Named
<1> QED
  BY <1>1, <1>2, <1>3, <1>4, RestFacts DEF Takes

LEMMA TakesMake ==
  ASSUME NEW w, NEW X, X \subseteq Facts, NEW f, NEW s, IsName(f), Signable(s), s # <<>>
  PROVE  Takes(w, <<"make", f, s>>, X, Rest(X, f))
<1>1. Legal(w, <<"make", f, s>>) /\ Need(w, <<"make", f, s>>) = {}
  BY LegalIs, NeedIs
<1>2. Rest(X, f) \subseteq After(w, <<"make", f, s>>, X)
  BY DEF After, AfterMake, Rest
<1> QED
  BY <1>1, <1>2, RestFacts DEF Takes

\* Assignments that no fact is about.
LEMMA TakesKeep ==
  ASSUME NEW w, NEW X, X \subseteq Facts, NEW k \in Keepers \ {"pt", "unheard", "ramcode"}, NEW f, IsName(f)
  PROVE  /\ Takes(w, <<"keep", k, f>>, X, X \ {<<"kept", k>>})
         /\ k \notin KeptNames => Takes(w, <<"keep", k, f>>, X, X)
         /\ k \in KeptNames /\ f = Expected(w, k) => Takes(w, <<"keep", k, f>>, X, X \cup {<<"kept", k>>})
<1>1. Legal(w, <<"keep", k, f>>) /\ Need(w, <<"keep", k, f>>) = {}
  BY LegalIs, NeedIs
<1>2. After(w, <<"keep", k, f>>, X) = AfterKeep(w, k, f, X)
  BY DEF After
<1>3. k \notin KeptNames => <<"kept", k>> \notin X
  <2>1. <<"kept", k>> \in Facts => k \in KeptNames
    BY DEF Facts
  <2> QED
    BY <2>1
<1>4. k \in KeptNames => <<"kept", k>> \in Facts
  BY DEF Facts
<1> QED
  BY <1>1, <1>2, <1>3, <1>4 DEF Takes, AfterKeep, If

LEMMA TakesCall ==
  ASSUME NEW w, NEW m, NEW a, NEW X, NEW Y, X \subseteq Facts, Y \subseteq Facts, LegalCall(m, a),
         Need(w, <<"call", m, a>>) \subseteq X, Y \subseteq AfterCall(w, m, a, X)
  PROVE  Takes(w, <<"call", m, a>>, X, Y)
<1>1. After(w, <<"call", m, a>>, X) = AfterCall(w, m, a, X)
  BY DEF After
<1> QED
  BY <1>1, LegalIs DEF Takes

-----------------------------------------------------------------------------
(* Methods that sign a file.                                               *)

\* Signing(f, sh) of the copy with a header.
LEMMA SigningLeads ==
  ASSUME NEW w, NEW X, X \subseteq Facts, NEW f, IsName(f), f[1] # "aligned"
  PROVE  Leads(w, T23!Signing(f, Headed(f)), Rest(X, f) \cup About("header", w, f),
                  Rest(X, f) \cup About("signed", w, f))
<1> DEFINE sh == Headed(f)
           A == Rest(X, f) \cup About("header", w, f)
           B == Rest(X, f) \cup About("sigfile", w, f)
           C == Rest(X, f) \cup About("attached", w, f)
           D == Rest(X, f) \cup About("signed", w, f)
<1>1. /\ Takes(w, <<"sign", F(sh), sh>>, A, B)
      /\ Takes(w, <<"attach", F(SignedOf(sh)), sh>>, B, C)
      /\ Takes(w, <<"copy", F(SignedOf(sh)), Removing(sh, {"aligned"}) \o <<"signed">>>>, C, D)
  BY TakesSigning
<1>2. T23!Signing(f, sh) = <<<<"sign", F(sh), sh>>, <<"attach", F(SignedOf(sh)), sh>>,
                             <<"copy", F(SignedOf(sh)), Removing(sh, {"aligned"}) \o <<"signed">>>>>>
  <2>1. T23!Without(sh, "aligned") = Removing(sh, {"aligned"}) /\ T23!F(sh) = F(sh) /\ T23!F(SignedOf(sh)) = F(SignedOf(sh))
    BY Shared, SharedWithout
  <2> HIDE DEF sh
  <2> QED
    BY <2>1 DEF T23!Signing, SignedOf
<1> HIDE DEF sh, A, B, C, D
<1>3. Leads(w, T23!Signing(f, sh), A, D)
  BY <1>1, <1>2, LeadsThree
<1> QED
  BY <1>3 DEF A, D, sh

\* The copy with a header, which is made when the tool is there.
LEMMA AlignedLeads ==
  ASSUME NEW w, NEW X, X \subseteq Facts, NEW f, IsName(f), f[1] # "aligned", NEW c
  PROVE  /\ Leads(w, T23!When(c, <<<<"copy", F(f), f \o <<"aligned">>>>>>), X, Rest(X, f))
         /\ Takes(w, <<"tool">>, Rest(X, f), Rest(X, f))
         /\ Takes(w, <<"header", F(f \o <<"aligned">>), Headed(f)>>, Rest(X, f), Rest(X, f) \cup About("header", w, f))
<1> DEFINE h == f[1]
<1>1. Named(f, h) /\ Named(f \o <<"aligned">>, h)
  BY HeaderNames DEF Named
<1>2. Takes(w, <<"copy", F(f), f \o <<"aligned">>>>, X, Rest(X, f))
  BY <1>1, TakesCopy
<1>3. Leads(w, T23!When(c, <<<<"copy", F(f), f \o <<"aligned">>>>>>), X, Rest(X, f))
  BY <1>2, LeadsOne, LeadsWhen, RestFacts
<1> QED
  BY <1>3, TakesSigning, TakesTool, RestFacts

LEMMA OemSignFskpLeads ==
  ASSUME NEW w, NEW X, X \subseteq Facts, NEW f, IsName(f), f[1] # "aligned"
  PROVE  Leads(w, T23!OemSignFskp(Headed(f)), Rest(X, f), Rest(X, f))
<1> DEFINE h == f[1]
           sh == Headed(f)
           e == sh \o <<"encrypt">>
           R == Rest(X, f)
<1>1. Named(f, h) /\ Named(sh, h) /\ h # "aligned"
  BY HeaderNames DEF Named
<1>2. Named(e, h) /\ Named(e \o <<"signed">>, h)
  BY <1>1, Appended
<1>3. R \subseteq Facts /\ Rest(R, f) = R
  BY RestFacts DEF Rest
<1>4. T23!OemSignFskp(sh) =
          <<<<"tool">>, <<"copy", F(sh), e>>, <<"edit", F(e), "encrypted">>>>
          \o <<<<"edit", F(e), "sha">>, <<"sign", F(e), e>>, <<"attach", F(e \o <<"signed">>), e>>, <<"tool">>>>
  <2> HIDE DEF sh
  <2> QED
    BY DEF T23!OemSignFskp, T23!OemEncFskp, T23!F, F
<1>5. e[1] = f[1] /\ IsName(e)
  BY <1>2 DEF Named
<1> HIDE DEF sh, e, R, h
<1>6. /\ Takes(w, <<"tool">>, R, R) /\ Takes(w, <<"copy", F(sh), e>>, R, R)
      /\ Takes(w, <<"edit", F(e), "encrypted">>, R, R) /\ Takes(w, <<"edit", F(e), "sha">>, R, R)
      /\ Takes(w, <<"sign", F(e), e>>, R, R) /\ Takes(w, <<"attach", F(e \o <<"signed">>), e>>, R, R)
  <2>1. f[1] = h
    BY DEF h
  <2>2. Takes(w, <<"copy", F(sh), e>>, R, Rest(R, f)) /\ Takes(w, <<"sign", F(e), e>>, R, Rest(R, f))
        /\ Takes(w, <<"attach", F(e \o <<"signed">>), e>>, R, Rest(R, f))
    BY <1>1, <1>2, <1>3, <2>1, TakesCopy, TakesSign
  <2>3. Takes(w, <<"edit", F(e), "encrypted">>, R, Rest(R, f)) /\ Takes(w, <<"edit", F(e), "sha">>, R, Rest(R, f))
    BY <1>3, <1>5, TakesEdit
  <2> QED
    BY <1>3, <2>2, <2>3, TakesTool
<1>7. Leads(w, T23!OemSignFskp(sh), R, R)
  BY <1>4, <1>6, LeadsThree, LeadsFour, LeadsJoin
<1> QED
  BY <1>7 DEF sh, R

LEMMA OemSignFileLeads ==
  ASSUME NEW w, NEW X, X \subseteq Facts, NEW f, IsName(f), f[1] # "aligned", NEW magic
  PROVE  Leads(w, T23!OemSignFile(f, magic), X, AfterSigning(w, f, magic # "FSKP", X))
<1> DEFINE R == Rest(X, f)
           H == R \cup About("header", w, f)
           Z == AfterSigning(w, f, magic # "FSKP", X)
           s == T23!When(Exists(f), <<<<"copy", F(f), f \o <<"aligned">>>>>>)
           t == <<<<"tool">>, <<"header", F(f \o <<"aligned">>), Headed(f)>>>>
           u == IF magic = "FSKP" THEN T23!OemSignFskp(Headed(f)) ELSE T23!Signing(f, Headed(f))
<1>1. T23!OemSignFile(f, magic) = s \o t \o u
  BY DEF T23!OemSignFile, T23!Aligned, Headed, T23!F, F, T23!Exists, Exists
<1>2. Leads(w, s, X, R) /\ Takes(w, <<"tool">>, R, R)
      /\ Takes(w, <<"header", F(f \o <<"aligned">>), Headed(f)>>, R, H)
  BY AlignedLeads
<1>3. Leads(w, t, R, H)
  BY <1>2, LeadsTwo
<1>4. Leads(w, u, H, Z)
  <2>1. CASE magic = "FSKP"
    <3>1. Z = R /\ R \subseteq H
      BY <2>1 DEF AfterSigning, Rest
    <3>2. Leads(w, u, R, R)
      BY <2>1, OemSignFskpLeads
    <3> QED
      BY <3>1, <3>2, LeadsFrom
  <2>2. CASE magic # "FSKP"
    <3>1. Z = R \cup About("signed", w, f)
      BY <2>2 DEF AfterSigning, Rest, About
    <3> QED
      BY <2>2, <3>1, SigningLeads
  <2> QED
    BY <2>1, <2>2
<1> HIDE DEF R, H, Z, s, t, u
<1>5. Leads(w, T23!OemSignFile(f, magic), X, Z)
  BY <1>1, <1>2, <1>3, <1>4, LeadsJoin
<1> QED
  BY <1>5 DEF Z

LEMMA OemEncryptAndSignFileLeads ==
  ASSUME NEW w, NEW X, X \subseteq Facts, NEW f, IsName(f), f[1] # "aligned", NEW header \in BOOLEAN
  PROVE  Leads(w, T23!OemEncryptAndSignFile(f, header), X, AfterSigning(w, f, ~header, X))
<1> DEFINE R == Rest(X, f)
           H == R \cup About("header", w, f)
           Z == AfterSigning(w, f, ~header, X)
           al == f \o <<"aligned">>
           en == f \o <<"encrypt">>
           s == T23!When(Exists(f), <<<<"copy", F(f), al>>>>)
           t == <<<<"tool">>>>
           u == <<<<"copy", F(al), en>>, <<"edit", F(en), "encrypted">>>>
           v == T23!IsRatchetSetNeeded \o <<<<"header", F(al), Headed(f)>>>> \o T23!Signing(f, Headed(f))
<1>1. T23!OemEncryptAndSignFile(f, header) = s \o t \o (IF header THEN u ELSE v)
  BY DEF T23!OemEncryptAndSignFile, T23!Aligned, Headed, T23!F, F, T23!Exists, Exists, T23!RunTool
<1>2. Leads(w, s, X, R) /\ Takes(w, <<"tool">>, R, R) /\ Takes(w, <<"header", F(al), Headed(f)>>, R, H)
  BY AlignedLeads
<1>3. R \subseteq Facts /\ Rest(R, f) = R
  BY RestFacts DEF Rest
<1>4. header => Leads(w, u, R, Z)
  <2> SUFFICES ASSUME header PROVE Leads(w, u, R, R)
    <3>1. header => Z = R
      BY DEF AfterSigning, Rest
    <3> QED
      BY <3>1
  <2>3. Named(f, f[1])
    BY DEF Named
  <2>4. Named(al, f[1]) /\ Named(en, f[1])
    BY <2>3, Appended
  <2>1. Named(f, f[1]) /\ Named(al, f[1]) /\ Named(en, f[1]) /\ IsName(en) /\ en[1] = f[1]
    BY <2>3, <2>4 DEF Named
  <2> HIDE DEF R, al, en
  <2>2. Takes(w, <<"copy", F(al), en>>, R, Rest(R, f)) /\ Takes(w, <<"edit", F(en), "encrypted">>, R, Rest(R, f))
    BY <1>3, <2>1, TakesCopy, TakesEdit
  <2> QED
    BY <1>3, <2>2, LeadsTwo
<1>5. ~header => Leads(w, v, R, Z)
  <2> SUFFICES ASSUME ~header PROVE Leads(w, v, R, R \cup About("signed", w, f))
    <3>1. ~header => Z = R \cup About("signed", w, f)
      BY DEF AfterSigning, Rest, About
    <3> HIDE DEF Z, v, R
    <3> QED
      BY <3>1
  <2>1. Leads(w, T23!IsRatchetSetNeeded, R, R)
    <3>1. T23!IsRatchetSetNeeded = T23!When(opt.ratchet, <<<<"crash">>>>)
      BY DEF T23!IsRatchetSetNeeded, T23!Crashing
    <3>2. Leads(w, <<<<"crash">>>>, R, R)
      BY <1>3, TakesTool, LeadsOne
    <3> QED
      BY <1>3, <3>1, <3>2, LeadsWhen
  <2>2. Leads(w, <<<<"header", F(al), Headed(f)>>>>, R, H)
    BY <1>2, LeadsOne
  <2>3. Leads(w, T23!Signing(f, Headed(f)), H, R \cup About("signed", w, f))
    BY SigningLeads
  <2> HIDE DEF R, H
  <2> QED
    BY <2>1, <2>2, <2>3, LeadsJoin
<1>6. Leads(w, t, R, R)
  BY <1>2, LeadsOne
<1> HIDE DEF R, H, Z, s, t, u, v, al, en
<1>7. Leads(w, IF header THEN u ELSE v, R, Z)
  BY <1>4, <1>5
<1>8. Leads(w, T23!OemEncryptAndSignFile(f, header), X, Z)
  BY <1>1, <1>2, <1>6, <1>7, LeadsJoin
<1> QED
  BY <1>8 DEF Z

-----------------------------------------------------------------------------
(* Boot configuration tables.                                              *)

\* The calls that sign, and what is known after them.
LEMMA TakesSigningCall ==
  ASSUME NEW w, NEW X, X \subseteq Facts, NEW f, IsName(f), f[1] # "aligned"
  PROVE  /\ \A magic : Takes(w, <<"call", "oem_sign_file", <<f, magic>>>>, X, Rest(X, f))
         /\ \A magic : magic # "FSKP" =>
               Takes(w, <<"call", "oem_sign_file", <<f, magic>>>>, X, Rest(X, f) \cup About("signed", w, f))
         /\ Takes(w, <<"call", "oem_encrypt_and_sign_file", <<f, TRUE>>>>, X, Rest(X, f))
         /\ Takes(w, <<"call", "oem_encrypt_and_sign_file", <<f, FALSE>>>>, X, Rest(X, f) \cup About("signed", w, f))
<1>1. Rest(X, f) \subseteq Facts /\ About("signed", w, f) \subseteq Facts
  BY RestFacts, AboutFacts
<1>2. ASSUME NEW magic
      PROVE  /\ Takes(w, <<"call", "oem_sign_file", <<f, magic>>>>, X, Rest(X, f))
             /\ magic # "FSKP" => Takes(w, <<"call", "oem_sign_file", <<f, magic>>>>, X, Rest(X, f) \cup About("signed", w, f))
  <2> DEFINE a == <<f, magic>>
  <2>1. a[1] = f /\ a[2] = magic
    OBVIOUS
  <2> HIDE DEF a
  <2>2. LegalCall("oem_sign_file", a) /\ Need(w, <<"call", "oem_sign_file", a>>) = {}
    BY <2>1 DEF LegalCall, Methods, Need
  <2>3. AfterCall(w, "oem_sign_file", a, X) = AfterSigning(w, f, magic # "FSKP", X)
    BY <2>1 DEF AfterCall, Neutral, Layouting
  <2>4. Rest(X, f) \subseteq AfterSigning(w, f, magic # "FSKP", X)
        /\ (magic # "FSKP" => About("signed", w, f) \subseteq AfterSigning(w, f, magic # "FSKP", X))
    BY DEF AfterSigning, Rest, About
  <2> QED
    <3>1. Takes(w, <<"call", "oem_sign_file", a>>, X, Rest(X, f))
      BY <1>1, <2>2, <2>3, <2>4, TakesCall
    <3>2. magic # "FSKP" => Takes(w, <<"call", "oem_sign_file", a>>, X, Rest(X, f) \cup About("signed", w, f))
      <4> SUFFICES ASSUME magic # "FSKP"
                   PROVE Takes(w, <<"call", "oem_sign_file", a>>, X, Rest(X, f) \cup About("signed", w, f))
        OBVIOUS
      <4>1. Rest(X, f) \cup About("signed", w, f) \subseteq AfterCall(w, "oem_sign_file", a, X)
        BY <2>3, <2>4
      <4>2. Rest(X, f) \cup About("signed", w, f) \subseteq Facts
        BY <1>1
      <4> QED
        BY <2>2, <4>1, <4>2, TakesCall
    <3> QED
      BY <3>1, <3>2 DEF a
<1>3. ASSUME NEW b \in BOOLEAN
      PROVE  /\ Takes(w, <<"call", "oem_encrypt_and_sign_file", <<f, b>>>>, X, Rest(X, f))
             /\ ~b => Takes(w, <<"call", "oem_encrypt_and_sign_file", <<f, b>>>>, X, Rest(X, f) \cup About("signed", w, f))
  <2> DEFINE a == <<f, b>>
  <2>1. a[1] = f /\ a[2] = b
    OBVIOUS
  <2> HIDE DEF a
  <2>2. LegalCall("oem_encrypt_and_sign_file", a) /\ Need(w, <<"call", "oem_encrypt_and_sign_file", a>>) = {}
    BY <2>1 DEF LegalCall, Methods, Need
  <2>3. AfterCall(w, "oem_encrypt_and_sign_file", a, X) = AfterSigning(w, f, ~b, X)
    BY <2>1 DEF AfterCall, Neutral, Layouting
  <2>4. Rest(X, f) \subseteq AfterSigning(w, f, ~b, X)
        /\ (~b => About("signed", w, f) \subseteq AfterSigning(w, f, ~b, X))
    BY DEF AfterSigning, Rest, About
  <2> QED
    <3>1. Takes(w, <<"call", "oem_encrypt_and_sign_file", a>>, X, Rest(X, f))
      BY <1>1, <2>2, <2>3, <2>4, TakesCall
    <3>2. ~b => Takes(w, <<"call", "oem_encrypt_and_sign_file", a>>, X, Rest(X, f) \cup About("signed", w, f))
      <4> SUFFICES ASSUME ~b
                   PROVE Takes(w, <<"call", "oem_encrypt_and_sign_file", a>>, X, Rest(X, f) \cup About("signed", w, f))
        OBVIOUS
      <4>1. Rest(X, f) \cup About("signed", w, f) \subseteq AfterCall(w, "oem_encrypt_and_sign_file", a, X)
        BY <2>3, <2>4
      <4>2. Rest(X, f) \cup About("signed", w, f) \subseteq Facts
        BY <1>1
      <4> QED
        BY <2>2, <4>1, <4>2, TakesCall
    <3> QED
      BY <3>1, <3>2 DEF a
<1> QED
  <2>1. Takes(w, <<"call", "oem_encrypt_and_sign_file", <<f, TRUE>>>>, X, Rest(X, f))
    BY <1>3
  <2>2. Takes(w, <<"call", "oem_encrypt_and_sign_file", <<f, FALSE>>>>, X, Rest(X, f) \cup About("signed", w, f))
    BY <1>3
  <2> QED
    BY <1>2, <2>1, <2>2

Oems == {"mb1_bct", "mem_rcm", "applet"}
LEMMA SignOemLeads ==
  ASSUME NEW w, w.encrypt = opt.encrypt, NEW X, X \subseteq Facts, NEW f, IsName(f), f[1] # "aligned",
         NEW magic, magic # "FSKP"
  PROVE  Leads(w, T23!SignOem(f, magic), X,
               Rest(X, f) \cup {x \in {"signed"} \X Oems : f = Given(x[2])})
<1> DEFINE e == f \o <<"encrypt">>
           R == Rest(X, f)
           Z == {x \in {"signed"} \X Oems : f = Given(x[2])}
<1>1. Named(f, f[1])
  BY DEF Named
<1>2. Named(e, f[1])
  BY <1>1, Appended
<1>3. IsName(e) /\ e[1] = f[1]
  BY <1>2 DEF Named
<1>4. R \subseteq Facts /\ Rest(R, e) = R
  BY <1>3, RestFacts DEF Rest
<1>5. \A x \in Z : x[2] \in Signers /\ x = <<"signed", x[2]>>
  BY DEF Oems, Signers
<1>6. CASE opt.encrypt
  <2>1. T23!SignOem(f, magic) = <<<<"call", "oem_encrypt_and_sign_file", <<f, TRUE>>>>,
                                  <<"call", "oem_encrypt_and_sign_file", <<e, FALSE>>>>>>
    BY <1>6 DEF T23!SignOem, T23!CallWith
  <2>2. Z \subseteq About("signed", w, e)
    <3>1. ASSUME NEW x \in Z PROVE e = FileOf(w, x[2])
      BY <1>6, w.encrypt DEF FileOf, Oems
    <3> QED
      BY <1>5, <3>1 DEF About
  <2> HIDE DEF R, Z, e
  <2>3. Takes(w, <<"call", "oem_encrypt_and_sign_file", <<f, TRUE>>>>, X, R)
    BY TakesSigningCall DEF R
  <2>4. Takes(w, <<"call", "oem_encrypt_and_sign_file", <<e, FALSE>>>>, R, R \cup About("signed", w, e))
    BY <1>3, <1>4, TakesSigningCall
  <2>5. Takes(w, <<"call", "oem_encrypt_and_sign_file", <<e, FALSE>>>>, R, R \cup Z)
    BY <2>2, <2>4, TakesFrom
  <2> QED
    BY <2>1, <2>3, <2>5, LeadsTwo DEF R, Z
<1>7. CASE ~opt.encrypt
  <2>1. T23!SignOem(f, magic) = <<<<"call", "oem_sign_file", <<f, magic>>>>>>
    BY <1>7 DEF T23!SignOem, T23!CallWith
  <2>2. Z \subseteq About("signed", w, f)
    <3>1. ASSUME NEW x \in Z PROVE f = FileOf(w, x[2])
      BY <1>7, ~w.encrypt DEF FileOf, Oems
    <3> QED
      BY <1>5, <3>1 DEF About
  <2> HIDE DEF Z
  <2>3. Takes(w, <<"call", "oem_sign_file", <<f, magic>>>>, X, Rest(X, f) \cup About("signed", w, f))
    BY TakesSigningCall
  <2>4. Takes(w, <<"call", "oem_sign_file", <<f, magic>>>>, X, R \cup Z)
    BY <2>2, <2>3, TakesFrom
  <2> QED
    BY <2>1, <2>4, LeadsOne DEF R, Z
<1> QED
  BY <1>6, <1>7

LEMMA SignedOemIs ==
  ASSUME NEW w, w.encrypt = opt.encrypt, NEW h \in Oems
  PROVE  T23!SignedOem(Given(h)) = ResultOf(w, h)
  BY DEF T23!SignedOem, ResultOf, FileOf, Oems

LEMMA FillMb1StorageInfoLeads ==
  ASSUME NEW w, NEW X, X \subseteq Facts, NEW c \in {"A", "B"}
  PROVE  Leads(w, T23!FillMb1StorageInfo(c), X,
               (X \cap (Base \cup {<<"list", "made">>, <<"kept", "chain_A">>})) \cup KeepBct)
<1> DEFINE X0 == X \cap (Base \cup {<<"list", "made">>, <<"kept", "chain_A">>})
           Y == X0 \cup KeepBct
<1>1. Y \subseteq Facts /\ X0 \subseteq X /\ <<"kept", "bct">> \in Facts
  BY DEF KeepBct, Facts, KeptNames
<1>2. \A x \in Y : "br_bct" \notin Of(x) /\ (x # <<"list", "made">> => "mb1" \notin Of(x))
  BY OfIs DEF Base, KeepBct
<1>3. Named(BrBct, "br_bct") /\ IsName(BrBct) /\ BrBct[1] = "br_bct"
  BY IsSeqShort DEF BrBct, T23!BrBct, Named, IsName
<1>4. Takes(w, <<"keep", "bct", BrBct>>, X, Y)
  <2>1. "bct" \in Keepers \ {"pt", "unheard", "ramcode"} /\ "bct" \in KeptNames /\ BrBct = Expected(w, "bct")
    BY DEF Keepers, KeptNames, Expected
  <2>2. Takes(w, <<"keep", "bct", BrBct>>, X, X \cup {<<"kept", "bct">>})
    BY <1>3, <2>1, TakesKeep
  <2>3. Y \subseteq X \cup {<<"kept", "bct">>}
    BY <1>1 DEF KeepBct
  <2> QED
    BY <2>2, <2>3, TakesFrom
<1>5. Takes(w, <<"make", BrBct, <<"bct", c>>>>, Y, Y)
  <2>1. Signable(<<"bct", c>>) /\ <<"bct", c>> # <<>>
    <3>1. IsSeq(<<"bct", c>>)
      BY IsSeqShort
    <3>2. \A i \in DOMAIN <<"bct", c>> : <<"bct", c>>[i] # "unsigned"
      OBVIOUS
    <3> QED
      BY <3>1, <3>2 DEF Signable
  <2>2. Rest(Y, BrBct) = Y
    BY <1>2, <1>3 DEF Rest, Unwritten
  <2> HIDE DEF Y
  <2> QED
    BY <1>1, <1>3, <2>1, <2>2, TakesMake
<1>6. Takes(w, <<"edit", S("mb1"), "storage">>, Y, Y)
  <2>1. Legal(w, <<"edit", S("mb1"), "storage">>) /\ Need(w, <<"edit", S("mb1"), "storage">>) = {}
    BY LegalIs, NeedIs
  <2>2. Y \subseteq After(w, <<"edit", S("mb1"), "storage">>, Y)
    BY <1>2 DEF After, AfterEdit, Unwritten
  <2> HIDE DEF Y
  <2> QED
    BY <1>1, <2>1, <2>2 DEF Takes
<1> HIDE DEF X0, Y
<1>7. T23!FillMb1StorageInfo(c) = <<<<"keep", "bct", BrBct>>, <<"make", BrBct, <<"bct", c>>>>>>
                                  \o T23!When(kept.pt # None, <<<<"edit", S("mb1"), "storage">>>>)
  BY DEF T23!FillMb1StorageInfo, BrBct, T23!S, S, T23!None, None
<1>8. Leads(w, <<<<"keep", "bct", BrBct>>, <<"make", BrBct, <<"bct", c>>>>>>, X, Y)
  BY <1>4, <1>5, LeadsTwo
<1>9. Leads(w, T23!When(kept.pt # None, <<<<"edit", S("mb1"), "storage">>>>), Y, Y)
  BY <1>1, <1>6, LeadsOne, LeadsWhen
<1>10. Leads(w, T23!FillMb1StorageInfo(c), X, Y)
  BY <1>7, <1>8, <1>9, LeadsJoin
<1> QED
  BY <1>10 DEF X0, Y

-----------------------------------------------------------------------------
(* The BR-BCT.                                                             *)

BrFact(k) == <<"br", k>>
\* Facts of a BR-BCT that has not been signed yet.
Unsigned(Z) ==
    /\ Z \subseteq Facts /\ BrFact("made") \in Z
    /\ \A x \in Z : "br_bct" \in Of(x) => x \in {BrFact("made"), BrFact("digested"), BrFact("goodA")}
BrSteps == <<<<"sign", F(BrBct), BrBct>>, <<"attach", F(BrBct), BrBct>>>>

LEMMA BrNames ==
  /\ Named(BrBct, "br_bct") /\ IsName(BrBct) /\ BrBct[1] = "br_bct" /\ F(BrBct) # S("mb1") /\ F(BrBct)[2] = BrBct
  /\ \A h \in Signers : \A w : BrBct # HeaderOf(w, h)
  /\ \A k : Br({k}) = {BrFact(k)}
<1>1. Named(BrBct, "br_bct") /\ IsName(BrBct) /\ BrBct[1] = "br_bct"
  BY IsSeqShort DEF BrBct, T23!BrBct, Named, IsName
<1>2. ASSUME NEW h \in Signers, NEW w PROVE BrBct # HeaderOf(w, h)
  <2>1. HeaderOf(w, h)[1] = h /\ h # "br_bct"
    BY ResultNames DEF Named, Signers
  <2> QED
    BY <1>1, <2>1
<1>3. F(BrBct) # S("mb1") /\ F(BrBct)[2] = BrBct
  BY DEF F, S
<1>4. \A k : Br({k}) = {BrFact(k)}
  BY DEF Br, BrFact
<1> QED
  BY <1>1, <1>2, <1>3, <1>4

LEMMA BrEdits ==
  ASSUME NEW w, NEW Z, Unsigned(Z), NEW b, b # "unsigned"
  PROVE  Takes(w, <<"edit", F(BrBct), b>>, Z, Z)
<1>1. Legal(w, <<"edit", F(BrBct), b>>) /\ Need(w, <<"edit", F(BrBct), b>>) = {}
  BY BrNames, LegalIs, NeedIs
<1>2. After(w, <<"edit", F(BrBct), b>>, Z) = AfterEdit(F(BrBct), Z)
  BY DEF After
<1>3. Z \subseteq Unwritten(Z, "br_bct") \cup (Z \cap Br({"made", "digested"})) \cup (Z \cap Br({"goodA"}))
  BY DEF Unsigned, Unwritten, Br, BrFact
<1>4. F(BrBct) # S("mb1") /\ F(BrBct)[2][1] = "br_bct"
  BY BrNames
<1>5. Z \subseteq AfterEdit(F(BrBct), Z)
  <2> HIDE DEF F, S
  <2> QED
    BY <1>3, <1>4 DEF AfterEdit, Unsent, If
<1> QED
  BY <1>1, <1>2, <1>5 DEF Takes, Unsigned

LEMMA BrSigns ==
  ASSUME NEW w, NEW Z, Unsigned(Z)
  PROVE  /\ Takes(w, <<"sign", F(BrBct), BrBct>>, Z, Z \cup {BrFact("sigfile")})
         /\ Takes(w, <<"attach", F(BrBct), BrBct>>, Z \cup {BrFact("sigfile")}, Z \cup {BrFact("signed")})
         /\ Takes(w, <<"sha", F(BrBct), BrBct>>, Z \cup {BrFact("signed")}, Z \cup {BrFact("signed"), BrFact("shafile")})
         /\ Takes(w, <<"putsha", F(BrBct), BrBct>>, Z \cup {BrFact("signed"), BrFact("shafile")},
                  (Z \ {BrFact("made"), BrFact("digested")})
                  \cup (IF BrFact("digested") \in Z THEN {BrFact("good")} ELSE {}))
<1>1. /\ Unwritten(Z, "br_bct") \cup (Z \cap Br({"made", "digested"})) \cup (Z \cap Br({"goodA"})) = Z
      /\ Unwritten(Z, "br_bct") \cup (Z \cap Br({"goodA"})) = Z \ {BrFact("made"), BrFact("digested")}
  BY OfIs DEF Unsigned, Unwritten, Br, BrFact
<1>2. /\ Z \subseteq Facts /\ BrFact("made") \in Z
      /\ \A k \in {"made", "digested", "sigfile", "signed", "shafile", "good", "goodA"} : BrFact(k) \in Facts
  BY DEF Unsigned, Facts, BrKinds, BrFact
<1>3. /\ \A X, Y : Unwritten(X, "br_bct") \subseteq Unwritten(X \cup Y, "br_bct")
      /\ \A k \in {"made", "digested", "sigfile", "signed", "shafile", "good", "goodA"} :
            BrFact(k) \in Br({k}) /\ \A ws : k \in ws <=> BrFact(k) \in Br(ws)
  BY DEF Unwritten, Br, BrFact
<1>4. BrBct[1] = "br_bct" /\ Named(BrBct, "br_bct") /\ \A h \in Signers : BrBct # HeaderOf(w, h)
  BY BrNames
<1>5. Takes(w, <<"sign", F(BrBct), BrBct>>, Z, Z \cup {BrFact("sigfile")})
  <2>1. Legal(w, <<"sign", F(BrBct), BrBct>>) /\ Need(w, <<"sign", F(BrBct), BrBct>>) = {}
    BY <1>4, SameHeads, LegalIs, NeedIs
  <2>2. After(w, <<"sign", F(BrBct), BrBct>>, Z) = AfterSign(w, F(BrBct), BrBct, Z)
    BY DEF After
  <2>3. Z \cup {BrFact("sigfile")} \subseteq AfterSign(w, F(BrBct), BrBct, Z)
    BY <1>1, <1>2, <1>4, BrNames DEF AfterSign, Unsent, If, BrFact
  <2> QED
    BY <1>2, <2>1, <2>2, <2>3 DEF Takes
<1>6. Takes(w, <<"attach", F(BrBct), BrBct>>, Z \cup {BrFact("sigfile")}, Z \cup {BrFact("signed")})
  <2> DEFINE U == Z \cup {BrFact("sigfile")}
  <2>1. Legal(w, <<"attach", F(BrBct), BrBct>>) /\ Need(w, <<"attach", F(BrBct), BrBct>>) = {}
    BY <1>4, SameHeads, LegalIs, NeedIs
  <2>2. After(w, <<"attach", F(BrBct), BrBct>>, U) = AfterAttach(w, F(BrBct), BrBct, U)
    BY DEF After
  <2>3. Unwritten(Z, "br_bct") \subseteq Unwritten(U, "br_bct") /\ Br({"made", "sigfile"}) \subseteq U
    BY <1>2 DEF Br, BrFact, Unwritten
  <2>4. Z \subseteq U /\ Z \cup {BrFact("signed")} \subseteq Facts /\ U \subseteq Facts
    BY <1>2
  <2> HIDE DEF U
  <2>5. Z \cup {BrFact("signed")} \subseteq AfterAttach(w, F(BrBct), BrBct, U)
    BY <1>1, <1>4, <2>3, <2>4, BrNames DEF AfterAttach, Unsent, If, BrFact
  <2>6. Takes(w, <<"attach", F(BrBct), BrBct>>, U, Z \cup {BrFact("signed")})
    BY <2>1, <2>2, <2>4, <2>5 DEF Takes
  <2> QED
    BY <2>6 DEF U
<1>7. Takes(w, <<"sha", F(BrBct), BrBct>>, Z \cup {BrFact("signed")}, Z \cup {BrFact("signed"), BrFact("shafile")})
  <2> DEFINE U == Z \cup {BrFact("signed")}
             V == Z \cup {BrFact("signed"), BrFact("shafile")}
  <2>1. Legal(w, <<"sha", F(BrBct), BrBct>>) /\ Need(w, <<"sha", F(BrBct), BrBct>>) = {}
    BY LegalIs, NeedIs
  <2>2. After(w, <<"sha", F(BrBct), BrBct>>, U) = AfterSha(U)
    BY DEF After
  <2>3. U \subseteq Facts /\ V \subseteq Facts
    BY <1>2
  <2>4. /\ Unwritten(Z, "br_bct") \subseteq Unwritten(U, "br_bct") /\ BrFact("made") \in U
        /\ Z \cap Br({"made", "digested"}) \subseteq U \cap Br({"made", "digested", "signed", "goodA"})
        /\ Z \cap Br({"goodA"}) \subseteq U \cap Br({"made", "digested", "signed", "goodA"})
        /\ BrFact("signed") \in U \cap Br({"made", "digested", "signed", "goodA"})
    BY <1>2 DEF Unwritten, Br, BrFact
  <2>5. V \subseteq (Unwritten(Z, "br_bct") \cup (Z \cap Br({"made", "digested"})) \cup (Z \cap Br({"goodA"})))
                    \cup {BrFact("signed")} \cup Br({"shafile"})
    BY <1>1, BrNames
  <2> HIDE DEF U, V
  <2>6. V \subseteq AfterSha(U)
    BY <2>4, <2>5 DEF AfterSha, If, BrFact
  <2>7. Takes(w, <<"sha", F(BrBct), BrBct>>, U, V)
    BY <2>1, <2>2, <2>3, <2>6 DEF Takes
  <2> QED
    BY <2>7 DEF U, V
<1>8. Takes(w, <<"putsha", F(BrBct), BrBct>>, Z \cup {BrFact("signed"), BrFact("shafile")},
                  (Z \ {BrFact("made"), BrFact("digested")})
                  \cup (IF BrFact("digested") \in Z THEN {BrFact("good")} ELSE {}))
  <2> DEFINE U == Z \cup {BrFact("signed"), BrFact("shafile")}
             V == (Z \ {BrFact("made"), BrFact("digested")})
                  \cup (IF BrFact("digested") \in Z THEN {BrFact("good")} ELSE {})
  <2>1. Legal(w, <<"putsha", F(BrBct), BrBct>>) /\ Need(w, <<"putsha", F(BrBct), BrBct>>) = {}
    BY LegalIs, NeedIs
  <2>2. After(w, <<"putsha", F(BrBct), BrBct>>, U) = AfterPutSha(U)
    BY DEF After
  <2>3. U \subseteq Facts /\ V \subseteq Facts
    BY <1>2
  <2>4. Unwritten(Z, "br_bct") \subseteq Unwritten(U, "br_bct") /\ Z \cap Br({"goodA"}) \subseteq U \cap Br({"goodA"})
    BY DEF Unwritten
  <2>5. BrFact("digested") \in Z => Br({"made", "digested", "signed", "shafile"}) \subseteq U
    BY <1>2 DEF Br, BrFact
  <2>6. V \subseteq (Unwritten(Z, "br_bct") \cup (Z \cap Br({"goodA"})))
                    \cup (IF BrFact("digested") \in Z THEN Br({"good"}) ELSE {})
    BY <1>1, BrNames
  <2> HIDE DEF U, V
  <2>7. V \subseteq AfterPutSha(U)
    BY <2>4, <2>5, <2>6 DEF AfterPutSha, If
  <2>8. Takes(w, <<"putsha", F(BrBct), BrBct>>, U, V)
    BY <2>1, <2>2, <2>3, <2>7 DEF Takes
  <2> QED
    BY <2>8 DEF U, V
<1> QED
  BY <1>5, <1>6, <1>7, <1>8

LEMMA BrMade ==
  ASSUME NEW w, NEW X, X \subseteq Facts, NEW c \in {"A", "B"}
  PROVE  LET Z == Unwritten(X, "br_bct") \cup (X \cap Br({"goodA"})) \cup KeepBct \cup {BrFact("made")}
         IN Unsigned(Z) /\ Leads(w, <<<<"keep", "bct", BrBct>>, <<"make", BrBct, <<"bct", c>>>>>>, X, Z)
<1> DEFINE Y == X \cup KeepBct
           Z == Unwritten(X, "br_bct") \cup (X \cap Br({"goodA"})) \cup KeepBct \cup {BrFact("made")}
<1>1. KeepBct \subseteq Facts /\ BrFact("made") \in Facts
  BY DEF KeepBct, Facts, KeptNames, BrKinds, BrFact
<1>2. Unsigned(Z)
  <2>1. "br_bct" \notin Of(<<"kept", "bct">>)
    BY OfIs
  <2> QED
    BY <1>1, <2>1 DEF Unsigned, Unwritten, Br, KeepBct, BrFact
<1>3. Takes(w, <<"keep", "bct", BrBct>>, X, Y)
  <2>1. "bct" \in Keepers \ {"pt", "unheard", "ramcode"} /\ "bct" \in KeptNames /\ BrBct = Expected(w, "bct")
    BY DEF Keepers, KeptNames, Expected
  <2>2. Takes(w, <<"keep", "bct", BrBct>>, X, X \cup {<<"kept", "bct">>})
    BY <2>1, BrNames, TakesKeep
  <2> QED
    BY <2>2 DEF KeepBct
<1>4. Takes(w, <<"make", BrBct, <<"bct", c>>>>, Y, Z)
  <2>1. Signable(<<"bct", c>>) /\ <<"bct", c>> # <<>>
    <3>1. IsSeq(<<"bct", c>>)
      BY IsSeqShort
    <3>2. \A i \in DOMAIN <<"bct", c>> : <<"bct", c>>[i] # "unsigned"
      OBVIOUS
    <3> QED
      BY <3>1, <3>2 DEF Signable
  <2>2. Legal(w, <<"make", BrBct, <<"bct", c>>>>) /\ Need(w, <<"make", BrBct, <<"bct", c>>>>) = {}
    BY <2>1, BrNames, LegalIs, NeedIs
  <2>3. After(w, <<"make", BrBct, <<"bct", c>>>>, Y) = AfterMake(BrBct, Y)
    BY DEF After
  <2>4. Unwritten(Y, "br_bct") \cup (Y \cap Br({"goodA"})) \cup Br({"made"}) = AfterMake(BrBct, Y)
    BY BrNames DEF AfterMake, If
  <2>5. Z \subseteq Unwritten(Y, "br_bct") \cup (Y \cap Br({"goodA"})) \cup Br({"made"})
    BY OfIs DEF Unwritten, Br, BrFact, KeepBct
  <2>6. Y \subseteq Facts /\ Z \subseteq Facts
    BY <1>1, <1>2 DEF Unsigned
  <2> HIDE DEF Y, Z
  <2> QED
    BY <2>2, <2>3, <2>4, <2>5, <2>6 DEF Takes
<1> HIDE DEF Y, Z
<1>5. Leads(w, <<<<"keep", "bct", BrBct>>, <<"make", BrBct, <<"bct", c>>>>>>, X, Z)
  BY <1>3, <1>4, LeadsTwo
<1> QED
  BY <1>2, <1>5 DEF Z

LEMMA GenerateBrBctLeads ==
  ASSUME NEW w, NEW X, X \subseteq Facts, <<"kept", "pt">> \in X => kept.pt # None, NEW c \in {"A", "B"}
  PROVE  Leads(w, T23!GenerateBrBct(c), X, AfterBrBct(X))
<1> DEFINE Z == Unwritten(X, "br_bct") \cup (X \cap Br({"goodA"})) \cup KeepBct \cup {BrFact("made")}
           D == IF kept.pt # None THEN Z \cup {BrFact("digested")} ELSE Z
           Y == AfterBrBct(X)
           make == <<<<"keep", "bct", BrBct>>, <<"make", BrBct, <<"bct", c>>>>>>
           custinfo == T23!When(opt.custinfo, <<<<"edit", F(BrBct), "custinfo">>>>)
           digest == T23!When(kept.pt # None, <<<<"digest", F(BrBct)>>>>)
           nct == T23!When(opt.nct, <<<<"edit", F(BrBct), "boardinfo">>>>)
           tool == <<<<"tool">>>>
           first == T23!When(opt.encrypt, BrSteps)
           last == <<<<"sign", F(BrBct), BrBct>>, <<"attach", F(BrBct), BrBct>>,
                     <<"sha", F(BrBct), BrBct>>, <<"putsha", F(BrBct), BrBct>>>>
<1>1. T23!GenerateBrBct(c) = make \o custinfo \o digest \o nct \o tool \o first \o last
  BY DEF T23!GenerateBrBct, BrBct, BrSteps, T23!F, F, T23!None, None, T23!UpdateBoardinfo, T23!RunTool
<1>2. Unsigned(Z) /\ Leads(w, make, X, Z)
  BY BrMade
<1>3. Unsigned(D) /\ Z \subseteq D /\ Z \subseteq Facts /\ D \subseteq Facts
  BY <1>2 DEF Unsigned, Facts, BrKinds, BrFact
<1>4. Takes(w, <<"digest", F(BrBct)>>, Z, Z \cup {BrFact("digested")})
  <2>1. Legal(w, <<"digest", F(BrBct)>>) /\ Need(w, <<"digest", F(BrBct)>>) = {}
    BY LegalIs, NeedIs
  <2>2. After(w, <<"digest", F(BrBct)>>, Z) = AfterDigest(Z)
    BY DEF After
  <2>3. BrFact("digested") \in Facts
    BY DEF Facts, BrKinds, BrFact
  <2> HIDE DEF Z
  <2>4. Z \cup {BrFact("digested")} \subseteq AfterDigest(Z)
    BY <1>2 DEF Unsigned, AfterDigest, Unwritten, Br, BrFact, If
  <2> QED
    BY <1>3, <2>1, <2>2, <2>3, <2>4 DEF Takes
<1>5. Leads(w, custinfo, Z, Z)
  BY <1>2, <1>3, BrEdits, LeadsOne, LeadsWhen
<1>6. Leads(w, digest, Z, D)
  <2> HIDE DEF Z
  <2> QED
    BY <1>3, <1>4, LeadsOne, LeadsWhen
<1>7. Leads(w, nct, D, D)
  BY <1>3, BrEdits, LeadsOne, LeadsWhen
<1>8. Leads(w, tool, D, D)
  BY <1>3, TakesTool, LeadsOne
<1>9. Leads(w, first, D, D)
  <2> HIDE DEF D
  <2>1. Leads(w, BrSteps, D, D \cup {BrFact("signed")})
    BY <1>3, BrSigns, LeadsTwo DEF BrSteps
  <2>2. Leads(w, BrSteps, D, D)
    BY <2>1, LeadsFrom
  <2> QED
    BY <1>3, <2>2, LeadsWhen
<1>10. Leads(w, last, D, Y)
  <2> DEFINE V == (D \ {BrFact("made"), BrFact("digested")})
                  \cup (IF BrFact("digested") \in D THEN {BrFact("good")} ELSE {})
             U == D \cup {BrFact("signed"), BrFact("shafile")}
             sha == <<"sha", F(BrBct), BrBct>>
             put == <<"putsha", F(BrBct), BrBct>>
  <2>1. Y \subseteq V
    <3>1. Y = Unwritten(X, "br_bct") \cup (X \cap Br({"goodA"})) \cup KeepBct
              \cup (IF <<"kept", "pt">> \in X THEN {BrFact("good")} ELSE {})
      BY BrNames DEF AfterBrBct, If
    <3>2. BrFact("made") \notin Unwritten(X, "br_bct") /\ BrFact("digested") \notin Unwritten(X, "br_bct")
      BY OfIs DEF Unwritten, BrFact
    <3>3. BrFact("made") \notin Br({"goodA"}) \cup KeepBct /\ BrFact("digested") \notin Br({"goodA"}) \cup KeepBct
      BY DEF Br, BrFact, KeepBct
    <3> HIDE DEF Y
    <3>4. Unwritten(X, "br_bct") \cup (X \cap Br({"goodA"})) \cup KeepBct \subseteq V
      BY <3>2, <3>3
    <3>5. <<"kept", "pt">> \in X => BrFact("good") \in V
      OBVIOUS
    <3> QED
      BY <3>1, <3>4, <3>5
  <2> HIDE DEF D, Y
  <2>2. /\ Takes(w, <<"sign", F(BrBct), BrBct>>, D, D \cup {BrFact("sigfile")})
        /\ Takes(w, <<"attach", F(BrBct), BrBct>>, D \cup {BrFact("sigfile")}, D \cup {BrFact("signed")})
        /\ Takes(w, sha, D \cup {BrFact("signed")}, U) /\ Takes(w, put, U, V)
    BY <1>3, BrSigns
  <2> HIDE DEF U, V
  <2>5. Leads(w, last, D, V)
    BY <2>2, LeadsFour
  <2> QED
    BY <2>1, <2>5, LeadsFrom
<1> HIDE DEF Z, D, Y, make, custinfo, digest, nct, tool, first, last
<1>11. Leads(w, make \o custinfo \o digest \o nct, X, D)
  BY <1>2, <1>5, <1>6, <1>7, LeadsJoin
<1>12. Leads(w, make \o custinfo \o digest \o nct \o tool \o first \o last, X, Y)
  BY <1>8, <1>9, <1>10, <1>11, LeadsJoin
<1> QED
  BY <1>1, <1>12 DEF Y

-----------------------------------------------------------------------------
(* The tables of the boot chains.                                          *)

ChainA == <<"kept", "chain_A">>
GoodIf(c, k) == IF c THEN {BrFact(k)} ELSE {}

LEMMA ChainNames ==
  /\ IsName(ABr) /\ IsName(BBr) /\ IsName(BrBct) /\ ABr # BBr /\ ABr # BrBct /\ BBr # BrBct
  /\ ABr[1] = "br_bct" /\ BBr[1] = "br_bct" /\ BrBct[1] = "br_bct"
  /\ T23!ChainFile("A") = ABr /\ T23!ChainFile("B") = BBr
  /\ T23!ChainKey("A") = "chain_A" /\ T23!ChainKey("B") = "chain_B"
<1>1. IsName(<<"br_bct", "a_BR">>) /\ IsName(<<"br_bct", "b_BR">>) /\ IsName(<<"br_bct", "BR">>)
  BY IsSeqShort DEF IsName
<1> QED
  BY <1>1 DEF ABr, BBr, BrBct, T23!ChainFile, T23!BrBct, T23!ChainKey

LEMMA ChainFacts ==
  /\ ChainA \in Facts /\ KeepBct \subseteq Facts /\ Base \subseteq Facts /\ <<"list", "made">> \in Facts
  /\ <<"list", "signed">> \in Facts /\ Mb1Bct \subseteq Facts /\ MemBct \subseteq Facts
  /\ \A c : GoodIf(c, "good") \subseteq Facts /\ GoodIf(c, "goodA") \subseteq Facts
  BY DEF ChainA, KeepBct, Base, Mb1Bct, MemBct, GoodIf, BrFact, Facts, KeptNames, BrKinds, Signers

LEMMA TakesRename ==
  ASSUME NEW w, NEW X, X \subseteq Facts, NEW k \in {"bct", "chain_A"}, NEW f \in {BrBct, ABr, BBr},
         <<"kept", k>> \in X, NEW Y, Y \subseteq Facts, Y \subseteq AfterRename(k, f, X)
  PROVE  Takes(w, <<"rename", k, f>>, X, Y)
<1>1. Legal(w, <<"rename", k, f>>)
  BY DEF Legal
<1>2. Need(w, <<"rename", k, f>>) = {<<"kept", k>>}
  BY NeedIs
<1>3. After(w, <<"rename", k, f>>, X) = AfterRename(k, f, X)
  BY DEF After
<1> QED
  BY <1>1, <1>2, <1>3 DEF Takes

\* A chain's file, and its key.
LEMMA ChainKept ==
  ASSUME NEW w, NEW X, X \subseteq Facts
  PROVE  /\ Takes(w, <<"keep", "chain_A", ABr>>, X, X \cup {ChainA})
         /\ Takes(w, <<"keep", "chain_A", BrBct>>, X, X \ {ChainA})
         /\ Takes(w, <<"keep", "chain_B", BBr>>, X, X)
<1>1. {"chain_A", "chain_B"} \subseteq Keepers \ {"pt", "unheard", "ramcode"}
  BY DEF Keepers
<1>2. "chain_A" \in KeptNames /\ "chain_B" \notin KeptNames /\ ABr = Expected(w, "chain_A")
  BY DEF KeptNames, Expected
<1> QED
  BY <1>1, <1>2, ChainNames, TakesKeep DEF ChainA

LEMMA OneChainFills ==
  ASSUME NEW w, NEW W, W \subseteq Base \cup {<<"list", "made">>, ChainA}
  PROVE  /\ Leads(w, T23!OneChain("A", TRUE, FALSE), W, W \cup {ChainA})
         /\ Leads(w, T23!OneChain("B", TRUE, FALSE), W, W)
<1>1. W \subseteq Facts /\ W \cup KeepBct \subseteq Facts
  BY ChainFacts
<1>2. ASSUME NEW c \in {"A", "B"}
      PROVE Takes(w, <<"call", "fill_mb1_storage_info", c>>, W, W \cup KeepBct)
  <2>1. LegalCall("fill_mb1_storage_info", c)
    BY DEF LegalCall, Methods
  <2>2. Need(w, <<"call", "fill_mb1_storage_info", c>>) = {}
    BY NeedIs DEF Need
  <2>3. W \cup KeepBct \subseteq AfterCall(w, "fill_mb1_storage_info", c, W)
    BY DEF AfterCall, Neutral, Layouting, ChainA
  <2> QED
    BY <1>1, <2>1, <2>2, <2>3, TakesCall
<1>3. ASSUME NEW f \in {ABr, BBr}
      PROVE  Takes(w, <<"rename", "bct", f>>, W \cup KeepBct, W)
  <2>1. \A x \in W : "br_bct" \notin Of(x)
    BY OfIs DEF Base, ChainA
  <2>2. W \subseteq AfterRename("bct", f, W \cup KeepBct)
    BY <2>1 DEF AfterRename, Unwritten
  <2>3. <<"kept", "bct">> \in W \cup KeepBct
    BY DEF KeepBct
  <2> QED
    BY <1>1, <2>2, <2>3, TakesRename
<1>4. T23!OneChain("A", TRUE, FALSE) =
          <<<<"call", "fill_mb1_storage_info", "A">>>> \o <<>> \o <<<<"rename", "bct", ABr>>, <<"keep", "chain_A", ABr>>>>
  BY ChainNames DEF T23!OneChain, T23!When, T23!CallWith
<1>5. T23!OneChain("B", TRUE, FALSE) =
          <<<<"call", "fill_mb1_storage_info", "B">>>> \o <<>> \o <<<<"rename", "bct", BBr>>, <<"keep", "chain_B", BBr>>>>
  BY ChainNames DEF T23!OneChain, T23!When, T23!CallWith
<1>6. Takes(w, <<"keep", "chain_A", ABr>>, W, W \cup {ChainA}) /\ Takes(w, <<"keep", "chain_B", BBr>>, W, W)
  BY <1>1, ChainKept
<1>7. Leads(w, <<<<"rename", "bct", ABr>>, <<"keep", "chain_A", ABr>>>>, W \cup KeepBct, W \cup {ChainA})
  BY <1>3, <1>6, LeadsTwo
<1>8. Leads(w, <<<<"rename", "bct", BBr>>, <<"keep", "chain_B", BBr>>>>, W \cup KeepBct, W)
  BY <1>3, <1>6, LeadsTwo
<1>9. Leads(w, <<>>, W \cup KeepBct, W \cup KeepBct)
  BY <1>1, LeadsNone
<1>10. /\ Leads(w, <<<<"call", "fill_mb1_storage_info", "A">>>>, W, W \cup KeepBct)
       /\ Leads(w, <<<<"call", "fill_mb1_storage_info", "B">>>>, W, W \cup KeepBct)
  BY <1>2, LeadsOne
<1>11. PICK e : e = <<>>
  OBVIOUS
<1> QED
  <2>1. /\ Leads(w, <<<<"call", "fill_mb1_storage_info", "A">>>> \o e, W, W \cup KeepBct)
        /\ Leads(w, <<<<"call", "fill_mb1_storage_info", "B">>>> \o e, W, W \cup KeepBct)
    BY <1>9, <1>10, <1>11, LeadsJoin
  <2>2. Leads(w, T23!OneChain("A", TRUE, FALSE), W, W \cup {ChainA})
    <3>1. Leads(w, <<<<"call", "fill_mb1_storage_info", "A">>>> \o e \o <<<<"rename", "bct", ABr>>, <<"keep", "chain_A", ABr>>>>,
                W, W \cup {ChainA})
      BY <1>7, <2>1, LeadsJoin
    <3> QED
      BY <1>4, <1>11, <3>1
  <2>3. Leads(w, T23!OneChain("B", TRUE, FALSE), W, W)
    BY <1>5, <1>8, <1>11, <2>1, LeadsJoin
  <2> QED
    BY <2>2, <2>3

\* What is known of the BR-BCTs when that of chain A has its own name.
InChains(X) ==
    (Unwritten(X, "br_bct") \cup KeepBct \cup GoodIf(<<"kept", "pt">> \in X, "goodA")) \cup {ChainA}

LEMMA TakesBrBctCall ==
  ASSUME NEW w, NEW X, X \subseteq Facts, NEW c \in {"A", "B"}
  PROVE  Takes(w, <<"call", "generate_br_bct", c>>, X, AfterBrBct(X)) /\ KeepBct \subseteq AfterBrBct(X)
<1>1. LegalCall("generate_br_bct", c)
  BY DEF LegalCall, Methods
<1>2. Need(w, <<"call", "generate_br_bct", c>>) = {}
  BY NeedIs DEF Need
<1>3. AfterBrBct(X) = AfterCall(w, "generate_br_bct", c, X)
  BY DEF AfterCall, Neutral, Layouting
<1>4. AfterBrBct(X) \subseteq Facts
  <2>1. Br({"good"}) \subseteq Facts
    BY DEF Br, Facts, BrKinds
  <2> QED
    BY <2>1, ChainFacts DEF AfterBrBct, If, Unwritten
<1> QED
  BY <1>1, <1>2, <1>3, <1>4, TakesCall DEF AfterBrBct

LEMMA OneChainGenerates ==
  ASSUME NEW w, NEW X, X \subseteq Facts
  PROVE  /\ Leads(w, T23!OneChain("A", FALSE, TRUE), X, InChains(X))
         /\ Leads(w, T23!OneChain("B", FALSE, TRUE), InChains(X), InChains(X))
<1> DEFINE Y == Unwritten(X, "br_bct") \cup KeepBct \cup GoodIf(<<"kept", "pt">> \in X, "goodA")
           Z == InChains(X)
<1>1. Y \subseteq Facts /\ Z \subseteq Facts /\ Z = Y \cup {ChainA}
  BY ChainFacts DEF Unwritten, InChains
<1>2. /\ T23!OneChain("A", FALSE, TRUE) =
             <<>> \o <<<<"call", "generate_br_bct", "A">>>> \o <<<<"rename", "bct", ABr>>, <<"keep", "chain_A", ABr>>>>
      /\ T23!OneChain("B", FALSE, TRUE) =
             <<>> \o <<<<"call", "generate_br_bct", "B">>>> \o <<<<"rename", "bct", BBr>>, <<"keep", "chain_B", BBr>>>>
  BY ChainNames DEF T23!OneChain, T23!When, T23!CallWith
<1>3. /\ Takes(w, <<"call", "generate_br_bct", "A">>, X, AfterBrBct(X)) /\ <<"kept", "bct">> \in AfterBrBct(X)
      /\ Takes(w, <<"call", "generate_br_bct", "B">>, Z, AfterBrBct(Z)) /\ <<"kept", "bct">> \in AfterBrBct(Z)
      /\ AfterBrBct(X) \subseteq Facts /\ AfterBrBct(Z) \subseteq Facts
  <2> HIDE DEF Z
  <2> QED
    BY <1>1, TakesBrBctCall DEF KeepBct, Takes
<1>4. Takes(w, <<"rename", "bct", ABr>>, AfterBrBct(X), Y)
  <2>1. Unwritten(X, "br_bct") \cup KeepBct \subseteq Unwritten(AfterBrBct(X), "br_bct")
    BY OfIs DEF AfterBrBct, Unwritten, KeepBct
  <2>2. <<"kept", "pt">> \in X => <<"br", "good">> \in AfterBrBct(X)
    BY DEF AfterBrBct, If, Br
  <2>3. Y \subseteq AfterRename("bct", ABr, AfterBrBct(X))
    BY <2>1, <2>2 DEF AfterRename, If, GoodIf, Br, BrFact
  <2> QED
    BY <1>1, <1>3, <2>3, TakesRename
<1>5. Takes(w, <<"rename", "bct", BBr>>, AfterBrBct(Z), Z)
  <2>1. Unwritten(X, "br_bct") \cup KeepBct \cup {ChainA} \subseteq Unwritten(Z, "br_bct")
    BY OfIs DEF Unwritten, KeepBct, InChains, ChainA
  <2>2. Unwritten(Z, "br_bct") \subseteq Unwritten(AfterBrBct(Z), "br_bct")
    BY DEF AfterBrBct, Unwritten
  <2>3. GoodIf(<<"kept", "pt">> \in X, "goodA") \subseteq AfterBrBct(Z) \cap Br({"goodA"})
    BY DEF AfterBrBct, GoodIf, Br, BrFact, InChains
  <2> HIDE DEF Y
  <2>4. AfterRename("bct", BBr, AfterBrBct(Z)) =
            Unwritten(AfterBrBct(Z), "br_bct") \cup (AfterBrBct(Z) \cap Br({"goodA"}))
    BY ChainNames DEF AfterRename, If
  <2>5. Z \subseteq AfterRename("bct", BBr, AfterBrBct(Z))
    <3>1. Z = Unwritten(X, "br_bct") \cup KeepBct \cup {ChainA} \cup GoodIf(<<"kept", "pt">> \in X, "goodA")
      BY DEF InChains
    <3> HIDE DEF Z
    <3> QED
      BY <2>1, <2>2, <2>3, <2>4, <3>1
  <2> HIDE DEF Z
  <2> QED
    BY <1>1, <1>3, <2>5, TakesRename
<1>6. Takes(w, <<"keep", "chain_A", ABr>>, Y, Z) /\ Takes(w, <<"keep", "chain_B", BBr>>, Z, Z)
  <2> HIDE DEF Y, Z
  <2> QED
    BY <1>1, ChainKept
<1>7. PICK e : e = <<>>
  OBVIOUS
<1> HIDE DEF Y, Z
<1>8. Leads(w, e, X, X) /\ Leads(w, e, Z, Z)
  BY <1>1, <1>7, LeadsNone
<1>9. /\ Leads(w, <<<<"call", "generate_br_bct", "A">>>>, X, AfterBrBct(X))
      /\ Leads(w, <<<<"call", "generate_br_bct", "B">>>>, Z, AfterBrBct(Z))
  BY <1>3, LeadsOne
<1>10. /\ Leads(w, e \o <<<<"call", "generate_br_bct", "A">>>>, X, AfterBrBct(X))
       /\ Leads(w, e \o <<<<"call", "generate_br_bct", "B">>>>, Z, AfterBrBct(Z))
  BY <1>8, <1>9, LeadsJoin
<1>11. /\ Leads(w, <<<<"rename", "bct", ABr>>, <<"keep", "chain_A", ABr>>>>, AfterBrBct(X), Z)
       /\ Leads(w, <<<<"rename", "bct", BBr>>, <<"keep", "chain_B", BBr>>>>, AfterBrBct(Z), Z)
  BY <1>4, <1>5, <1>6, LeadsTwo
<1>12. Leads(w, T23!OneChain("A", FALSE, TRUE), X, Z) /\ Leads(w, T23!OneChain("B", FALSE, TRUE), Z, Z)
  BY <1>2, <1>7, <1>10, <1>11, LeadsJoin
<1> QED
  BY <1>12 DEF Z

\* The last steps: the table of chain A gets back its name, and the backup.
LEMMA BackupLeads ==
  ASSUME NEW w, NEW X, X \subseteq Facts, NEW c
  PROVE  Leads(w, T23!When(c, T23!GenerateBctBackupImage), X, X)
<1> DEFINE rs == IF opt.chains = 1 THEN <<T23!K("chain_A")>> ELSE <<T23!K("chain_A"), T23!K("chain_B")>>
<1>1. T23!GenerateBctBackupImage = <<<<"tool">>, <<"join", rs, <<"bct_backup">>>>, <<"keep", "backup", <<"bct_backup">>>>>>
  BY DEF T23!GenerateBctBackupImage
<1> HIDE DEF rs
<1>2. Takes(w, <<"join", rs, <<"bct_backup">>>>, X, X)
  <2>1. Legal(w, <<"join", rs, <<"bct_backup">>>>)
    BY DEF Legal
  <2>2. Need(w, <<"join", rs, <<"bct_backup">>>>) = {}
    BY NeedIs
  <2>3. After(w, <<"join", rs, <<"bct_backup">>>>, X) = X
    BY DEF After
  <2> QED
    BY <2>1, <2>2, <2>3 DEF Takes
<1>3. Takes(w, <<"keep", "backup", <<"bct_backup">>>>, X, X)
  <2>1. "backup" \in Keepers \ {"pt", "unheard", "ramcode"} /\ "backup" \notin KeptNames
    BY DEF Keepers, KeptNames
  <2>2. IsName(<<"bct_backup">>)
    BY IsSeqShort DEF IsName
  <2> QED
    BY <2>1, <2>2, TakesKeep
<1>4. Takes(w, <<"tool">>, X, X)
  BY TakesTool
<1>5. Leads(w, T23!GenerateBctBackupImage, X, X)
  BY <1>1, <1>2, <1>3, <1>4, LeadsThree
<1> QED
  BY <1>5, LeadsWhen

LEMMA MultiChainFills ==
  ASSUME NEW w, NEW X, X \subseteq Facts
  PROVE  Leads(w, T23!GenerateBrBctMultiChain(TRUE, FALSE), X, X \cap (Base \cup {<<"list", "made">>}))
<1> DEFINE W == X \cap (Base \cup {<<"list", "made">>})
           U == W \cup {ChainA}
           two == T23!When(opt.chains = 2, T23!OneChain("B", TRUE, FALSE))
           last == <<<<"rename", "chain_A", BrBct>>, <<"keep", "chain_A", BrBct>>>>
           backup == T23!When(opt.backup, T23!GenerateBctBackupImage)
<1>1. T23!GenerateBrBctMultiChain(TRUE, FALSE) = T23!OneChain("A", TRUE, FALSE) \o two \o last \o backup
  BY DEF T23!GenerateBrBctMultiChain, BrBct
<1>2. W \subseteq X /\ U \subseteq Facts /\ W \subseteq Facts /\ ChainA \notin W
  BY ChainFacts DEF Base, ChainA
<1>3. Leads(w, T23!OneChain("A", TRUE, FALSE), W, U) /\ Leads(w, T23!OneChain("B", TRUE, FALSE), U, U)
  BY OneChainFills
<1>4. Takes(w, <<"rename", "chain_A", BrBct>>, U, U)
  <2>1. \A x \in U : "br_bct" \notin Of(x)
    BY OfIs DEF Base, ChainA
  <2>2. U \subseteq AfterRename("chain_A", BrBct, U)
    BY <2>1 DEF AfterRename, Unwritten
  <2> HIDE DEF W
  <2> QED
    BY <1>2, <2>2, TakesRename DEF ChainA
<1>5. Takes(w, <<"keep", "chain_A", BrBct>>, U, W)
  <2>1. Takes(w, <<"keep", "chain_A", BrBct>>, U, U \ {ChainA})
    BY <1>2, ChainKept
  <2>2. W = U \ {ChainA}
    BY <1>2
  <2> QED
    BY <2>1, <2>2
<1> HIDE DEF W, U
<1>6. Leads(w, two, U, U)
  BY <1>2, <1>3, LeadsWhen
<1>7. Leads(w, last, U, W)
  BY <1>4, <1>5, LeadsTwo
<1>8. Leads(w, backup, W, W)
  BY <1>2, BackupLeads
<1>9. Leads(w, T23!OneChain("A", TRUE, FALSE), X, U)
  BY <1>2, <1>3, LeadsFrom
<1> HIDE DEF two, last, backup
<1>10. Leads(w, T23!GenerateBrBctMultiChain(TRUE, FALSE), X, W)
  BY <1>1, <1>6, <1>7, <1>8, <1>9, LeadsJoin
<1> QED
  BY <1>10 DEF W

LEMMA MultiChainGenerates ==
  ASSUME NEW w, NEW X, X \subseteq Facts
  PROVE  Leads(w, T23!GenerateBrBctMultiChain(FALSE, TRUE), X, AfterMultiChain(FALSE, X))
<1> DEFINE Y == AfterMultiChain(FALSE, X)
           U == InChains(X)
           V == (Unwritten(X, "br_bct") \cup KeepBct \cup GoodIf(<<"kept", "pt">> \in X, "good")) \cup {ChainA}
           two == T23!When(opt.chains = 2, T23!OneChain("B", FALSE, TRUE))
           last == <<<<"rename", "chain_A", BrBct>>, <<"keep", "chain_A", BrBct>>>>
           backup == T23!When(opt.backup, T23!GenerateBctBackupImage)
<1>1. T23!GenerateBrBctMultiChain(FALSE, TRUE) = T23!OneChain("A", FALSE, TRUE) \o two \o last \o backup
  BY DEF T23!GenerateBrBctMultiChain, BrBct
<1>2. U \subseteq Facts /\ V \subseteq Facts /\ ChainA \in U
  BY ChainFacts DEF InChains, Unwritten
<1>3. Leads(w, T23!OneChain("A", FALSE, TRUE), X, U) /\ Leads(w, T23!OneChain("B", FALSE, TRUE), U, U)
  BY OneChainGenerates
<1>4. Takes(w, <<"rename", "chain_A", BrBct>>, U, V)
  <2>1. Unwritten(X, "br_bct") \cup KeepBct \cup {ChainA} \subseteq Unwritten(U, "br_bct")
    BY OfIs DEF Unwritten, KeepBct, InChains, ChainA
  <2>2. <<"kept", "pt">> \in X => <<"br", "goodA">> \in U
    BY DEF InChains, GoodIf, BrFact
  <2>3. V \subseteq AfterRename("chain_A", BrBct, U)
    <3> HIDE DEF U
    <3> QED
      BY <2>1, <2>2 DEF AfterRename, If, GoodIf, Br, BrFact
  <2> HIDE DEF U, V
  <2> QED
    BY <1>2, <2>3, TakesRename DEF ChainA
<1>5. Takes(w, <<"keep", "chain_A", BrBct>>, V, Y)
  <2>1. Takes(w, <<"keep", "chain_A", BrBct>>, V, V \ {ChainA})
    BY <1>2, ChainKept
  <2>2. Y \subseteq V \ {ChainA}
    <3>1. ChainA \notin KeepBct /\ Br({"good"}) = {BrFact("good")} /\ ChainA \notin Br({"good"})
      BY DEF ChainA, KeepBct, Br, BrFact
    <3>2. Y = Unwritten(X \ {ChainA}, "br_bct") \cup KeepBct \cup (IF <<"kept", "pt">> \in X THEN Br({"good"}) ELSE {})
      BY DEF AfterMultiChain, ChainA, If
    <3>3. Unwritten(X \ {ChainA}, "br_bct") \subseteq Unwritten(X, "br_bct") \ {ChainA}
      BY DEF Unwritten
    <3> HIDE DEF Y
    <3> QED
      BY <3>1, <3>2, <3>3 DEF GoodIf
  <2> HIDE DEF V, Y
  <2> QED
    BY <2>1, <2>2, TakesFrom
<1>6. Leads(w, two, U, U)
  <2> HIDE DEF U
  <2> QED
    BY <1>2, <1>3, LeadsWhen
<1> HIDE DEF Y, U, V
<1>7. Leads(w, last, U, Y)
  BY <1>4, <1>5, LeadsTwo
<1>8. Y \subseteq Facts
  BY <1>5 DEF Takes
<1>9. Leads(w, backup, Y, Y)
  BY <1>8, BackupLeads
<1> HIDE DEF two, last, backup
<1>10. Leads(w, T23!GenerateBrBctMultiChain(FALSE, TRUE), X, Y)
  BY <1>1, <1>3, <1>6, <1>7, <1>9, LeadsJoin
<1> QED
  BY <1>10 DEF Y

-----------------------------------------------------------------------------
(* The tables of MB1 and the memory, and what sends the first images.      *)

LEMMA OemSignedNames ==
  ASSUME NEW f, NEW h, Named(f, h)
  PROVE  Named(T23!OemSigned(f), h) /\ Named(T23!SignedOem(f), h)
<1>1. ASSUME NEW g, Named(g, h) PROVE Named(T23!OemSigned(g), h)
  <2> DEFINE t == <<"sigheader", "signed">>
  <2>1. IsSeq(t)
    BY IsSeqShort
  <2> HIDE DEF t
  <2>2. IsSeq(g) /\ g # <<>> /\ g[1] = h
    BY <1>1 DEF Named, IsName
  <2>3. IsSeq(g \o t) /\ g \o t # <<>> /\ (g \o t)[1] = g[1]
    BY <2>1, <2>2, IsSeqJoin
  <2>4. Named(g \o t, h)
    BY <2>2, <2>3 DEF Named, IsName
  <2> QED
    BY <2>4 DEF T23!OemSigned, t
<1>2. Named(f \o <<"encrypt">>, h)
  BY Appended
<1>3. Named(T23!OemSigned(f), h) /\ Named(T23!OemSigned(f \o <<"encrypt">>), h)
  BY <1>1, <1>2
<1> QED
  BY <1>3 DEF T23!SignedOem

LEMMA ShortNames ==
  ASSUME NEW a, NEW b, a # "unsigned", b # "unsigned"
  PROVE  /\ Named(<<a>>, a) /\ IsName(<<a>>) /\ <<a>>[1] = a /\ Signable(<<a>>) /\ <<a>> # <<>>
         /\ Named(<<a, b>>, a) /\ IsName(<<a, b>>) /\ <<a, b>>[1] = a /\ Signable(<<a, b>>) /\ <<a, b>> # <<>>
<1>1. /\ IsSeq(<<a>>) /\ <<a>> # <<>> /\ <<a>>[1] = a
      /\ IsSeq(<<a, b>>) /\ <<a, b>> # <<>> /\ <<a, b>>[1] = a
  BY IsSeqShort
<1>2. (\A i \in DOMAIN <<a>> : <<a>>[i] # "unsigned") /\ \A i \in DOMAIN <<a, b>> : <<a, b>>[i] # "unsigned"
  OBVIOUS
<1> QED
  BY <1>1, <1>2 DEF Named, IsName, Signable

LEMMA GenerateMb1BctLeads ==
  ASSUME NEW w, w.encrypt = opt.encrypt, NEW X, X \subseteq Facts, NEW cold \in BOOLEAN
  PROVE  Leads(w, T23!GenerateMb1Bct(cold), X, IF cold THEN X ELSE AfterMb1Bct(X))
<1> DEFINE h == IF cold THEN "mb1_cold_boot_bct" ELSE "mb1_bct"
           f == <<h, "MB1">>
           g == T23!SignedOem(f)
           R == Rest(X, f) \ {<<"kept", h>>}
           N == {x \in {"signed"} \X Oems : f = Given(x[2])}
           Y == IF cold THEN X ELSE AfterMb1Bct(X)
           make == <<<<"make", f, <<"mb1_bct">>>>, <<"keep", h, f>>>>
           fwinfo == T23!When(kept.pt # None, <<<<"edit", F(f), "fwinfo">>>>)
           ratchet == T23!When(opt.ratchet, <<<<"edit", F(f), "ratchet">>>>)
           last == <<<<"keep", h, g>>>>
<1>1. T23!GenerateMb1Bct(cold) = make \o fwinfo \o ratchet \o T23!SignOem(f, "MBCT") \o last
  BY DEF T23!GenerateMb1Bct, T23!F, F, T23!None, None
<1>2. Named(f, h) /\ IsName(f) /\ f[1] = h /\ f[1] # "aligned"
  BY ShortNames DEF Named
<1>3. Named(g, h) /\ IsName(g)
  BY <1>2, OemSignedNames DEF Named
<1>4. h \in Keepers \ {"pt", "unheard", "ramcode"} /\ (h \in KeptNames <=> ~cold)
  BY DEF Keepers, KeptNames
<1>5. ~cold => N = {<<"signed", "mb1_bct">>} /\ g = ResultOf(w, "mb1_bct")
  <2> SUFFICES ASSUME ~cold PROVE N = {<<"signed", "mb1_bct">>} /\ g = ResultOf(w, "mb1_bct")
    OBVIOUS
  <2>1. f = Given("mb1_bct") /\ f # Given("mem_rcm") /\ f # Given("applet")
    BY DEF Given
  <2>2. "mb1_bct" \in Oems
    BY DEF Oems
  <2>3. g = ResultOf(w, "mb1_bct")
    BY <2>1, <2>2, SignedOemIs
  <2>4. N = {<<"signed", "mb1_bct">>}
    BY <2>1 DEF Oems
  <2> QED
    BY <2>3, <2>4
<1>6. R \subseteq Facts /\ Rest(R, f) = R /\ N \subseteq Facts
  <2>1. R \subseteq Facts /\ Rest(R, f) = R
    BY RestFacts DEF Rest, Unwritten
  <2>2. N \subseteq Facts
    BY DEF Facts, Oems, Signers
  <2> QED
    BY <2>1, <2>2
<1>7. Y \subseteq R \cup N \cup (IF cold THEN {} ELSE {<<"kept", "mb1_bct">>})
  <2>1. CASE cold
    <3>1. Rest(X, f) = X
      BY <1>2, <2>1, OfWhat DEF Rest, Plain, Signers
    <3>2. <<"kept", h>> \notin X
      BY <1>4, <2>1 DEF Facts
    <3> QED
      BY <2>1, <3>1, <3>2
  <2>2. CASE ~cold
    <3>1. Unwritten(X \ {<<"kept", "mb1_bct">>}, "mb1_bct") \subseteq R
      BY <1>2, <2>2 DEF Unwritten, Rest
    <3>2. Y = Unwritten(X \ {<<"kept", "mb1_bct">>}, "mb1_bct") \cup Mb1Bct
      BY <2>2 DEF AfterMb1Bct
    <3> HIDE DEF Y, R, N
    <3> QED
      BY <1>5, <2>2, <3>1, <3>2 DEF Mb1Bct
  <2> QED
    BY <2>1, <2>2
<1> HIDE DEF g
<1>8. Leads(w, make, X, R)
  <2>1. Takes(w, <<"make", f, <<"mb1_bct">>>>, X, Rest(X, f))
    BY <1>2, ShortNames, TakesMake
  <2>2. Takes(w, <<"keep", h, f>>, Rest(X, f), R)
    BY <1>2, <1>4, RestFacts, TakesKeep
  <2> HIDE DEF R, f, h
  <2> QED
    BY <2>1, <2>2, LeadsTwo
<1>9. Takes(w, <<"edit", F(f), "fwinfo">>, R, R) /\ Takes(w, <<"edit", F(f), "ratchet">>, R, R)
  <2> HIDE DEF R, h
  <2> QED
    BY <1>2, <1>6, TakesEdit
<1>10. Leads(w, fwinfo, R, R) /\ Leads(w, ratchet, R, R)
  <2> HIDE DEF R
  <2> QED
    BY <1>6, <1>9, LeadsOne, LeadsWhen
<1>11. Leads(w, T23!SignOem(f, "MBCT"), R, R \cup N)
  <2>1. Leads(w, T23!SignOem(f, "MBCT"), R, Rest(R, f) \cup N)
    <3> HIDE DEF R
    <3> QED
      BY <1>2, <1>6, SignOemLeads
  <2> QED
    BY <1>6, <2>1
<1>12. Takes(w, <<"keep", h, g>>, R \cup N, Y)
  <2> DEFINE Z == R \cup N
  <2>1. Z \subseteq Facts
    BY <1>6
  <2>2. CASE cold
    <3>1. Takes(w, <<"keep", h, g>>, Z, Z)
      <4> HIDE DEF Z, h
      <4> QED
        BY <1>3, <1>4, <2>1, <2>2, TakesKeep
    <3> HIDE DEF Y, R, N
    <3> QED
      BY <1>7, <2>2, <3>1, TakesFrom
  <2>3. CASE ~cold
    <3>1. g = Expected(w, h)
      BY <1>5, <2>3 DEF Expected
    <3>2. Takes(w, <<"keep", h, g>>, Z, Z \cup {<<"kept", h>>})
      <4> HIDE DEF Z, h
      <4> QED
        BY <1>3, <1>4, <2>1, <2>3, <3>1, TakesKeep
    <3>3. Y \subseteq Z \cup {<<"kept", h>>}
      BY <1>7, <2>3
    <3> HIDE DEF Y, R, N, Z
    <3>4. Takes(w, <<"keep", h, g>>, Z, Y)
      BY <3>2, <3>3, TakesFrom
    <3> QED
      BY <3>4 DEF Z
  <2> QED
    BY <2>2, <2>3
<1> HIDE DEF h, f, R, N, Y, make, fwinfo, ratchet
<1>13. Leads(w, last, R \cup N, Y)
  BY <1>12, LeadsOne
<1> HIDE DEF last
<1>14. Leads(w, T23!GenerateMb1Bct(cold), X, Y)
  BY <1>1, <1>8, <1>10, <1>11, <1>13, LeadsJoin
<1> QED
  BY <1>14 DEF Y

LEMMA GenerateMemBctLeads ==
  ASSUME NEW w, w.encrypt = opt.encrypt, w.asks = asks, NEW X, X \subseteq Facts, NEW cold \in BOOLEAN,
         T23!Ramcode # "unsigned"
  PROVE  Leads(w, T23!GenerateMemBct(cold), X, IF cold THEN X ELSE AfterMemBct(w, X))
<1>0. T23!asks <=> asks
  BY DEF T23!asks, asks
<1>1. CASE asks
  <2>1. T23!GenerateMemBct(cold) = <<>>
    BY <1>0, <1>1 DEF T23!GenerateMemBct
  <2>2. (IF cold THEN X ELSE AfterMemBct(w, X)) = X
    BY <1>1 DEF AfterMemBct
  <2> QED
    BY <2>1, <2>2, LeadsNone
<1>2. CASE ~asks /\ cold
  <2> DEFINE f == <<"mem_coldboot">>
  <2>1. T23!GenerateMemBct(cold) =
            <<<<"tool">>, <<"make", f, <<"mem">>>>>>
            \o <<<<"call", "oem_sign_file", <<f, "MEMB">>>>, <<"keep", "membct_cold_boot", T23!OemSigned(f)>>>>
    BY <1>0, <1>2 DEF T23!GenerateMemBct, T23!CallWith
  <2>2. Named(f, "mem_coldboot") /\ IsName(f) /\ f[1] = "mem_coldboot"
    BY ShortNames
  <2>3. IsName(T23!OemSigned(f))
    BY <2>2, OemSignedNames DEF Named
  <2>4. Rest(X, f) = X
    BY <2>2, OfWhat DEF Rest, Plain, Signers
  <2>5. Takes(w, <<"tool">>, X, X)
    BY TakesTool
  <2> HIDE DEF f
  <2>6. Takes(w, <<"make", f, <<"mem">>>>, X, X)
    <3>1. Signable(<<"mem">>) /\ <<"mem">> # <<>>
      BY ShortNames
    <3> QED
      BY <2>2, <2>4, <3>1, TakesMake
  <2>7. Takes(w, <<"call", "oem_sign_file", <<f, "MEMB">>>>, X, X)
    BY <2>2, <2>4, TakesSigningCall
  <2>8. Takes(w, <<"keep", "membct_cold_boot", T23!OemSigned(f)>>, X, X)
    <3>1. "membct_cold_boot" \in Keepers \ {"pt", "unheard", "ramcode"} /\ "membct_cold_boot" \notin KeptNames
      BY DEF Keepers, KeptNames
    <3> QED
      BY <2>3, <3>1, TakesKeep
  <2>9. Leads(w, T23!GenerateMemBct(cold), X, X)
    BY <2>1, <2>5, <2>6, <2>7, <2>8, LeadsTwo, LeadsJoin
  <2> QED
    BY <1>2, <2>9
<1>3. CASE ~asks /\ ~cold
  <2> DEFINE f == <<"mem_rcm">>
             b == <<"bpmp_dtb">>
             g == T23!SignedOem(f)
             c == T23!Ramcode
             B == Unwritten(X \ {<<"kept", "membct_rcm">>}, "bpmp_dtb")
             R == Rest(B, f)
             Y == AfterMemBct(w, X)
             trim == T23!When(opt.trim, <<<<"tool">>, <<"edit", F(b), c>>>>)
             make == <<<<"make", f, <<"mem", c>>>>>>
             last == <<<<"keep", "membct_rcm", g>>>>
             n == <<"signed", "mem_rcm">>
  <2>1. T23!GenerateMemBct(cold) = <<<<"tool">>>> \o trim \o make \o T23!SignOem(f, "MEM") \o last
    BY <1>0, <1>3 DEF T23!GenerateMemBct, T23!BpmpGenerateDtb, T23!F, F, T23!RunTool
  <2>2. Named(f, "mem_rcm") /\ IsName(f) /\ f[1] = "mem_rcm" /\ IsName(b) /\ b[1] = "bpmp_dtb" /\ "mem_rcm" # "aligned"
    BY ShortNames
  <2>3. IsName(g)
    BY <2>2, OemSignedNames DEF Named
  <2>4. f = Given("mem_rcm") /\ g = ResultOf(w, "mem_rcm")
    <3>1. f = Given("mem_rcm") /\ "mem_rcm" \in Oems
      BY DEF Given, Oems
    <3> QED
      BY <3>1, SignedOemIs
  <2>5. Signable(<<"mem", c>>) /\ <<"mem", c>> # <<>>
    <3> HIDE DEF c
    <3>1. c # "unsigned"
      BY DEF c
    <3> QED
      BY <3>1, ShortNames
  <2>6. B \subseteq X /\ B \subseteq Facts /\ R \subseteq Facts /\ Rest(R, f) = R /\ Rest(B, b) = B
    BY <2>2 DEF Rest, Unwritten
  <2>7. n \in {"signed"} \X Oems /\ n[2] = "mem_rcm" /\ n \in Facts
    BY DEF Facts, Oems, Signers
  <2>8. Y \subseteq R \cup {n, <<"kept", "membct_rcm">>}
    <3>1. Y = Unwritten(Unwritten(X \ {<<"kept", "membct_rcm">>}, "mem_rcm"), "bpmp_dtb") \cup {n, <<"kept", "membct_rcm">>}
      BY <1>3 DEF AfterMemBct, MemBct
    <3>2. Unwritten(Unwritten(X \ {<<"kept", "membct_rcm">>}, "mem_rcm"), "bpmp_dtb") \subseteq R
      BY <2>2 DEF Unwritten, Rest
    <3> HIDE DEF Y, R, n
    <3> QED
      BY <3>1, <3>2
  <2>9. Takes(w, <<"tool">>, X, X) /\ Takes(w, <<"tool">>, B, B)
    BY <2>6, TakesTool
  <2>10. Takes(w, <<"edit", F(b), c>>, B, B)
    <3> HIDE DEF B, c, b
    <3>1. c # "unsigned"
      BY DEF c
    <3> QED
      BY <2>2, <2>6, <3>1, TakesEdit
  <2> HIDE DEF c, f
  <2>11. Takes(w, <<"make", f, <<"mem", c>>>>, B, R)
    <3> HIDE DEF B
    <3> QED
      BY <2>2, <2>5, <2>6, TakesMake
  <2>12. Leads(w, T23!SignOem(f, "MEM"), R, R \cup {n})
    <3>1. Leads(w, T23!SignOem(f, "MEM"), R, Rest(R, f) \cup {x \in {"signed"} \X Oems : f = Given(x[2])})
      <4> HIDE DEF R
      <4> QED
        BY <2>2, <2>6, SignOemLeads
    <3>2. R \cup {n} \subseteq Rest(R, f) \cup {x \in {"signed"} \X Oems : f = Given(x[2])}
      <4> HIDE DEF R, n
      <4> QED
        BY <2>4, <2>6, <2>7
    <3> HIDE DEF R, n
    <3> QED
      BY <3>1, <3>2, LeadsFrom
  <2>13. Takes(w, <<"keep", "membct_rcm", g>>, R \cup {n}, Y)
    <3> DEFINE U == R \cup {n}
    <3>1. "membct_rcm" \in Keepers \ {"pt", "unheard", "ramcode"} /\ "membct_rcm" \in KeptNames
      BY DEF Keepers, KeptNames
    <3>2. g = Expected(w, "membct_rcm") /\ U \subseteq Facts
      BY <2>4, <2>6, <2>7 DEF Expected
    <3> HIDE DEF U, g
    <3>3. Takes(w, <<"keep", "membct_rcm", g>>, U, U \cup {<<"kept", "membct_rcm">>})
      BY <2>3, <3>1, <3>2, TakesKeep
    <3>4. Y \subseteq U \cup {<<"kept", "membct_rcm">>}
      <4> HIDE DEF Y, R, n
      <4> QED
        BY <2>8 DEF U
    <3> HIDE DEF Y
    <3>5. Takes(w, <<"keep", "membct_rcm", g>>, U, Y)
      BY <3>3, <3>4, TakesFrom
    <3> QED
      BY <3>5 DEF U
  <2> HIDE DEF B, R, Y, n, g, b
  <2>14. Leads(w, trim, B, B)
    BY <2>6, <2>9, <2>10, LeadsTwo, LeadsWhen
  <2>15. Leads(w, make, B, R) /\ Leads(w, last, R \cup {n}, Y) /\ Leads(w, <<<<"tool">>>>, X, X)
    BY <2>9, <2>11, <2>13, LeadsOne
  <2>16. Leads(w, <<<<"tool">>>>, X, B)
    BY <2>6, <2>15, LeadsFrom
  <2> HIDE DEF trim, make, last
  <2>17. Leads(w, T23!GenerateMemBct(cold), X, Y)
    BY <2>1, <2>12, <2>14, <2>15, <2>16, LeadsJoin
  <2> QED
    BY <1>3, <2>17 DEF Y
<1> QED
  BY <1>1, <1>2, <1>3

-----------------------------------------------------------------------------
(* What sends the first images.                                            *)

LEMMA LeadsSix ==
  ASSUME NEW w, NEW a, NEW b, NEW c, NEW d, NEW e, NEW f,
         NEW X0, NEW X1, NEW X2, NEW X3, NEW X4, NEW X5, NEW X6,
         Takes(w, a, X0, X1), Takes(w, b, X1, X2), Takes(w, c, X2, X3), Takes(w, d, X3, X4),
         Takes(w, e, X4, X5), Takes(w, f, X5, X6)
  PROVE  Leads(w, <<a, b, c, d, e, f>>, X0, X6)
<1> DEFINE s == <<a, b, c, d, e>>
           t == <<a, b, c, d, e, f>>
           Z == {a, b, c, d, e, f}
<1>1. s \in Seq(Z) /\ Len(s) = 5 /\ s[1] = a /\ s[2] = b /\ s[3] = c /\ s[4] = d /\ s[5] = e
  OBVIOUS
<1>2. t \in Seq(Z) /\ Len(t) = 6 /\ t[1] = a /\ t[2] = b /\ t[3] = c /\ t[4] = d /\ t[5] = e /\ t[6] = f
  OBVIOUS
<1>3. f \in Z
  OBVIOUS
<1>4. Leads(w, s, X0, X5)
  <2>1. <<a, b, c, d>> \o <<e>> = s
    BY Join4
  <2>2. Leads(w, <<a, b, c, d>>, X0, X4) /\ Leads(w, <<e>>, X4, X5)
    BY LeadsFour, LeadsOne
  <2> HIDE DEF s
  <2> QED
    BY <2>1, <2>2, LeadsJoin
<1> HIDE DEF s, t, Z
<1>5. (\A i \in 1..Len(s) : t[i] = s[i]) /\ Len(t) = Len(s) + 1 /\ t[Len(t)] = f
  BY <1>1, <1>2
<1>6. s \o <<f>> = t
  BY <1>1, <1>2, <1>3, <1>5, OneMore
<1>7. Leads(w, <<f>>, X5, X6)
  BY LeadsOne
<1>8. Leads(w, t, X0, X6)
  BY <1>4, <1>6, <1>7, LeadsJoin
<1> QED
  BY <1>8 DEF t

LEMMA CallsAre ==
  /\ \A a : T23!Calls(<<a>>) = <<<<"call", a, <<>>>>>>
  /\ \A a, b : T23!Calls(<<a, b>>) = <<<<"call", a, <<>>>>, <<"call", b, <<>>>>>>
  /\ \A a, b, c : T23!Calls(<<a, b, c>>) = <<<<"call", a, <<>>>>, <<"call", b, <<>>>>, <<"call", c, <<>>>>>>
  /\ \A a, b, c, d : T23!Calls(<<a, b, c, d>>) =
        <<<<"call", a, <<>>>>, <<"call", b, <<>>>>, <<"call", c, <<>>>>, <<"call", d, <<>>>>>>
  BY DEF T23!Calls, T23!Call

LEMMA TakesNeutral ==
  ASSUME NEW w, NEW X, X \subseteq Facts, NEW m \in Neutral, NEW a
  PROVE  Takes(w, <<"call", m, a>>, X, X)
<1>1. LegalCall(m, a)
  BY DEF LegalCall, Methods, Neutral
<1>2. Need(w, <<"call", m, a>>) = {}
  BY NeedIs DEF Neutral
<1>3. AfterCall(w, m, a, X) = X
  BY DEF AfterCall, Neutral, Layouting
<1> QED
  BY <1>1, <1>2, <1>3, TakesCall

LEMMA NeutralLeads ==
  ASSUME NEW w, NEW X, X \subseteq Facts, NEW m \in Neutral, NEW a
  PROVE  Leads(w, T23!Method(m, a), X, X)
<1>1. Takes(w, <<"tool">>, X, X) /\ Takes(w, <<"crash">>, X, X) /\ Takes(w, <<"repoint">>, X, X)
  BY TakesTool
<1>2. Leads(w, <<<<"tool">>>>, X, X) /\ Leads(w, <<<<"crash">>>>, X, X) /\ Leads(w, <<<<"repoint">>>>, X, X)
  BY <1>1, LeadsOne
<1>3. Leads(w, <<<<"tool">>>> \o <<<<"tool">>>>, X, X) /\ Leads(w, <<<<"tool">>>> \o <<<<"crash">>>>, X, X)
  BY <1>2, LeadsJoin
<1>4. CASE m = "get_key_mode"
  BY <1>2, <1>4 DEF T23!Method, T23!GetKeyMode, T23!RunTool
<1>5. CASE m = "preprocess_configs"
  BY <1>2, <1>5 DEF T23!Method, T23!PreprocessConfigs, T23!RunTool
<1>6. CASE m = "update_images"
  BY <1>2, <1>6 DEF T23!Method, T23!UpdateImages
<1>7. CASE m = "generate_mb2_bct"
  <2>1. T23!Method(m, a) = T23!GenerateMb2Bct
    BY <1>7 DEF T23!Method
  <2>2. \/ T23!GenerateMb2Bct = <<<<"tool">>>> \o <<<<"tool">>>>
        \/ T23!GenerateMb2Bct = <<<<"tool">>>> \o <<<<"crash">>>>
    BY DEF T23!GenerateMb2Bct, T23!RunTool, T23!Crashing
  <2> QED
    BY <1>3, <2>1, <2>2
<1> QED
  BY <1>4, <1>5, <1>6, <1>7 DEF Neutral

\* The calls of generate_bct, and of what it calls.
LEMMA TakesBctCalls ==
  ASSUME NEW w, NEW X, X \subseteq Facts
  PROVE  /\ Takes(w, <<"call", "multi_chain", <<FALSE, TRUE>>>>, X, AfterMultiChain(FALSE, X))
         /\ Takes(w, <<"call", "multi_chain", <<TRUE, FALSE>>>>, X, X \cap (Base \cup {<<"list", "made">>}))
         /\ Takes(w, <<"call", "generate_mb1_bct", TRUE>>, X, X)
         /\ Takes(w, <<"call", "generate_mb1_bct", FALSE>>, X, AfterMb1Bct(X))
         /\ Takes(w, <<"call", "generate_mem_bct", TRUE>>, X, X)
         /\ Takes(w, <<"call", "generate_mem_bct", FALSE>>, X, AfterMemBct(w, X))
         /\ AfterMultiChain(FALSE, X) \subseteq Facts /\ AfterMb1Bct(X) \subseteq Facts /\ AfterMemBct(w, X) \subseteq Facts
<1>1. AfterMultiChain(FALSE, X) \subseteq Facts
  <2>1. Br({"good"}) \subseteq Facts
    BY DEF Br, Facts, BrKinds
  <2> QED
    BY <2>1, ChainFacts DEF AfterMultiChain, Unwritten, If
<1>2. AfterMb1Bct(X) \subseteq Facts /\ AfterMemBct(w, X) \subseteq Facts
  BY ChainFacts DEF AfterMb1Bct, AfterMemBct, Unwritten
<1>3. LegalCall("multi_chain", <<FALSE, TRUE>>) /\ LegalCall("multi_chain", <<TRUE, FALSE>>)
      /\ \A b \in BOOLEAN : LegalCall("generate_mb1_bct", b) /\ LegalCall("generate_mem_bct", b)
  BY DEF LegalCall, Methods
<1>4. \A m \in {"multi_chain", "generate_mb1_bct", "generate_mem_bct"} : \A a : Need(w, <<"call", m, a>>) = {}
  BY NeedIs
<1>5. /\ AfterCall(w, "multi_chain", <<FALSE, TRUE>>, X) = AfterMultiChain(FALSE, X)
      /\ AfterCall(w, "multi_chain", <<TRUE, FALSE>>, X) = X \cap (Base \cup {<<"list", "made">>})
      /\ AfterCall(w, "generate_mb1_bct", TRUE, X) = X
      /\ AfterCall(w, "generate_mb1_bct", FALSE, X) = AfterMb1Bct(X)
      /\ AfterCall(w, "generate_mem_bct", TRUE, X) = X
      /\ AfterCall(w, "generate_mem_bct", FALSE, X) = AfterMemBct(w, X)
  BY DEF AfterCall, Neutral, Layouting, AfterMultiChain
<1> QED
  <2>1. Takes(w, <<"call", "multi_chain", <<FALSE, TRUE>>>>, X, AfterMultiChain(FALSE, X))
    BY <1>1, <1>3, <1>4, <1>5, TakesCall
  <2>2. Takes(w, <<"call", "multi_chain", <<TRUE, FALSE>>>>, X, X \cap (Base \cup {<<"list", "made">>}))
    BY <1>3, <1>4, <1>5, TakesCall
  <2>3. /\ Takes(w, <<"call", "generate_mb1_bct", TRUE>>, X, X)
        /\ Takes(w, <<"call", "generate_mb1_bct", FALSE>>, X, AfterMb1Bct(X))
        /\ Takes(w, <<"call", "generate_mem_bct", TRUE>>, X, X)
        /\ Takes(w, <<"call", "generate_mem_bct", FALSE>>, X, AfterMemBct(w, X))
    BY <1>2, <1>3, <1>4, <1>5, TakesCall
  <2> QED
    BY <1>1, <1>2, <2>1, <2>2, <2>3

LEMMA GenerateBctLeads ==
  ASSUME NEW w, NEW X, X \subseteq Facts
  PROVE  Leads(w, T23!GenerateBct, X, AfterMemBct(w, AfterMb1Bct(AfterMultiChain(FALSE, X))))
<1> DEFINE X1 == AfterMultiChain(FALSE, X)
           X2 == AfterMb1Bct(X1)
           X3 == AfterMemBct(w, X2)
<1>1. T23!GenerateBct =
          <<<<"call", "preprocess_configs", <<>>>>, <<"call", "multi_chain", <<FALSE, TRUE>>>>,
            <<"call", "generate_mb1_bct", TRUE>>, <<"call", "generate_mb1_bct", FALSE>>,
            <<"call", "generate_mem_bct", TRUE>>, <<"call", "generate_mem_bct", FALSE>>>>
  BY DEF T23!GenerateBct, T23!Call, T23!CallWith
<1>2. Takes(w, <<"call", "preprocess_configs", <<>>>>, X, X)
  <2>1. "preprocess_configs" \in Neutral
    BY DEF Neutral
  <2> QED
    BY <2>1, TakesNeutral
<1>3. Takes(w, <<"call", "multi_chain", <<FALSE, TRUE>>>>, X, X1) /\ X1 \subseteq Facts
  BY TakesBctCalls
<1> HIDE DEF X1
<1>4. /\ Takes(w, <<"call", "generate_mb1_bct", TRUE>>, X1, X1)
      /\ Takes(w, <<"call", "generate_mb1_bct", FALSE>>, X1, X2) /\ X2 \subseteq Facts
  BY <1>3, TakesBctCalls
<1> HIDE DEF X2
<1>5. /\ Takes(w, <<"call", "generate_mem_bct", TRUE>>, X2, X2)
      /\ Takes(w, <<"call", "generate_mem_bct", FALSE>>, X2, X3)
  BY <1>4, TakesBctCalls
<1> HIDE DEF X3
<1>6. Leads(w, T23!GenerateBct, X, X3)
  BY <1>1, <1>2, <1>3, <1>4, <1>5, LeadsSix
<1> QED
  BY <1>6 DEF X3, X2, X1

LEMMA SignImagesLeads ==
  ASSUME NEW w, NEW X, X \subseteq Facts, NEW bct_flag, Named(layout["dce"], "dce")
  PROVE  Leads(w, T23!SignImages(bct_flag), X, (X \cap Base) \cup {<<"list", "signed">>})
<1> DEFINE Y == (X \cap Base) \cup {<<"list", "made">>}
           Z == (X \cap Base) \cup {<<"list", "signed">>}
           f == layout["dce"] \o <<"sigheader">>
           bct == T23!When(bct_flag, <<<<"call", "multi_chain", <<TRUE, FALSE>>>>>>)
           pkc == T23!When(opt.mode \in {"pkc", "sbk"}, <<<<"layout", "dce", f>>>>)
<1>1. T23!SignImages(bct_flag) = <<<<"list">>>> \o bct \o <<<<"signlist">>>> \o pkc
  BY DEF T23!SignImages, T23!CallWith
<1>2. Y \subseteq Facts /\ Z \subseteq Facts
  BY ChainFacts
<1>3. Takes(w, <<"list">>, X, Y)
  <2>1. Legal(w, <<"list">>) /\ Need(w, <<"list">>) = {}
    BY LegalIs, NeedIs
  <2>2. After(w, <<"list">>, X) = Y
    BY DEF After
  <2> QED
    BY <1>2, <2>1, <2>2 DEF Takes
<1>4. Takes(w, <<"call", "multi_chain", <<TRUE, FALSE>>>>, Y, Y)
  <2>1. Y \cap (Base \cup {<<"list", "made">>}) = Y
    OBVIOUS
  <2> HIDE DEF Y
  <2>2. Takes(w, <<"call", "multi_chain", <<TRUE, FALSE>>>>, Y, Y \cap (Base \cup {<<"list", "made">>}))
    BY <1>2, TakesBctCalls
  <2> QED
    BY <2>1, <2>2
<1>5. Takes(w, <<"signlist">>, Y, Z)
  <2>1. Legal(w, <<"signlist">>) /\ Need(w, <<"signlist">>) = {}
    BY LegalIs, NeedIs
  <2>2. After(w, <<"signlist">>, Y) = AfterSignList(Y)
    BY DEF After
  <2>3. Z \subseteq AfterSignList(Y)
    BY DEF AfterSignList, If
  <2> HIDE DEF Y, Z
  <2> QED
    BY <1>2, <2>1, <2>2, <2>3 DEF Takes
<1>6. Takes(w, <<"layout", "dce", f>>, Z, Z)
  <2>1. Named(f, "dce")
    BY Appended
  <2> HIDE DEF f, Z
  <2>2. Legal(w, <<"layout", "dce", f>>)
    BY <2>1 DEF Legal, Types
  <2>3. Need(w, <<"layout", "dce", f>>) = {}
    BY NeedIs
  <2>4. After(w, <<"layout", "dce", f>>, Z) = Z
    BY DEF After
  <2> QED
    BY <1>2, <2>2, <2>3, <2>4 DEF Takes
<1> HIDE DEF Y, Z, f
<1>7. Leads(w, <<<<"list">>>>, X, Y) /\ Leads(w, bct, Y, Y) /\ Leads(w, <<<<"signlist">>>>, Y, Z)
  BY <1>2, <1>3, <1>4, <1>5, LeadsOne, LeadsWhen
<1>8. Leads(w, pkc, Z, Z)
  BY <1>2, <1>6, LeadsOne, LeadsWhen
<1> HIDE DEF bct, pkc
<1>9. Leads(w, T23!SignImages(bct_flag), X, Z)
  BY <1>1, <1>7, <1>8, LeadsJoin
<1> QED
  BY <1>9 DEF Z

LEMMA TakesSend ==
  ASSUME NEW w, NEW X, X \subseteq Facts, NEW st \in {SendRom, SendMb2(w), SendApplet(w)},
         Need(w, st) \subseteq X
  PROVE  Takes(w, st, X, X)
<1>1. st[1] = "send"
  BY DEF SendRom, SendMb2, SendApplet
<1>2. Legal(w, st)
  BY <1>1 DEF Legal
<1>3. After(w, st, X) = X
  BY <1>1 DEF After
<1> QED
  BY <1>2, <1>3 DEF Takes

LEMMA SendsDiffer ==
  ASSUME NEW w
  PROVE  /\ Need(w, SendRom) = NeedRom
         /\ Need(w, SendMb2(w)) = MemBct \cup ({"signed"} \X InBlob23)
         /\ Need(w, SendApplet(w)) = {<<"signed", "applet">>}
<1>1. SendRom[1] = "send" /\ SendMb2(w)[1] = "send" /\ SendApplet(w)[1] = "send"
      /\ SendRom[4] = "mb1" /\ SendMb2(w)[4] = "mb2" /\ SendApplet(w)[4] = "mb2applet"
  BY DEF SendRom, SendMb2, SendApplet
<1>2. SendRom # SendMb2(w) /\ SendRom # SendApplet(w) /\ SendMb2(w) # SendApplet(w)
  BY <1>1
<1> QED
  BY <1>1, <1>2 DEF Need

LEMMA SendToBootromLeads ==
  ASSUME NEW w, NEW X, X \subseteq Facts, NeedRom \subseteq X
  PROVE  Leads(w, T23!SendToBootrom, X, X)
<1> DEFINE nct == T23!When(opt.secure /\ opt.nct, <<<<"tool">>>>)
           from == T23!When(~opt.mb1_bin /\ opt.mode \notin {"pkc", "sbk"}, <<<<"crash">>>>)
<1>1. T23!SendToBootrom = nct \o from \o <<SendRom>>
  BY DEF T23!SendToBootrom, T23!RunTool, T23!FromImagesList, T23!Crashing, SendRom, T23!K, K, T23!S, S
<1>2. Takes(w, <<"tool">>, X, X) /\ Takes(w, <<"crash">>, X, X)
  BY TakesTool
<1>3. Takes(w, SendRom, X, X)
  BY SendsDiffer, TakesSend
<1>4. Leads(w, nct, X, X) /\ Leads(w, from, X, X) /\ Leads(w, <<SendRom>>, X, X)
  BY <1>2, <1>3, LeadsOne, LeadsWhen
<1> HIDE DEF nct, from
<1> QED
  BY <1>1, <1>4, LeadsJoin

-----------------------------------------------------------------------------
(* The blob, and the MB2 applet.                                           *)

LEMMA ConcatenateLeads ==
  ASSUME NEW w, NEW X, X \subseteq Facts, NEW f, NEW h, Named(f, h), NEW e, e[1] = h, NEW with, NEW x, x # "unsigned"
  PROVE  Leads(w, T23!Concatenate(f, with, x), X, Rest(X, e))
<1> DEFINE g == f \o <<with>>
           R == Rest(X, e)
<1>1. Named(g, h) /\ IsName(g) /\ g[1] = h
  <2>1. Named(g, h)
    BY Appended
  <2> HIDE DEF g
  <2> QED
    BY <2>1 DEF Named
<1>2. R \subseteq Facts /\ R \subseteq X /\ Rest(R, e) = R
  BY RestFacts DEF Rest
<1>3. T23!Concatenate(f, with, x) =
          IF Exists(f) THEN <<<<"copy", F(f), g>>, <<"edit", F(g), x>>>> ELSE <<<<"raise">>>>
  BY DEF T23!Concatenate, T23!Exists, Exists, T23!F, F, T23!Raising
<1> HIDE DEF g, R
<1>4. Takes(w, <<"copy", F(f), g>>, X, R)
  BY <1>1, TakesCopy DEF R
<1>5. Takes(w, <<"edit", F(g), x>>, R, R)
  <2>1. Takes(w, <<"edit", F(g), x>>, R, Rest(R, e))
    BY <1>1, <1>2, TakesEdit
  <2> QED
    BY <1>2, <2>1
<1>6. Takes(w, <<"raise">>, X, R)
  BY <1>2, TakesTool, TakesFrom
<1> QED
  BY <1>3, <1>4, <1>5, <1>6, LeadsOne, LeadsTwo DEF R

LEMMA OneName ==
  ASSUME NEW a, a # "unsigned"
  PROVE  Named(<<a>>, a) /\ IsName(<<a>>) /\ <<a>>[1] = a /\ Signable(<<a>>) /\ <<a>> # <<>>
<1>1. IsSeq(<<a>>) /\ <<a>> # <<>> /\ <<a>>[1] = a
  BY IsSeqShort
<1>2. \A i \in DOMAIN <<a>> : <<a>>[i] # "unsigned"
  OBVIOUS
<1> QED
  BY <1>1, <1>2 DEF Named, IsName, Signable

LEMMA BlobNames ==
  /\ Named(<<"bl">>, "bl") /\ Named(<<"mb2">>, "mb2") /\ Named(<<"dce">>, "dce") /\ Named(<<"bpmp_dtb">>, "bpmp_dtb")
  /\ <<"bl">>[1] = "bl" /\ <<"mb2">>[1] = "mb2" /\ <<"dce">>[1] = "dce" /\ <<"bpmp_dtb">>[1] = "bpmp_dtb"
<1>1. Named(<<"bl">>, "bl") /\ <<"bl">>[1] = "bl"
  BY OneName
<1>2. Named(<<"mb2">>, "mb2") /\ <<"mb2">>[1] = "mb2"
  BY OneName
<1>3. Named(<<"dce">>, "dce") /\ <<"dce">>[1] = "dce"
  BY OneName
<1>4. Named(<<"bpmp_dtb">>, "bpmp_dtb") /\ <<"bpmp_dtb">>[1] = "bpmp_dtb"
  BY OneName
<1> QED
  BY <1>1, <1>2, <1>3, <1>4

Sg(h) == <<"signed", h>>

\* One image of the blob is signed.
LEMMA TakesBlobFile ==
  ASSUME NEW w, NEW Z, Z \subseteq Facts, NEW h \in InBlob23, NEW f, Named(f, h), Unwritten(Z, h) = Z,
         NEW magic, magic # "FSKP"
  PROVE  /\ Takes(w, <<"call", "oem_sign_file", <<f, magic>>>>, Z, Z)
         /\ f = Given(h) => Takes(w, <<"call", "oem_sign_file", <<f, magic>>>>, Z, Z \cup {Sg(h)})
<1>1. IsName(f) /\ f[1] = h /\ f[1] # "aligned" /\ h \in Signers
  BY DEF Named, InBlob23, Signers
<1>2. Rest(Z, f) = Z
  BY <1>1 DEF Rest
<1>3. f = Given(h) => Sg(h) \in About("signed", w, f)
  <2>1. Given(h) = FileOf(w, h)
    BY DEF InBlob23, FileOf
  <2> QED
    BY <1>1, <2>1, AboutFacts DEF Sg
<1>4. Takes(w, <<"call", "oem_sign_file", <<f, magic>>>>, Z, Z)
      /\ Takes(w, <<"call", "oem_sign_file", <<f, magic>>>>, Z, Z \cup About("signed", w, f))
  BY <1>1, <1>2, TakesSigningCall
<1> QED
  BY <1>3, <1>4, TakesFrom

LEMMA GenerateBlobLeads ==
  ASSUME NEW w, NEW X, X \subseteq Facts, NEW sign_images \in BOOLEAN,
         <<"val", "raw">> \in X => val.rawkerneldtb # None
  PROVE  Leads(w, T23!GenerateBlob(sign_images), X, AfterBlob(sign_images, X))
<1>0. Takes(w, <<"tool">>, X, X)
  BY TakesTool
<1>1. CASE ~sign_images
  <2>1. T23!GenerateBlob(sign_images) = <<>> \o <<<<"tool">>>>
    BY <1>1 DEF T23!GenerateBlob, T23!When, T23!RunTool
  <2>2. PICK e : e = <<>>
    OBVIOUS
  <2>3. Leads(w, e, X, X) /\ Leads(w, <<<<"tool">>>>, X, X)
    BY <1>0, <2>2, LeadsNone, LeadsOne
  <2> QED
    BY <1>1, <2>1, <2>2, <2>3, LeadsJoin DEF AfterBlob
<1>2. CASE sign_images
  <2> DEFINE R == {x \in X : Of(x) \cap InBlob23 = {}}
             raw == val.rawkerneldtb # None
             V1 == R \cup {Sg("bl")}
             V2 == V1 \cup {Sg("mb2")}
             V3 == V2 \cup (IF raw THEN {Sg("dce")} ELSE {})
             V4 == V3 \cup {Sg("bpmp_dtb")}
             fm == T23!Blobbed("mb2")
             fd == T23!Blobbed("dce")
             call(f, m) == <<"call", "oem_sign_file", <<f, m>>>>
             a == <<call(<<"bl">>, "CPBL"), <<"call", "generate_mb2_bct", <<>>>>>>
             b == T23!Concatenate(<<"mb2">>, "with_mb2_bct", "mb2bct")
             c == <<call(fm, "MB2B")>>
             d == T23!When(raw, T23!Concatenate(<<"dce">>, "with_kernel_dtb", "dtb"))
             e == <<call(fd, "DCE"), call(<<"bpmp_dtb">>, "BPMD")>>
  <2>1. T23!GenerateBlob(sign_images) = T23!When(sign_images, a \o b \o c \o d \o e) \o <<<<"tool">>>>
    BY DEF T23!GenerateBlob, T23!RunTool, T23!CallWith, T23!Call, T23!ConcatenateMb2bctMb2,
           T23!ConcatenateDcebinKerneldtb, T23!None, None
  <2>2. /\ Named(<<"bl">>, "bl") /\ Named(<<"mb2">>, "mb2") /\ Named(<<"dce">>, "dce") /\ Named(<<"bpmp_dtb">>, "bpmp_dtb")
        /\ <<"bl">> = Given("bl") /\ <<"bpmp_dtb">> = Given("bpmp_dtb")
    BY BlobNames DEF Given
  <2>3. /\ fm = Given("mb2") /\ Named(fm, "mb2") /\ Named(fd, "dce") /\ (raw => fd = Given("dce"))
    <3>1. fm = <<"mb2", "with_mb2_bct">> /\ fm = Given("mb2")
      BY DEF T23!Blobbed, Given
    <3>2. raw => fd = <<"dce", "with_kernel_dtb">> /\ fd = Given("dce")
      BY DEF T23!Blobbed, Given, T23!None, None
    <3>3. ~raw => fd = <<"dce">>
      BY DEF T23!Blobbed, T23!None, None
    <3>4. Named(<<"mb2", "with_mb2_bct">>, "mb2") /\ Named(<<"dce", "with_kernel_dtb">>, "dce")
      BY ShortNames
    <3> HIDE DEF fm, fd, raw
    <3> QED
      BY <2>2, <3>1, <3>2, <3>3, <3>4
  <2> HIDE DEF fm, fd
  <2>4. "bl" \in InBlob23 /\ "mb2" \in InBlob23 /\ "dce" \in InBlob23 /\ "bpmp_dtb" \in InBlob23
    BY DEF InBlob23
  <2>5. \A h : Sg(h)[1] = "signed" /\ Sg(h)[2] = h /\ Of(Sg(h)) = {h}
    BY OfIs DEF Sg
  <2>6. R \subseteq Facts /\ R \subseteq X /\ \A h \in InBlob23 : Sg(h) \in Facts
    BY DEF Facts, Sg, InBlob23, Signers
  <2>7. \A x \in R : \A h \in InBlob23 : h \notin Of(x)
    OBVIOUS
  <2> HIDE DEF R, raw
  <2>8. Unwritten(V1, "mb2") = V1 /\ Unwritten(V2, "dce") = V2 /\ Unwritten(V3, "bpmp_dtb") = V3 /\ Unwritten(R, "bl") = R
    <3>1. \A x \in V1 : x \in R \/ x = Sg("bl")
      OBVIOUS
    <3>2. \A x \in V2 : x \in R \/ x = Sg("bl") \/ x = Sg("mb2")
      OBVIOUS
    <3>3. \A x \in V3 : x \in R \/ x = Sg("bl") \/ x = Sg("mb2") \/ x = Sg("dce")
      OBVIOUS
    <3> HIDE DEF V1, V2, V3
    <3>4. Unwritten(V1, "mb2") = V1
      BY <2>4, <2>5, <2>7, <3>1 DEF Unwritten
    <3>5. Unwritten(V2, "dce") = V2
      BY <2>4, <2>5, <2>7, <3>2 DEF Unwritten
    <3>6. Unwritten(V3, "bpmp_dtb") = V3
      BY <2>4, <2>5, <2>7, <3>3 DEF Unwritten
    <3>7. Unwritten(R, "bl") = R
      BY <2>4, <2>7 DEF Unwritten
    <3> QED
      BY <3>4, <3>5, <3>6, <3>7
  <2>9. V1 \subseteq Facts /\ V2 \subseteq Facts /\ V3 \subseteq Facts /\ V4 \subseteq Facts
    BY <2>4, <2>6
  <2>10. AfterBlob(sign_images, X) \subseteq V4
    <3>1. AfterBlob(sign_images, X) = R \cup If(<<"val", "raw">> \in X, {"signed"} \X InBlob23)
      BY <1>2 DEF AfterBlob, R
    <3>2. {"signed"} \X InBlob23 = {Sg("bl"), Sg("mb2"), Sg("dce"), Sg("bpmp_dtb")}
      BY DEF Sg, InBlob23
    <3>3. <<"val", "raw">> \in X => raw
      BY DEF raw
    <3> QED
      BY <3>1, <3>2, <3>3 DEF If
  <2>11. Leads(w, a, R, V1)
    <3>1. Takes(w, call(<<"bl">>, "CPBL"), R, V1)
      BY <2>2, <2>4, <2>6, <2>8, TakesBlobFile
    <3>2. Takes(w, <<"call", "generate_mb2_bct", <<>>>>, V1, V1)
      <4>1. "generate_mb2_bct" \in Neutral
        BY DEF Neutral
      <4> HIDE DEF V1
      <4> QED
        BY <2>9, <4>1, TakesNeutral
    <3> QED
      BY <3>1, <3>2, LeadsTwo
  <2>12. Leads(w, b, V1, V1)
    <3>1. <<"mb2">>[1] = "mb2" /\ Named(<<"mb2">>, "mb2")
      BY BlobNames
    <3>2. PICK f : f = <<"mb2">>
      OBVIOUS
    <3> HIDE DEF V1
    <3>3. Leads(w, T23!Concatenate(f, "with_mb2_bct", "mb2bct"), V1, Rest(V1, f))
      BY <2>9, <3>1, <3>2, ConcatenateLeads
    <3> QED
      BY <2>8, <3>1, <3>2, <3>3 DEF Rest
  <2>13. Leads(w, c, V1, V2)
    <3>1. Takes(w, call(fm, "MB2B"), V1, V1 \cup {Sg("mb2")})
      <4> HIDE DEF V1
      <4> QED
        BY <2>3, <2>4, <2>8, <2>9, TakesBlobFile
    <3> QED
      BY <3>1, LeadsOne
  <2>14. Leads(w, d, V2, V2)
    <3>1. <<"dce">>[1] = "dce" /\ Named(<<"dce">>, "dce")
      BY BlobNames
    <3>2. PICK f : f = <<"dce">>
      OBVIOUS
    <3> HIDE DEF V2
    <3>3. Leads(w, T23!Concatenate(f, "with_kernel_dtb", "dtb"), V2, Rest(V2, f))
      BY <2>9, <3>1, <3>2, ConcatenateLeads
    <3>4. Leads(w, T23!Concatenate(<<"dce">>, "with_kernel_dtb", "dtb"), V2, V2)
      BY <2>8, <3>1, <3>2, <3>3 DEF Rest
    <3> QED
      BY <2>9, <3>4, LeadsWhen
  <2>15. Leads(w, e, V2, V4)
    <3>1. Takes(w, call(fd, "DCE"), V2, V3)
      <4> HIDE DEF V2
      <4>1. Takes(w, call(fd, "DCE"), V2, V2) /\ (raw => Takes(w, call(fd, "DCE"), V2, V2 \cup {Sg("dce")}))
        BY <2>3, <2>4, <2>8, <2>9, TakesBlobFile
      <4>2. raw => V3 = V2 \cup {Sg("dce")}
        OBVIOUS
      <4>3. ~raw => V3 = V2
        OBVIOUS
      <4> HIDE DEF V3
      <4> QED
        BY <4>1, <4>2, <4>3
    <3>2. Takes(w, call(<<"bpmp_dtb">>, "BPMD"), V3, V4)
      <4> HIDE DEF V3
      <4> QED
        BY <2>2, <2>4, <2>8, <2>9, TakesBlobFile
    <3> HIDE DEF V2, V3, V4
    <3> QED
      BY <3>1, <3>2, LeadsTwo
  <2>16. Leads(w, <<<<"tool">>>>, V4, V4)
    <3> HIDE DEF V4
    <3> QED
      BY <2>9, TakesTool, LeadsOne
  <2> HIDE DEF V1, V2, V3, V4, a, b, c, d, e, call
  <2>17. Leads(w, a \o b \o c \o d \o e, R, V4)
    BY <2>11, <2>12, <2>13, <2>14, <2>15, LeadsJoin
  <2>18. Leads(w, T23!When(sign_images, a \o b \o c \o d \o e), R, V4)
    BY <1>2, <2>17, LeadsWhen
  <2>19. Leads(w, T23!GenerateBlob(sign_images), R, V4)
    BY <2>1, <2>16, <2>18, LeadsJoin
  <2> QED
    BY <2>6, <2>10, <2>19, LeadsFrom
<1> QED
  BY <1>1, <1>2

LEMMA TakesBlob ==
  ASSUME NEW w, NEW X, X \subseteq Facts, NEW b \in BOOLEAN
  PROVE  Takes(w, <<"call", "generate_blob", b>>, X, AfterBlob(b, X))
<1>1. LegalCall("generate_blob", b)
  BY DEF LegalCall, Methods
<1>2. Need(w, <<"call", "generate_blob", b>>) = {}
  BY NeedIs
<1>3. AfterCall(w, "generate_blob", b, X) = AfterBlob(b, X)
  BY DEF AfterCall, Neutral, Layouting
<1>4. AfterBlob(b, X) \subseteq Facts
  BY DEF AfterBlob, If, Facts, InBlob23, Signers
<1> QED
  BY <1>1, <1>2, <1>3, <1>4, TakesCall

LEMMA JoinFour ==
  ASSUME NEW Z, NEW q \in Seq(Z), Len(q) = 1, NEW t \in Seq(Z), Len(t) = 4
  PROVE  q \o t \in Seq(Z) /\ Len(q \o t) = 5 /\ (q \o t)[1] = q[1] /\ (q \o t)[2] = t[1]
         /\ (q \o t)[3] = t[2] /\ (q \o t)[4] = t[3] /\ (q \o t)[5] = t[4]
<1> DEFINE n == Len(q)
           m == Len(t)
<1>1. n = 1 /\ m = 4
  OBVIOUS
<1> HIDE DEF n, m
<1>2. q \o t \in Seq(Z)
  BY ConcatProperties
<1>3. Len(q \o t) = Len(q) + Len(t)
  BY ConcatProperties
<1>4. \A i \in 1 .. Len(q) + Len(t) : (q \o t)[i] = IF i <= Len(q) THEN q[i] ELSE t[i - Len(q)]
  BY ConcatProperties
<1>5. PICK u : u = q \o t
  OBVIOUS
<1>6. \A i \in 1 .. n + m : u[i] = IF i <= n THEN q[i] ELSE t[i - n]
  BY <1>4, <1>5 DEF n, m
<1>7. u[1] = q[1] /\ u[2] = t[1] /\ u[3] = t[2] /\ u[4] = t[3] /\ u[5] = t[4]
  BY <1>1, <1>6
<1> QED
  BY <1>1, <1>2, <1>3, <1>5, <1>7 DEF n, m

LEMMA SendToBootloaderLeads ==
  ASSUME NEW w, NEW X, X \subseteq Facts, MemBct \cup {<<"val", "raw">>} \subseteq X, val.rawkerneldtb # None
  PROVE  Leads(w, T23!SendToBootloader(TRUE), X, {})
<1> DEFINE Y == AfterBlob(TRUE, X)
           s == <<T23!K("membct_rcm")>> \o [i \in 1..4 |-> T23!F(T23!BlobFile(T23!InBlob[i], TRUE))]
<1>1. T23!SendToBootloader(TRUE) = <<<<"call", "generate_blob", TRUE>>, <<"send", "mb1", s, "mb2">>>>
  BY DEF T23!SendToBootloader, T23!CallWith
<1>2. Takes(w, <<"call", "generate_blob", TRUE>>, X, Y) /\ Y \subseteq Facts
  BY TakesBlob DEF Takes
<1>3. MemBct \cup ({"signed"} \X InBlob23) \subseteq Y
  <2>1. Y = {x \in X : Of(x) \cap InBlob23 = {}} \cup ({"signed"} \X InBlob23)
    BY DEF AfterBlob, If
  <2>2. \A x \in MemBct : Of(x) \cap InBlob23 = {}
    BY OfIs DEF MemBct, InBlob23
  <2> QED
    BY <2>1, <2>2
<1>4. s = <<K("membct_rcm"), F(ResultOf(w, "bl")), F(ResultOf(w, "mb2")), F(ResultOf(w, "dce")), F(ResultOf(w, "bpmp_dtb"))>>
  <2> DEFINE r1 == F(ResultOf(w, "bl"))
             r2 == F(ResultOf(w, "mb2"))
             r3 == F(ResultOf(w, "dce"))
             r4 == F(ResultOf(w, "bpmp_dtb"))
             b(i) == T23!F(T23!BlobFile(T23!InBlob[i], TRUE))
             k == K("membct_rcm")
             t == [i \in 1..4 |-> b(i)]
             u == <<k, r1, r2, r3, r4>>
             Z == {k, r1, r2, r3, r4}
  <2>1. T23!InBlob[1] = "bl" /\ T23!InBlob[2] = "mb2" /\ T23!InBlob[3] = "dce" /\ T23!InBlob[4] = "bpmp_dtb"
    BY DEF T23!InBlob
  <2>2. /\ T23!Blobbed("bl") = Given("bl") /\ T23!Blobbed("mb2") = Given("mb2")
        /\ T23!Blobbed("dce") = Given("dce") /\ T23!Blobbed("bpmp_dtb") = Given("bpmp_dtb")
    BY DEF T23!Blobbed, Given, T23!None, None
  <2>3. \A h \in InBlob23 : FileOf(w, h) = Given(h)
    BY DEF FileOf, InBlob23
  <2>4. b(1) = r1 /\ b(2) = r2 /\ b(3) = r3 /\ b(4) = r4
    BY <2>1, <2>2, <2>3 DEF T23!BlobFile, ResultOf, T23!F, F, InBlob23
  <2>5. s = <<k>> \o t
    BY DEF T23!K, K
  <2> HIDE DEF s, b, k, r1, r2, r3, r4
  <2>6. t \in Seq(Z) /\ Len(t) = 4 /\ t[1] = r1 /\ t[2] = r2 /\ t[3] = r3 /\ t[4] = r4
    <3>1. \A i \in 1..4 : b(i) \in Z
      BY <2>4
    <3> HIDE DEF Z
    <3> QED
      BY <2>4, <3>1
  <2>7. u \in Seq(Z) /\ Len(u) = 5 /\ u[1] = k /\ u[2] = r1 /\ u[3] = r2 /\ u[4] = r3 /\ u[5] = r4
    OBVIOUS
  <2>8. <<k>> \in Seq(Z) /\ Len(<<k>>) = 1 /\ <<k>>[1] = k
    OBVIOUS
  <2> HIDE DEF t, u, Z
  <2>9. PICK v : v = <<k>> \o t
    OBVIOUS
  <2>10. v \in Seq(Z) /\ Len(v) = 5 /\ v[1] = k /\ v[2] = t[1] /\ v[3] = t[2] /\ v[4] = t[3] /\ v[5] = t[4]
    <3>1. PICK q : q = <<k>>
      OBVIOUS
    <3>2. q \in Seq(Z) /\ Len(q) = 1 /\ q[1] = k /\ v = q \o t
      BY <2>8, <2>9, <3>1
    <3> QED
      BY <2>6, <3>2, JoinFour
  <2>11. \A i \in 1..5 : v[i] = u[i]
    <3>1. ASSUME NEW i \in 1..5 PROVE v[i] = u[i]
      BY <2>6, <2>7, <2>10, i = 1 \/ i = 2 \/ i = 3 \/ i = 4 \/ i = 5
    <3> QED
      BY <3>1
  <2>12. v = u
    BY <2>7, <2>10, <2>11, SeqEqual
  <2> QED
    BY <2>5, <2>9, <2>12 DEF u, k, r1, r2, r3, r4
<1> HIDE DEF Y
<1>5. Takes(w, <<"send", "mb1", s, "mb2">>, Y, Y)
  <2>1. <<"send", "mb1", s, "mb2">> = SendMb2(w)
    BY <1>4 DEF SendMb2
  <2>2. Takes(w, SendMb2(w), Y, Y)
    BY <1>2, <1>3, SendsDiffer, TakesSend
  <2> QED
    BY <2>1, <2>2
<1> HIDE DEF s
<1>6. Leads(w, T23!SendToBootloader(TRUE), X, Y)
  BY <1>1, <1>2, <1>5, LeadsTwo
<1> QED
  BY <1>6, LeadsFrom

LEMMA SendMb2AppletLeads ==
  ASSUME NEW w, w.encrypt = opt.encrypt, NEW X, X \subseteq Facts
  PROVE  Leads(w, T23!SendMb2Applet, X, {})
<1> DEFINE f == <<"applet">>
           Y == {<<"signed", "applet">>}
<1>1. f = Given("applet") /\ "applet" \in Oems /\ Named(f, "applet") /\ IsName(f) /\ f[1] = "applet" /\ "applet" # "aligned"
  BY ShortNames DEF Given, Oems
<1>2. T23!SendMb2Applet = T23!SignOem(f, "MB2A") \o <<SendApplet(w)>>
  <2>1. T23!SignedOem(f) = ResultOf(w, "applet")
    BY <1>1, SignedOemIs
  <2> HIDE DEF f
  <2> QED
    BY <2>1 DEF T23!SendMb2Applet, SendApplet, T23!F, F, f
<1> HIDE DEF f
<1>3. Leads(w, T23!SignOem(f, "MB2A"), X, Y)
  <2>1. Leads(w, T23!SignOem(f, "MB2A"), X, Rest(X, f) \cup {x \in {"signed"} \X Oems : f = Given(x[2])})
    BY <1>1, SignOemLeads
  <2>2. Y \subseteq Rest(X, f) \cup {x \in {"signed"} \X Oems : f = Given(x[2])}
    BY <1>1
  <2> QED
    BY <2>1, <2>2, LeadsFrom
<1>4. Y \subseteq Facts
  BY DEF Facts, Signers
<1> HIDE DEF Y
<1>5. Takes(w, SendApplet(w), Y, Y)
  BY <1>4, SendsDiffer, TakesSend DEF Y
<1> QED
  BY <1>2, <1>3, <1>5, LeadsOne, LeadsJoin, LeadsFrom

-----------------------------------------------------------------------------
(* The partition layout.                                                   *)

\* Steps all of which keep what is known.
LEMMA LeadsEach ==
  ASSUME NEW w, NEW B, B \subseteq Facts, NEW Z, NEW s \in Seq(Z), \A i \in 1..Len(s) : Takes(w, s[i], B, B)
  PROVE  Leads(w, s, B, B)
<1> DEFINE A == [n \in 0..Len(s) |-> B]
<1>1. Len(s) \in Nat /\ A \in [0..Len(s) -> SUBSET Facts] /\ \A n \in 0..Len(s) : A[n] = B
  OBVIOUS
<1> HIDE DEF A
<1>2. ASSUME NEW n \in 1..Len(s) PROVE Outline(w, s, A, n)
  <2>1. A[n] = B /\ A[n-1] = B
    BY <1>1
  <2> QED
    BY <2>1 DEF Outline, Takes
<1> QED
  BY <1>1, <1>2 DEF Leads

\* What only concerns the layout keeps the facts in Base.
LEMMA TakesInBase ==
  ASSUME NEW w, NEW B, B \subseteq Base
  PROVE  /\ B \subseteq Facts
         /\ \A e : Rest(B, e) = B
         /\ Takes(w, <<"tool">>, B, B) /\ Takes(w, <<"raise">>, B, B) /\ Takes(w, <<"crash">>, B, B)
         /\ \A f, g, h : Named(f, h) /\ Named(g, h) => Takes(w, <<"copy", F(f), g>>, B, B)
         /\ \A f, x : IsName(f) /\ x # "unsigned" => Takes(w, <<"edit", F(f), x>>, B, B)
         /\ \A f : IsName(f) => Takes(w, <<"odm", f>>, B, B)
         /\ \A f, t : t \in Types \ {"mb1", "psc"} /\ Named(f, t) => Takes(w, <<"layout", t, f>>, B, B)
         /\ \A f, v : v \in {"rawkerneldtb", "kerneldtb"} /\ Named(f, "kernel_dtb") => Takes(w, <<"set", v, f>>, B, B)
         /\ \A f : Named(f, "bldtb") => Takes(w, <<"set", "bldtb", f>>, B, B)
<1>1. B \subseteq Facts
  BY ChainFacts
<1>2. ASSUME NEW h PROVE Unwritten(B, h) = B
  <2>1. \A x \in B : Of(x) = {}
    BY OfIs DEF Base
  <2> QED
    BY <2>1 DEF Unwritten
<1>3. ASSUME NEW e PROVE Rest(B, e) = B
  BY <1>2 DEF Rest
<1>4. Takes(w, <<"tool">>, B, B) /\ Takes(w, <<"raise">>, B, B) /\ Takes(w, <<"crash">>, B, B)
  BY <1>1, TakesTool
<1>5. ASSUME NEW f, NEW g, NEW h, Named(f, h), Named(g, h) PROVE Takes(w, <<"copy", F(f), g>>, B, B)
  <2>1. f[1] = h
    BY <1>5 DEF Named
  <2>2. Takes(w, <<"copy", F(f), g>>, B, Rest(B, f))
    BY <1>1, <1>5, <2>1, TakesCopy
  <2> QED
    BY <1>3, <2>2
<1>6. ASSUME NEW f, NEW x, IsName(f), x # "unsigned" PROVE Takes(w, <<"edit", F(f), x>>, B, B)
  <2>1. Takes(w, <<"edit", F(f), x>>, B, Rest(B, f))
    BY <1>1, <1>6, TakesEdit
  <2> QED
    BY <1>3, <2>1
<1>7. ASSUME NEW f, IsName(f) PROVE Takes(w, <<"odm", f>>, B, B)
  <2>1. Legal(w, <<"odm", f>>) /\ Need(w, <<"odm", f>>) = {}
    BY <1>7, LegalIs, NeedIs
  <2>2. B \subseteq After(w, <<"odm", f>>, B)
    BY <1>2 DEF After
  <2> QED
    BY <1>1, <2>1, <2>2 DEF Takes
<1>8. ASSUME NEW f, NEW t, t \in Types \ {"mb1", "psc"}, Named(f, t) PROVE Takes(w, <<"layout", t, f>>, B, B)
  <2>1. Legal(w, <<"layout", t, f>>)
    BY <1>8 DEF Legal
  <2>2. Need(w, <<"layout", t, f>>) = {} /\ After(w, <<"layout", t, f>>, B) = B
    BY DEF Need, After
  <2> QED
    BY <1>1, <2>1, <2>2 DEF Takes
<1>9. ASSUME NEW f, NEW v, v \in {"rawkerneldtb", "kerneldtb"}, Named(f, "kernel_dtb") PROVE Takes(w, <<"set", v, f>>, B, B)
  <2>1. Legal(w, <<"set", v, f>>)
    BY <1>9 DEF Legal
  <2>2. Need(w, <<"set", v, f>>) = {} /\ After(w, <<"set", v, f>>, B) = AfterSet(v, B)
    BY DEF Need, After
  <2> QED
    BY <1>1, <2>1, <2>2 DEF Takes, AfterSet
<1>10. ASSUME NEW f, Named(f, "bldtb") PROVE Takes(w, <<"set", "bldtb", f>>, B, B)
  <2>1. Legal(w, <<"set", "bldtb", f>>)
    BY <1>10 DEF Legal
  <2>2. Need(w, <<"set", "bldtb", f>>) = {} /\ After(w, <<"set", "bldtb", f>>, B) = AfterSet("bldtb", B)
    BY DEF Need, After
  <2> QED
    BY <1>1, <2>1, <2>2 DEF Takes, AfterSet
<1> QED
  BY <1>1, <1>3, <1>4, <1>5, <1>6, <1>7, <1>8, <1>9, <1>10

LEMMA BackupNames ==
  ASSUME NEW f, NEW h, NEW suffix, Named(f, h), h # suffix
  PROVE  Named(T23!Without(f, suffix), h) /\ Named(T23!Backup(f, suffix), h)
<1>1. Named(T23!Without(f, suffix), h)
  <2>1. T23!Without(f, suffix) = Removing(f, {suffix})
    BY SharedWithout
  <2> QED
    BY <2>1, IsSeqWithout DEF Named, IsName
<1> QED
  BY <1>1, Appended DEF T23!Backup

LEMMA CreateBackupLeads ==
  ASSUME NEW w, NEW B, B \subseteq Base, NEW f, NEW h, Named(f, h), NEW suffix, h # suffix
  PROVE  Leads(w, T23!CreateBackupFile(f, suffix), B, B)
<1> DEFINE a == T23!Without(f, suffix)
           b == T23!Backup(f, suffix)
<1>1. Named(a, h) /\ Named(b, h)
  BY BackupNames
<1>2. PICK c : c = T23!Exists(b)
  OBVIOUS
<1>3. T23!CreateBackupFile(f, suffix) = IF ~T23!Exists(a) THEN <<<<"raise">>>> ELSE T23!When(~c, <<<<"copy", F(a), b>>>>)
  BY <1>2 DEF T23!CreateBackupFile, T23!F, F, T23!Raising
<1> HIDE DEF a, b
<1>4. Leads(w, <<<<"raise">>>>, B, B) /\ Leads(w, <<<<"copy", F(a), b>>>>, B, B)
  BY <1>1, TakesInBase, LeadsOne
<1>5. Leads(w, T23!When(~c, <<<<"copy", F(a), b>>>>), B, B)
  BY <1>4, TakesInBase, LeadsWhen
<1> QED
  BY <1>3, <1>4, <1>5

LayoutNames == \A t \in Types : Named(layout[t], t)
ValueNames == /\ Named(val.bldtb, "bldtb")
              /\ val.kerneldtb # None => Named(val.kerneldtb, "kernel_dtb")

LEMMA UpdatesLead ==
  ASSUME NEW w, NEW B, B \subseteq Base, LayoutNames, ValueNames
  PROVE  /\ Leads(w, T23!UpdateBpmpDtb, B, B) /\ Leads(w, T23!UpdateKernelDtb, B, B)
         /\ Leads(w, T23!UpdateCpublDtb, B, B)
<1>1. Leads(w, T23!UpdateBpmpDtb, B, B)
  <2> DEFINE f == layout["bpmp_dtb"]
             g == T23!Backup(f, "with_odm")
  <2>1. "bpmp_dtb" \in Types \ {"mb1", "psc"} /\ Named(f, "bpmp_dtb")
    BY DEF LayoutNames, Types
  <2>2. Named(g, "bpmp_dtb") /\ IsName(g)
    <3> HIDE DEF f
    <3>1. Named(g, "bpmp_dtb")
      BY <2>1, BackupNames
    <3> QED
      BY <3>1 DEF Named
  <2>3. T23!UpdateBpmpDtb = T23!CreateBackupFile(f, "with_odm")
                            \o <<<<"layout", "bpmp_dtb", g>>, <<"odm", g>>, <<"tool">>>>
    BY DEF T23!UpdateBpmpDtb
  <2> HIDE DEF f, g
  <2>4. Leads(w, T23!CreateBackupFile(f, "with_odm"), B, B)
    BY <2>1, CreateBackupLeads
  <2>5. Takes(w, <<"layout", "bpmp_dtb", g>>, B, B) /\ Takes(w, <<"odm", g>>, B, B) /\ Takes(w, <<"tool">>, B, B)
    BY <2>1, <2>2, TakesInBase
  <2>6. Leads(w, <<<<"layout", "bpmp_dtb", g>>, <<"odm", g>>, <<"tool">>>>, B, B)
    BY <2>5, LeadsThree
  <2> QED
    BY <2>3, <2>4, <2>6, LeadsJoin
<1>2. Leads(w, T23!UpdateKernelDtb, B, B)
  <2> DEFINE f == IF val.kerneldtb # T23!None THEN val.kerneldtb ELSE layout["kernel_dtb"]
             g == T23!Backup(f, "with_odm")
  <2>1. "kernel_dtb" \in Types \ {"mb1", "psc"} /\ Named(f, "kernel_dtb")
    BY DEF LayoutNames, ValueNames, Types, T23!None, None
  <2>2. Named(g, "kernel_dtb") /\ IsName(g)
    <3> HIDE DEF f
    <3>1. Named(g, "kernel_dtb")
      BY <2>1, BackupNames
    <3> QED
      BY <3>1 DEF Named
  <2>3. T23!UpdateKernelDtb = T23!CreateBackupFile(f, "with_odm")
                            \o <<<<"layout", "kernel_dtb", g>>, <<"set", "kerneldtb", g>>, <<"odm", g>>>>
    BY DEF T23!UpdateKernelDtb
  <2> HIDE DEF f, g
  <2>4. Leads(w, T23!CreateBackupFile(f, "with_odm"), B, B)
    BY <2>1, CreateBackupLeads
  <2>5. Takes(w, <<"layout", "kernel_dtb", g>>, B, B) /\ Takes(w, <<"odm", g>>, B, B)
    BY <2>1, <2>2, TakesInBase
  <2>7. Takes(w, <<"set", "kerneldtb", g>>, B, B)
    BY <2>2, TakesInBase
  <2>6. Leads(w, <<<<"layout", "kernel_dtb", g>>, <<"set", "kerneldtb", g>>, <<"odm", g>>>>, B, B)
    BY <2>5, <2>7, LeadsThree
  <2> QED
    BY <2>3, <2>4, <2>6, LeadsJoin
<1>3. Leads(w, T23!UpdateCpublDtb, B, B)
  <2> DEFINE f == val.bldtb
             g == T23!Backup(f, "with_odm")
  <2>1. Named(f, "bldtb")
    BY DEF ValueNames
  <2>2. Named(g, "bldtb") /\ IsName(g)
    <3> HIDE DEF f
    <3>1. Named(g, "bldtb")
      BY <2>1, BackupNames
    <3> QED
      BY <3>1 DEF Named
  <2>3. T23!UpdateCpublDtb = T23!CreateBackupFile(f, "with_odm") \o <<<<"set", "bldtb", g>>, <<"odm", g>>>>
    BY DEF T23!UpdateCpublDtb
  <2> HIDE DEF f, g
  <2>4. Leads(w, T23!CreateBackupFile(f, "with_odm"), B, B)
    BY <2>1, CreateBackupLeads
  <2>5. Takes(w, <<"set", "bldtb", g>>, B, B) /\ Takes(w, <<"odm", g>>, B, B)
    BY <2>2, TakesInBase
  <2>6. Leads(w, <<<<"set", "bldtb", g>>, <<"odm", g>>>>, B, B)
    BY <2>5, LeadsTwo
  <2> QED
    BY <2>3, <2>4, <2>6, LeadsJoin
<1> QED
  BY <1>1, <1>2, <1>3

LEMMA ConcatenateInBase ==
  ASSUME NEW w, NEW B, B \subseteq Base, NEW f, IsName(f), NEW with, NEW x, x # "unsigned"
  PROVE  Leads(w, T23!Concatenate(f, with, x), B, B)
<1>1. Named(f, f[1]) /\ B \subseteq Facts
  BY TakesInBase DEF Named
<1>2. Leads(w, T23!Concatenate(f, with, x), B, Rest(B, f))
  BY <1>1, ConcatenateLeads
<1> QED
  BY <1>2, TakesInBase

LEMMA GenerateMb2BctLeads ==
  ASSUME NEW w, NEW X, X \subseteq Facts
  PROVE  Leads(w, T23!GenerateMb2Bct, X, X)
<1>1. "generate_mb2_bct" \in Neutral
  BY DEF Neutral
<1>2. Leads(w, T23!Method("generate_mb2_bct", <<>>), X, X)
  BY <1>1, NeutralLeads
<1>3. T23!Method("generate_mb2_bct", <<>>) = T23!GenerateMb2Bct
  BY DEF T23!Method
<1> QED
  BY <1>2, <1>3

LEMMA CombinesLead ==
  ASSUME NEW w, NEW B, B \subseteq Base, LayoutNames, ValueNames
  PROVE  /\ Leads(w, T23!ConcatOverlayDtb, B, B) /\ Leads(w, T23!ConcatenateCpublBldtb, B, B)
         /\ Leads(w, T23!CombineMb2, B, B) /\ Leads(w, T23!CombineDce, B, B)
<1>1. Leads(w, T23!ConcatOverlayDtb, B, B)
  <2> DEFINE c == opt.overlay /\ ~T23!asks /\ T23!Exists(val.bldtb)
             a == <<"edit", F(val.bldtb), "overlay">>
  <2>1. T23!ConcatOverlayDtb = T23!When(c, <<a>>)
    BY DEF T23!ConcatOverlayDtb, T23!F, F
  <2>2. Takes(w, a, B, B) /\ B \subseteq Facts
    BY TakesInBase DEF ValueNames, Named
  <2> HIDE DEF c, a
  <2>3. Leads(w, <<a>>, B, B)
    BY <2>2, LeadsOne
  <2> QED
    BY <2>1, <2>2, <2>3, LeadsWhen
<1>2. Leads(w, T23!ConcatenateCpublBldtb, B, B)
  <2>1. IsName(<<"bl">>)
    BY BlobNames DEF Named
  <2> QED
    BY <2>1, ConcatenateInBase DEF T23!ConcatenateCpublBldtb
<1>3. Leads(w, T23!CombineMb2, B, B)
  <2> DEFINE f == layout["mb2"]
             g == f \o <<"with_mb2_bct">>
  <2>1. "mb2" \in Types \ {"mb1", "psc"} /\ Named(f, "mb2") /\ IsName(f)
    BY DEF LayoutNames, Types, Named
  <2>2. T23!CombineMb2 = T23!GenerateMb2Bct \o T23!Concatenate(f, "with_mb2_bct", "mb2bct") \o <<<<"layout", "mb2", g>>>>
    BY DEF T23!CombineMb2, T23!ConcatenateMb2bctMb2
  <2> HIDE DEF f
  <2>3. Named(g, "mb2")
    BY <2>1, Appended
  <2> HIDE DEF g
  <2>4. Leads(w, T23!GenerateMb2Bct, B, B)
    BY GenerateMb2BctLeads, TakesInBase
  <2>5. Leads(w, T23!Concatenate(f, "with_mb2_bct", "mb2bct"), B, B)
    BY <2>1, ConcatenateInBase
  <2>6. Leads(w, <<<<"layout", "mb2", g>>>>, B, B)
    BY <2>1, <2>3, TakesInBase, LeadsOne
  <2> QED
    BY <2>2, <2>4, <2>5, <2>6, LeadsJoin
<1>4. Leads(w, T23!CombineDce, B, B)
  <2> DEFINE f == layout["dce"]
             g == f \o <<"with_kernel_dtb">>
  <2>1. "dce" \in Types \ {"mb1", "psc"} /\ Named(f, "dce") /\ IsName(f)
    BY DEF LayoutNames, Types, Named
  <2>2. T23!CombineDce = T23!Concatenate(f, "with_kernel_dtb", "dtb") \o <<<<"layout", "dce", g>>>>
    BY DEF T23!CombineDce, T23!ConcatenateDcebinKerneldtb
  <2> HIDE DEF f
  <2>3. Named(g, "dce")
    BY <2>1, Appended
  <2> HIDE DEF g
  <2>5. Leads(w, T23!Concatenate(f, "with_kernel_dtb", "dtb"), B, B)
    BY <2>1, ConcatenateInBase
  <2>6. Leads(w, <<<<"layout", "dce", g>>>>, B, B)
    BY <2>1, <2>3, TakesInBase, LeadsOne
  <2> QED
    BY <2>2, <2>5, <2>6, LeadsJoin
<1> QED
  BY <1>1, <1>2, <1>3, <1>4

Combining == Layouting \ {"parse_partitionlayout", "parse_without_dce"}
LEMMA TakesCombining ==
  ASSUME NEW w, NEW m \in Combining, NEW X, X \subseteq Facts
  PROVE  Takes(w, <<"call", m, <<>>>>, X, X \cap Base) /\ AfterCall(w, m, <<>>, X) = X \cap Base
<1>1. LegalCall(m, <<>>)
  BY DEF LegalCall, Methods, Combining, Layouting
<1>2. Need(w, <<"call", m, <<>>>>) = {}
  BY NeedIs DEF Combining, Layouting
<1>3. AfterCall(w, m, <<>>, X) = X \cap Base
  BY DEF AfterCall, Neutral, Layouting, Combining
<1> QED
  BY <1>1, <1>2, <1>3, ChainFacts, TakesCall

LEMMA ParsePartitionlayoutLeads ==
  ASSUME NEW w, NEW X, NEW dce_comb \in BOOLEAN, LayoutNames
  PROVE  Leads(w, T23!ParsePartitionlayout(dce_comb), X, Base)
<1> DEFINE f == layout["kernel_dtb"]
           call(m) == <<"call", m, <<>>>>
           a == <<<<"pt">>, <<"set", "rawkerneldtb", f>>>>
           odm == opt.odm /\ ~T23!asks
           con == opt.concat /\ ~T23!asks
           mb2 == opt.mb2cfg /\ ~T23!asks
           dce == dce_comb /\ ~T23!asks
           b == T23!When(odm, T23!Calls(<<"update_bpmp_dtb", "update_kernel_dtb", "update_cpubl_dtb">>))
           c == <<call("concat_overlay_dtb")>>
           d == T23!When(con, <<call("concatenate_cpubl_bldtb")>>)
           e == T23!When(mb2, <<call("combine_mb2")>>)
           g == T23!When(dce, <<call("combine_dce")>>)
           h == <<<<"pt">>>>
<1>1. T23!ParsePartitionlayout(dce_comb) = a \o b \o c \o d \o e \o g \o h
  BY DEF T23!ParsePartitionlayout, T23!Call
<1>2. Base \subseteq Facts /\ Base \cap Base = Base
  BY ChainFacts
<1>3. Named(f, "kernel_dtb")
  BY DEF LayoutNames, Types
<1>4. ASSUME NEW m \in Combining PROVE Takes(w, call(m), Base, Base)
  <2>1. Takes(w, call(m), Base, Base \cap Base)
    BY <1>2, TakesCombining
  <2> QED
    BY <1>2, <2>1
<1>5. /\ "update_bpmp_dtb" \in Combining /\ "update_kernel_dtb" \in Combining /\ "update_cpubl_dtb" \in Combining
      /\ "concat_overlay_dtb" \in Combining /\ "concatenate_cpubl_bldtb" \in Combining
      /\ "combine_mb2" \in Combining /\ "combine_dce" \in Combining
  BY DEF Combining, Layouting
<1>6. T23!Calls(<<"update_bpmp_dtb", "update_kernel_dtb", "update_cpubl_dtb">>)
          = <<call("update_bpmp_dtb"), call("update_kernel_dtb"), call("update_cpubl_dtb")>>
  BY CallsAre
<1>7. Takes(w, <<"pt">>, {}, {<<"kept", "pt">>}) /\ Takes(w, <<"pt">>, Base, Base)
  <2>1. Legal(w, <<"pt">>) /\ Need(w, <<"pt">>) = {}
    BY LegalIs, NeedIs
  <2>2. \A U : After(w, <<"pt">>, U) = U \cup {<<"kept", "pt">>}
    BY DEF After
  <2>3. {<<"kept", "pt">>} \subseteq Facts
    BY <1>2 DEF Base
  <2> QED
    BY <1>2, <2>1, <2>2, <2>3 DEF Takes
<1>8. Takes(w, <<"set", "rawkerneldtb", f>>, {<<"kept", "pt">>}, Base)
  <2>1. Legal(w, <<"set", "rawkerneldtb", f>>)
    BY <1>3 DEF Legal
  <2>2. Need(w, <<"set", "rawkerneldtb", f>>) = {}
    BY NeedIs
  <2>3. After(w, <<"set", "rawkerneldtb", f>>, {<<"kept", "pt">>}) = Base
    BY DEF After, AfterSet, If, Base
  <2>4. {<<"kept", "pt">>} \subseteq Facts
    BY <1>2 DEF Base
  <2> QED
    BY <1>2, <2>1, <2>2, <2>3, <2>4 DEF Takes
<1> HIDE DEF f, odm, con, mb2, dce
<1>9. Leads(w, a, {}, Base)
  BY <1>7, <1>8, LeadsTwo
<1>10. Leads(w, b, Base, Base)
  <2>1. Takes(w, call("update_bpmp_dtb"), Base, Base) /\ Takes(w, call("update_kernel_dtb"), Base, Base)
        /\ Takes(w, call("update_cpubl_dtb"), Base, Base)
    BY <1>4, <1>5
  <2> HIDE DEF call
  <2>2. Leads(w, T23!Calls(<<"update_bpmp_dtb", "update_kernel_dtb", "update_cpubl_dtb">>), Base, Base)
    BY <1>6, <2>1, LeadsThree
  <2> QED
    BY <1>2, <2>2, LeadsWhen
<1>11. Leads(w, c, Base, Base)
  BY <1>4, <1>5, LeadsOne
<1>12. Leads(w, d, Base, Base)
  <2>1. Leads(w, <<call("concatenate_cpubl_bldtb")>>, Base, Base)
    BY <1>4, <1>5, LeadsOne
  <2> QED
    BY <1>2, <2>1, LeadsWhen
<1>13. Leads(w, e, Base, Base)
  <2>1. Leads(w, <<call("combine_mb2")>>, Base, Base)
    BY <1>4, <1>5, LeadsOne
  <2> QED
    BY <1>2, <2>1, LeadsWhen
<1>14. Leads(w, g, Base, Base)
  <2>1. Leads(w, <<call("combine_dce")>>, Base, Base)
    BY <1>4, <1>5, LeadsOne
  <2> QED
    BY <1>2, <2>1, LeadsWhen
<1>15. Leads(w, h, Base, Base)
  BY <1>7, LeadsOne
<1> HIDE DEF a, b, c, d, e, g, h
<1>16. Leads(w, a \o b \o c \o d, {}, Base)
  BY <1>9, <1>10, <1>11, <1>12, LeadsJoin
<1>17. Leads(w, a \o b \o c \o d \o e \o g \o h, {}, Base)
  BY <1>13, <1>14, <1>15, <1>16, LeadsJoin
<1> QED
  BY <1>1, <1>17, LeadsFrom

-----------------------------------------------------------------------------
(* Methods of which nothing need be known afterwards.                      *)

LEMMA TakesNothing ==
  ASSUME NEW w, NEW a, Legal(w, a), Need(w, a) = {}
  PROVE  Takes(w, a, {}, {})
  BY DEF Takes

Free == {"tool", "raise", "crash", "caught", "ask", "create", "write", "erase", "reboot", "chipinfo"}
LEMMA TakesFree ==
  ASSUME NEW w, NEW x \in Free
  PROVE  /\ Takes(w, <<x>>, {}, {}) /\ \A a : Takes(w, <<x, a>>, {}, {})
         /\ \A a, b : Takes(w, <<x, a, b>>, {}, {})
<1>1. x \in Unmodelled /\ x # "send" /\ x # "rename" /\ x # "call"
  BY DEF Free, Unmodelled
<1>2. Legal(w, <<x>>) /\ (\A a : Legal(w, <<x, a>>)) /\ (\A a, b : Legal(w, <<x, a, b>>))
  BY <1>1 DEF Legal
<1>3. Need(w, <<x>>) = {} /\ (\A a : Need(w, <<x, a>>) = {}) /\ (\A a, b : Need(w, <<x, a, b>>) = {})
  BY <1>1 DEF Need
<1> QED
  BY <1>2, <1>3, TakesNothing

LEMMA TakesCalls ==
  ASSUME NEW w, NEW m \in Methods \ {"send_to_bootrom", "send_to_bootloader"}, NEW a, LegalCall(m, a)
  PROVE  Takes(w, <<"call", m, a>>, {}, {})
<1>1. Need(w, <<"call", m, a>>) = {}
  BY NeedIs
<1>2. Legal(w, <<"call", m, a>>)
  BY DEF Legal
<1> QED
  BY <1>1, <1>2, TakesNothing

LEMMA TakesOthers ==
  ASSUME NEW w
  PROVE  /\ \A stages, n : Takes(w, <<"poll", stages, n, <<>>>>, {}, {})
                           /\ Takes(w, <<"poll", stages, n, <<<<"raise">>>>>>, {}, {})
         /\ Takes(w, <<"except", <<>>>>, {}, {}) /\ Takes(w, <<"except", <<<<"chipinfo">>>>>>, {}, {})
         /\ Takes(w, <<"except", <<Cvm>>>>, {}, {})
         /\ \A f : IsName(f) => Takes(w, <<"make", f, f>>, {}, {}) \/ ~Signable(f)
         /\ \A r, t : Takes(w, <<"copy", r, <<"out", t>>>>, {}, {})
<1>1. ASSUME NEW stages, NEW n
      PROVE  Takes(w, <<"poll", stages, n, <<>>>>, {}, {}) /\ Takes(w, <<"poll", stages, n, <<<<"raise">>>>>>, {}, {})
  <2>1. Legal(w, <<"poll", stages, n, <<>>>>) /\ Legal(w, <<"poll", stages, n, <<<<"raise">>>>>>)
    BY DEF Legal, T23!Raising
  <2>2. Need(w, <<"poll", stages, n, <<>>>>) = {} /\ Need(w, <<"poll", stages, n, <<<<"raise">>>>>>) = {}
    BY DEF Need
  <2> QED
    BY <2>1, <2>2, TakesNothing
<1>2. Takes(w, <<"except", <<>>>>, {}, {}) /\ Takes(w, <<"except", <<<<"chipinfo">>>>>>, {}, {})
      /\ Takes(w, <<"except", <<Cvm>>>>, {}, {})
  <2>1. Legal(w, <<"except", <<>>>>) /\ Legal(w, <<"except", <<<<"chipinfo">>>>>>) /\ Legal(w, <<"except", <<Cvm>>>>)
    BY DEF Legal
  <2>2. \A a : Need(w, <<"except", a>>) = {}
    BY DEF Need
  <2> QED
    BY <2>1, <2>2, TakesNothing
<1>3. ASSUME NEW f, IsName(f) PROVE Takes(w, <<"make", f, f>>, {}, {}) \/ ~Signable(f)
  <2>1. Signable(f) => Legal(w, <<"make", f, f>>)
    BY <1>3 DEF Legal, IsName
  <2>2. Need(w, <<"make", f, f>>) = {}
    BY NeedIs
  <2> QED
    BY <2>1, <2>2, TakesNothing
<1>4. ASSUME NEW r, NEW t PROVE Takes(w, <<"copy", r, <<"out", t>>>>, {}, {})
  <2>1. IsName(<<"out", t>>) /\ <<"out", t>>[1] = "out"
    BY IsSeqShort DEF IsName
  <2>2. SameHead(r, <<"out", t>>)
    BY <2>1 DEF SameHead, Plain, Signers
  <2>3. Legal(w, <<"copy", r, <<"out", t>>>>) /\ Need(w, <<"copy", r, <<"out", t>>>>) = {}
    BY <2>2, LegalIs, NeedIs
  <2> QED
    BY <2>3, TakesNothing
<1> QED
  BY <1>1, <1>2, <1>3, <1>4

LEMMA AppletsLead ==
  ASSUME NEW w
  PROVE  /\ Leads(w, T23!BootMb2Applet, {}, {}) /\ Leads(w, T23!PollAppletBl, {}, {})
         /\ Leads(w, T23!GetStorageInfo, {}, {}) /\ Leads(w, T23!ReadFusesFromApplet, {}, {})
         /\ \A a : Leads(w, T23!DumpFromApplet(a), {}, {})
<1>0. Leads(w, <<>>, {}, {}) /\ Takes(w, <<"tool">>, {}, {}) /\ Leads(w, <<<<"tool">>>>, {}, {})
      /\ Takes(w, <<"raise">>, {}, {}) /\ Leads(w, <<<<"raise">>>>, {}, {})
  BY LeadsNone, LeadsOne, TakesFree DEF Free
<1>1. Leads(w, T23!BootMb2Applet, {}, {})
  <2>1. T23!BootMb2Applet = <<<<"call", "send_mb2_applet", <<>>>>, <<"poll", {"mb2applet"}, MaxPolls, <<>>>>>>
    BY DEF T23!BootMb2Applet, T23!Call
  <2>2. LegalCall("send_mb2_applet", <<>>) /\ "send_mb2_applet" \in Methods \ {"send_to_bootrom", "send_to_bootloader"}
    BY DEF LegalCall, Methods, Later23
  <2>3. Takes(w, <<"call", "send_mb2_applet", <<>>>>, {}, {})
    BY <2>2, TakesCalls
  <2>4. Takes(w, <<"poll", {"mb2applet"}, MaxPolls, <<>>>>, {}, {})
    BY TakesOthers
  <2> QED
    BY <2>1, <2>3, <2>4, LeadsTwo
<1>2. Leads(w, T23!PollAppletBl, {}, {})
  <2>1. T23!PollAppletBl = <<<<"poll", {"mb2applet", "mb2"}, MaxPolls, <<<<"raise">>>>>>>>
    BY DEF T23!PollAppletBl, T23!Raising
  <2> QED
    BY <2>1, TakesOthers, LeadsOne
<1>3. Leads(w, T23!GetStorageInfo, {}, {})
  <2>1. T23!GetStorageInfo = <<<<"tool">>>> \o <<<<"except", <<>>>>>>
    BY DEF T23!GetStorageInfo, T23!RunTool
  <2>2. Leads(w, <<<<"except", <<>>>>>>, {}, {})
    BY TakesOthers, LeadsOne
  <2> QED
    BY <1>0, <2>1, <2>2, LeadsJoin
<1>4. IsName(<<"cvm">>) /\ Signable(<<"cvm">>) /\ IsName(<<"custinfo">>) /\ Signable(<<"custinfo">>)
      /\ IsName(<<"fuses">>) /\ Signable(<<"fuses">>)
  <2>1. IsName(<<"cvm">>) /\ Signable(<<"cvm">>)
    BY OneName
  <2>2. IsName(<<"custinfo">>) /\ Signable(<<"custinfo">>)
    BY OneName
  <2>3. IsName(<<"fuses">>) /\ Signable(<<"fuses">>)
    BY OneName
  <2> QED
    BY <2>1, <2>2, <2>3
<1>5. Takes(w, Cvm, {}, {}) /\ Takes(w, <<"make", <<"custinfo">>, <<"custinfo">>>>, {}, {})
      /\ Takes(w, <<"make", <<"fuses">>, <<"fuses">>>>, {}, {})
  BY <1>4, TakesOthers DEF Cvm
<1>6. Leads(w, T23!ReadFusesFromApplet, {}, {})
  <2>1. T23!ReadFusesFromApplet = IF T23!Mb2Applet
            THEN <<<<"tool">>>> \o <<<<"tool">>>> \o <<<<"make", <<"fuses">>, <<"fuses">>>>>> ELSE <<>>
    BY DEF T23!ReadFusesFromApplet, T23!RunTool
  <2>2. Leads(w, <<<<"make", <<"fuses">>, <<"fuses">>>>>>, {}, {})
    BY <1>5, LeadsOne
  <2>3. Leads(w, <<<<"tool">>>> \o <<<<"tool">>>> \o <<<<"make", <<"fuses">>, <<"fuses">>>>>>, {}, {})
    BY <1>0, <2>2, LeadsJoin
  <2> QED
    BY <1>0, <2>1, <2>3
<1>7. ASSUME NEW a PROVE Leads(w, T23!DumpFromApplet(a), {}, {})
  <2>1. Leads(w, T23!DumpEeprom, {}, {})
    <3>1. T23!DumpEeprom = <<<<"chipinfo">>, <<"except", <<<<"chipinfo">>>>>>>> \o <<Cvm, <<"except", <<Cvm>>>>>>
      BY DEF T23!DumpEeprom, T23!FetchChipInfo, Cvm
    <3>2. Takes(w, <<"chipinfo">>, {}, {})
      BY TakesFree DEF Free
    <3>3. Takes(w, <<"except", <<<<"chipinfo">>>>>>, {}, {}) /\ Takes(w, <<"except", <<Cvm>>>>, {}, {})
      BY TakesOthers
    <3>4. Leads(w, <<<<"chipinfo">>, <<"except", <<<<"chipinfo">>>>>>>>, {}, {})
      BY <3>2, <3>3, LeadsTwo
    <3>5. Leads(w, <<Cvm, <<"except", <<Cvm>>>>>>, {}, {})
      BY <1>5, <3>3, LeadsTwo
    <3> QED
      BY <3>1, <3>4, <3>5, LeadsJoin
  <2>2. Leads(w, T23!DumpCustinfo, {}, {})
    <3>1. T23!DumpCustinfo = <<<<"tool">>>> \o <<<<"make", <<"custinfo">>, <<"custinfo">>>>>>
      BY DEF T23!DumpCustinfo, T23!RunTool
    <3>2. Leads(w, <<<<"make", <<"custinfo">>, <<"custinfo">>>>>>, {}, {})
      BY <1>5, LeadsOne
    <3> QED
      BY <1>0, <3>1, <3>2, LeadsJoin
  <2>3. T23!DumpFromApplet(a) \in {<<>>, T23!DumpEeprom, T23!DumpCustinfo, <<<<"raise">>>>}
    BY DEF T23!DumpFromApplet, T23!Raising
  <2> QED
    BY <1>0, <2>1, <2>2, <2>3
<1> QED
  BY <1>1, <1>2, <1>3, <1>6, <1>7

LEMMA WritesLead ==
  ASSUME NEW w
  PROVE  /\ \A p : Leads(w, T23!SparseUpdatePart(p), {}, {})
         /\ Leads(w, T23!FlashPartitions, {}, {}) /\ Leads(w, T23!FlashBct, {}, {})
         /\ \A p, r : Leads(w, T23!EraseAndWrite(p, r), {}, {})
<1>0. Leads(w, <<>>, {}, {}) /\ Leads(w, <<<<"tool">>>>, {}, {}) /\ Leads(w, <<<<"create">>>>, {}, {})
  BY LeadsNone, LeadsOne, TakesFree DEF Free
<1>1. \A p, r : Takes(w, <<"write", p, r>>, {}, {}) /\ Takes(w, <<"erase", p>>, {}, {})
  BY TakesFree DEF Free
<1>2. \A p, r : Leads(w, <<<<"write", p, r>>>>, {}, {}) /\ Leads(w, <<<<"erase", p>>, <<"write", p, r>>>>, {}, {})
  BY <1>1, LeadsOne, LeadsTwo
<1>3. ASSUME NEW p PROVE Leads(w, T23!SparseUpdatePart(p), {}, {})
  <2> DEFINE c == part[p] # T23!Contents(T23!P(p))
             s == <<<<"erase", p>>, <<"write", p, T23!P(p)>>>>
  <2>1. T23!SparseUpdatePart(p) = <<<<"tool">>>> \o T23!When(c, s)
    BY DEF T23!SparseUpdatePart
  <2>2. Leads(w, s, {}, {})
    BY <1>2
  <2> HIDE DEF c, s
  <2>3. Leads(w, T23!When(c, s), {}, {})
    BY <2>2, LeadsWhen
  <2> QED
    BY <1>0, <2>1, <2>3, LeadsJoin
<1>4. Leads(w, T23!FlashPartitions, {}, {})
  <2> DEFINE sparse == opt.sparse /\ T23!CompareGPTOfQspi
             s == T23!SparseUpdateQspi
             o == <<<<"write", "kernel_dtb", T23!P("kernel_dtb")>>>>
             j == <<<<"create">>>> \o T23!When(opt.gpt_backup, <<<<"tool">>>>)
  <2>1. T23!FlashPartitions = <<<<"tool">>>> \o (IF sparse THEN s \o o ELSE j)
    BY DEF T23!FlashPartitions, T23!RunTool, T23!OtherDevice, T23!JustFlash, T23!FlashSecondaryGptBackup
  <2>2. Leads(w, s, {}, {})
    <3> DEFINE b(i) == <<"mb1", "psc", "mb2", "dce", "bpmp_dtb">>[i]
               Z == {<<"call", "sparse_update_part", b(i)>> : i \in 1..5}
    <3>1. s = [i \in 1..5 |-> <<"call", "sparse_update_part", b(i)>>]
      BY DEF T23!SparseUpdateQspi, T23!CallWith
    <3> HIDE DEF b, s
    <3>2. s \in Seq(Z) /\ Len(s) = 5 /\ \A i \in 1..Len(s) : s[i] = <<"call", "sparse_update_part", b(i)>>
      BY <3>1
    <3>3. \A a : LegalCall("sparse_update_part", a)
      BY DEF LegalCall, Methods, Later23
    <3>4. "sparse_update_part" \in Methods \ {"send_to_bootrom", "send_to_bootloader"}
      BY DEF Methods, Later23
    <3>5. \A a : Takes(w, <<"call", "sparse_update_part", a>>, {}, {})
      BY <3>3, <3>4, TakesCalls
    <3> HIDE DEF Z
    <3>6. \A i \in 1..Len(s) : Takes(w, s[i], {}, {})
      BY <3>2, <3>5
    <3> QED
      BY <3>2, <3>6, LeadsEach
  <2>3. Leads(w, o, {}, {})
    BY <1>2
  <2>4. Leads(w, j, {}, {})
    <3>1. Leads(w, T23!When(opt.gpt_backup, <<<<"tool">>>>), {}, {})
      BY <1>0, LeadsWhen
    <3> QED
      BY <1>0, <3>1, LeadsJoin
  <2> HIDE DEF sparse, s, o, j
  <2>5. Leads(w, s \o o, {}, {})
    BY <2>2, <2>3, LeadsJoin
  <2>6. Leads(w, IF sparse THEN s \o o ELSE j, {}, {})
    BY <2>4, <2>5
  <2> QED
    BY <1>0, <2>1, <2>6, LeadsJoin
<1>5. Leads(w, T23!FlashBct, {}, {})
  <2> DEFINE key == T23!ChainKey(opt.chain)
             r == T23!K(IF kept[key] # T23!None THEN key ELSE "bct")
             a == <<<<"write", "BCT", r>>>>
             c1 == opt.backup /\ kept.backup # T23!None
             b == T23!When(c1, <<<<"write", "BCT_backup", T23!K("backup")>>>>)
             c2 == kept.mb1_cold_boot_bct # T23!None
             c == T23!When(c2, <<<<"write", "MB1_BCT", T23!K("mb1_cold_boot_bct")>>>>)
             c3 == kept.membct_cold_boot # T23!None
             d == T23!When(c3, <<<<"write", "MEM_BCT", T23!K("membct_cold_boot")>>>>)
  <2>1. T23!FlashBct = a \o b \o c \o d
    BY DEF T23!FlashBct
  <2> HIDE DEF r, c1, c2, c3
  <2>2. Leads(w, a, {}, {})
    BY <1>2
  <2>3. Leads(w, b, {}, {})
    BY <1>2, LeadsWhen
  <2>4. Leads(w, c, {}, {})
    BY <1>2, LeadsWhen
  <2>5. Leads(w, d, {}, {})
    BY <1>2, LeadsWhen
  <2> HIDE DEF a, b, c, d
  <2> QED
    BY <2>1, <2>2, <2>3, <2>4, <2>5, LeadsJoin
<1>6. \A p, r : Leads(w, T23!EraseAndWrite(p, r), {}, {})
  BY <1>2 DEF T23!EraseAndWrite
<1> QED
  BY <1>3, <1>4, <1>5, <1>6

\* A file of the caller is combined with what belongs to its partition.
LEMMA CombinedNames ==
  ASSUME NEW p, NEW f, IsName(f), f[1] # "aligned"
  PROVE  IsName(T23!Combined(p, f)) /\ T23!Combined(p, f)[1] # "aligned"
<1>1. Named(f, f[1])
  BY DEF Named
<1>2. \A x : Named(f \o <<x>>, f[1])
  BY <1>1, Appended
<1> QED
  BY <1>1, <1>2 DEF T23!Combined, Named

LEMMA CombinationsLead ==
  ASSUME NEW w, NEW p, NEW f, IsName(f)
  PROVE  Leads(w, T23!ConcatPartition(p, f), {}, {}) /\ Leads(w, T23!Mb2Partition(p, f), {}, {})
<1>0. Leads(w, <<>>, {}, {}) /\ Leads(w, <<<<"crash">>>>, {}, {}) /\ Leads(w, <<<<"raise">>>>, {}, {})
  BY LeadsNone, LeadsOne, TakesFree DEF Free
<1>1. \A b, x : x # "unsigned" => Leads(w, T23!Concatenate(f, b, x), {}, {})
  BY ConcatenateInBase
<1>2. Leads(w, T23!ConcatPartition(p, f), {}, {})
  <2>1. T23!ConcatPartition(p, f) \in {<<>>, <<<<"crash">>>>, T23!Concatenate(f, "with_kernel_dtb", "dtb")}
    BY DEF T23!ConcatPartition, T23!Crashing, T23!ConcatenateDcebinKerneldtb
  <2> QED
    BY <1>0, <1>1, <2>1
<1>3. Leads(w, T23!Mb2Partition(p, f), {}, {})
  <2> DEFINE a == <<<<"call", "generate_mb2_bct", <<>>>>>>
             b == T23!Concatenate(f, "with_mb2_bct", "mb2bct")
  <2>1. T23!Mb2Partition(p, f) \in {<<>>, <<<<"raise">>>>, a \o b}
    BY DEF T23!Mb2Partition, T23!Raising, T23!Call, T23!ConcatenateMb2bctMb2
  <2>2. Takes(w, <<"call", "generate_mb2_bct", <<>>>>, {}, {})
    <3>1. "generate_mb2_bct" \in Neutral
      BY DEF Neutral
    <3> QED
      BY <3>1, TakesNeutral
  <2>3. Leads(w, a, {}, {}) /\ Leads(w, b, {}, {})
    BY <1>1, <2>2, LeadsOne
  <2> HIDE DEF a, b
  <2>4. Leads(w, a \o b, {}, {})
    BY <2>3, LeadsJoin
  <2> QED
    BY <1>0, <2>1, <2>4
<1> QED
  BY <1>2, <1>3

LEMMA FilesLead ==
  ASSUME NEW w, NEW p, NEW f, IsName(f), f[1] # "aligned"
  PROVE  Leads(w, T23!SignWriteFile(p, f), {}, {}) /\ Leads(w, T23!WriteFile(p, f), {}, {})
<1> DEFINE a == T23!ConcatPartition(p, f)
           b == T23!Mb2Partition(p, f)
           g == T23!Combined(p, f)
           c == <<<<"call", "oem_sign_file", <<g, p>>>>>>
           d == T23!EraseAndWrite(p, T23!F(T23!OemSigned(g)))
           e == T23!EraseAndWrite(p, T23!F(g))
<1>1. Leads(w, a, {}, {}) /\ Leads(w, b, {}, {})
  BY CombinationsLead
<1>2. IsName(g) /\ g[1] # "aligned"
  BY CombinedNames
<1>3. Leads(w, d, {}, {}) /\ Leads(w, e, {}, {})
  BY WritesLead
<1>4. T23!SignWriteFile(p, f) = a \o b \o c \o d
  BY DEF T23!SignWriteFile, T23!CallWith
<1>5. T23!WriteFile(p, f) = IF p = "BCT" THEN T23!WriteBct(p) ELSE a \o b \o e
  BY DEF T23!WriteFile
<1> HIDE DEF a, b, g, d, e
<1>6. Leads(w, c, {}, {})
  <2>1. Takes(w, <<"call", "oem_sign_file", <<g, p>>>>, {}, Rest({}, g))
    BY <1>2, TakesSigningCall
  <2>2. Takes(w, <<"call", "oem_sign_file", <<g, p>>>>, {}, {})
    BY <2>1, TakesFrom
  <2> QED
    BY <2>2, LeadsOne
<1> HIDE DEF c
<1>7. Leads(w, a \o b \o c \o d, {}, {}) /\ Leads(w, a \o b \o e, {}, {})
  BY <1>1, <1>3, <1>6, LeadsJoin
<1>8. Leads(w, T23!WriteBct(p), {}, {})
  <2> DEFINE key == T23!ChainKey(opt.chain)
             c1 == kept[key] = T23!None
             s1 == <<<<"call", "multi_chain", <<FALSE, TRUE>>>>>>
             s2 == T23!EraseAndWrite("BCT_backup", T23!K("backup"))
             s3 == T23!EraseAndWrite("BCT", T23!K(key))
  <2>1. T23!WriteBct(p) = T23!When(c1, s1) \o T23!When(opt.backup, s2) \o s3
    BY DEF T23!WriteBct, T23!CallWith
  <2>2. Leads(w, s1, {}, {})
    <3>1. LegalCall("multi_chain", <<FALSE, TRUE>>) /\ "multi_chain" \in Methods \ {"send_to_bootrom", "send_to_bootloader"}
      BY DEF LegalCall, Methods
    <3> QED
      BY <3>1, TakesCalls, LeadsOne
  <2>3. Leads(w, s2, {}, {}) /\ Leads(w, s3, {}, {})
    BY WritesLead
  <2> HIDE DEF c1, s1, s2, s3
  <2>4. Leads(w, T23!When(c1, s1), {}, {}) /\ Leads(w, T23!When(opt.backup, s2), {}, {})
    BY <2>2, <2>3, LeadsWhen
  <2> QED
    BY <2>1, <2>3, <2>4, LeadsJoin
<1> QED
  BY <1>4, <1>5, <1>7, <1>8

LEMMA OutLeads ==
  ASSUME NEW w
  PROVE  Leads(w, T23!EncryptSignBrBct, {}, {}) /\ Leads(w, T23!SignCopies, {}, {})
<1>0. Leads(w, <<>>, {}, {}) /\ Leads(w, <<<<"tool">>>>, {}, {}) /\ Leads(w, <<<<"raise">>>>, {}, {})
      /\ Leads(w, <<<<"crash">>>>, {}, {})
  BY LeadsNone, LeadsOne, TakesFree DEF Free
<1>1. Leads(w, T23!EncryptSignBrBct, {}, {})
  <2> DEFINE a == <<"call", "parse_partitionlayout", <<>>>>
             b == <<"call", "sign_images", TRUE>>
             c == <<"call", "multi_chain", <<FALSE, TRUE>>>>
             d == <<"call", "update_images", <<>>>>
  <2>1. T23!EncryptSignBrBct = IF opt.mode # "zerosbk" THEN <<<<"raise">>>> ELSE <<a, b, c, d>>
    BY DEF T23!EncryptSignBrBct, T23!Call, T23!CallWith, T23!Raising
  <2>2. LegalCall("parse_partitionlayout", <<>>) /\ LegalCall("sign_images", TRUE)
        /\ LegalCall("multi_chain", <<FALSE, TRUE>>) /\ LegalCall("update_images", <<>>)
    BY DEF LegalCall, Methods, Neutral, Layouting
  <2>3. {"parse_partitionlayout", "sign_images", "multi_chain", "update_images"}
           \subseteq Methods \ {"send_to_bootrom", "send_to_bootloader"}
    BY DEF Methods, Neutral, Layouting
  <2>4. Takes(w, a, {}, {}) /\ Takes(w, b, {}, {}) /\ Takes(w, c, {}, {}) /\ Takes(w, d, {}, {})
    BY <2>2, <2>3, TakesCalls
  <2> HIDE DEF a, b, c, d
  <2>5. Leads(w, <<a, b, c, d>>, {}, {})
    BY <2>4, LeadsFour
  <2> QED
    BY <1>0, <2>1, <2>5
<1>2. \A r, t : Takes(w, <<"copy", r, <<"out", t>>>>, {}, {})
  BY TakesOthers
<1>3. ASSUME NEW k, NEW t PROVE Leads(w, T23!CopyKept(k, t), {}, {})
  <2>1. T23!CopyKept(k, t) = T23!When(kept[k] # T23!None, <<<<"copy", T23!K(k), <<"out", t>>>>>>)
    BY DEF T23!CopyKept, T23!SignedDir
  <2>2. Leads(w, <<<<"copy", T23!K(k), <<"out", t>>>>>>, {}, {})
    BY <1>2, LeadsOne
  <2> QED
    BY <2>1, <2>2, LeadsWhen
<1>4. Leads(w, T23!CopySignedBinaries, {}, {})
  <2> DEFINE a(x) == <<"copy", T23!S(x), <<"out", x>>>>
  <2>1. T23!CopySignedBinaries = <<a("mb1"), a("psc"), a("mb2"), a("dce")>>
    BY DEF T23!CopySignedBinaries, T23!SignedDir
  <2>2. \A x : Takes(w, a(x), {}, {})
    BY <1>2
  <2> HIDE DEF a
  <2> QED
    BY <2>1, <2>2, LeadsFour
<1>5. Leads(w, T23!CopyBrBctMultiChain, {}, {})
  <2> DEFINE a == <<"copy", T23!K("chain_A"), <<"out", "BCT">>>>
             b == <<"copy", T23!K("backup"), <<"out", "BCT_backup">>>>
             c == kept.backup # T23!None
  <2>1. T23!CopyBrBctMultiChain = <<a>> \o T23!When(c, <<b>>)
    BY DEF T23!CopyBrBctMultiChain, T23!SignedDir
  <2>2. Takes(w, a, {}, {}) /\ Takes(w, b, {}, {})
    BY <1>2
  <2> HIDE DEF a, b, c
  <2>3. Leads(w, <<a>>, {}, {}) /\ Leads(w, <<b>>, {}, {})
    BY <2>2, LeadsOne
  <2>4. Leads(w, T23!When(c, <<b>>), {}, {})
    BY <2>3, LeadsWhen
  <2> QED
    BY <2>1, <2>3, <2>4, LeadsJoin
<1>6. Leads(w, T23!SignCopies, {}, {})
  <2> DEFINE a == T23!CopySignedBinaries
             b == T23!CopyBrBctMultiChain
             d == T23!CopyKept("mb1_bct", "mb1_bct")
             e == T23!CopyKept("mb1_cold_boot_bct", "MB1_BCT")
             f == T23!CopyKept("membct_rcm", "membct_rcm")
             g == T23!CopyKept("membct_cold_boot", "MEM_BCT")
             h == <<<<"tool">>>>
  <2>1. T23!SignCopies = a \o b \o d \o e \o f \o g \o h
    BY DEF T23!SignCopies, T23!RunTool
  <2>2. Leads(w, d, {}, {}) /\ Leads(w, e, {}, {}) /\ Leads(w, f, {}, {}) /\ Leads(w, g, {}, {})
    BY <1>3
  <2>3. Leads(w, h, {}, {})
    BY <1>0
  <2> HIDE DEF a, b, d, e, f, g, h
  <2>4. Leads(w, a, {}, {}) /\ Leads(w, b, {}, {})
    BY <1>4, <1>5 DEF a, b
  <2>5. Leads(w, a \o b \o d, {}, {})
    BY <2>2, <2>4, LeadsJoin
  <2>6. Leads(w, a \o b \o d \o e \o f \o g \o h, {}, {})
    BY <2>2, <2>3, <2>5, LeadsJoin
  <2> QED
    BY <2>1, <2>6
<1> QED
  BY <1>1, <1>6

-----------------------------------------------------------------------------
(* All methods.                                                            *)

Grounded(w, X) ==
    /\ w.encrypt = opt.encrypt /\ w.asks = asks /\ X \subseteq Facts
    /\ LayoutNames /\ ValueNames /\ T23!Ramcode # "unsigned"
    /\ <<"kept", "pt">> \in X => kept.pt # None
    /\ <<"val", "raw">> \in X => val.rawkerneldtb # None

LEMMA LayoutingLeads ==
  ASSUME NEW w, NEW X, Grounded(w, X), NEW m \in Layouting, NEW a
  PROVE  Leads(w, T23!Method(m, a), X, AfterCall(w, m, a, X))
<1>0. X \subseteq Facts /\ LayoutNames /\ ValueNames
  BY DEF Grounded
<1> DEFINE B == X \cap Base
<1>1. B \subseteq Base /\ B \subseteq X
  OBVIOUS
<1>2. CASE m \in {"parse_partitionlayout", "parse_without_dce"}
  <2>1. AfterCall(w, m, a, X) = Base
    BY <1>2 DEF AfterCall, Neutral
  <2>2. T23!Method(m, a) \in {T23!ParsePartitionlayout(TRUE), T23!ParsePartitionlayout(FALSE)}
    BY <1>2 DEF T23!Method
  <2>3. Leads(w, T23!ParsePartitionlayout(TRUE), X, Base) /\ Leads(w, T23!ParsePartitionlayout(FALSE), X, Base)
    BY <1>0, ParsePartitionlayoutLeads
  <2> QED
    BY <2>1, <2>2, <2>3
<1>3. CASE m \notin {"parse_partitionlayout", "parse_without_dce"}
  <2>1. AfterCall(w, m, a, X) = B
    BY <1>3 DEF AfterCall, Neutral, Layouting
  <2> HIDE DEF B
  <2>2. T23!Method(m, a) \in {T23!UpdateBpmpDtb, T23!UpdateKernelDtb, T23!UpdateCpublDtb, T23!ConcatOverlayDtb,
                             T23!ConcatenateCpublBldtb, T23!CombineMb2, T23!CombineDce}
    BY <1>3 DEF T23!Method, Layouting
  <2>3. Leads(w, T23!UpdateBpmpDtb, B, B) /\ Leads(w, T23!UpdateKernelDtb, B, B)
        /\ Leads(w, T23!UpdateCpublDtb, B, B)
    BY <1>0, <1>1, UpdatesLead
  <2>4. Leads(w, T23!ConcatOverlayDtb, B, B) /\ Leads(w, T23!ConcatenateCpublBldtb, B, B)
        /\ Leads(w, T23!CombineMb2, B, B) /\ Leads(w, T23!CombineDce, B, B)
    BY <1>0, <1>1, CombinesLead
  <2>5. Leads(w, T23!Method(m, a), B, B)
    BY <2>2, <2>3, <2>4
  <2> QED
    BY <1>1, <2>1, <2>5, LeadsFrom
<1> QED
  BY <1>2, <1>3

LEMMA LaterLeads ==
  ASSUME NEW w, NEW X, Grounded(w, X), NEW m \in Later23, NEW a, LegalCall(m, a),
         Need(w, <<"call", m, a>>) \subseteq X
  PROVE  Leads(w, T23!Method(m, a), X, AfterCall(w, m, a, X))
<1>0. X \subseteq Facts /\ w.encrypt = opt.encrypt /\ {} \subseteq X
  BY DEF Grounded
<1>1. AfterCall(w, m, a, X) = {}
  BY DEF AfterCall, Neutral, Layouting, Later23
<1>2. \A s : Leads(w, s, {}, {}) \/ Leads(w, s, X, {}) => Leads(w, s, X, {})
  BY <1>0, LeadsFrom
<1>3. CASE m = "send_to_bootloader"
  <2>1. a = TRUE
    BY <1>3 DEF LegalCall
  <2>2. Need(w, <<"call", m, a>>) = MemBct \cup {<<"val", "raw">>}
    BY <1>3, NeedIs
  <2>3. val.rawkerneldtb # None
    BY <2>2 DEF Grounded
  <2>4. Leads(w, T23!SendToBootloader(TRUE), X, {})
    BY <1>0, <2>2, <2>3, SendToBootloaderLeads
  <2> QED
    BY <1>1, <1>3, <2>1, <2>4 DEF T23!Method
<1>4. CASE m = "send_mb2_applet"
  <2>1. Leads(w, T23!SendMb2Applet, X, {})
    BY <1>0, SendMb2AppletLeads
  <2> QED
    BY <1>1, <1>4, <2>1 DEF T23!Method
<1>5. CASE m \in {"boot_mb2_applet", "poll_applet_bl", "get_storage_info", "dump_from_applet", "read_fuses_from_applet"}
  <2>1. T23!Method(m, a) \in {T23!BootMb2Applet, T23!PollAppletBl, T23!GetStorageInfo, T23!DumpFromApplet(a),
                             T23!ReadFusesFromApplet}
    BY <1>5 DEF T23!Method
  <2>2. /\ Leads(w, T23!BootMb2Applet, {}, {}) /\ Leads(w, T23!PollAppletBl, {}, {})
        /\ Leads(w, T23!GetStorageInfo, {}, {}) /\ Leads(w, T23!ReadFusesFromApplet, {}, {})
        /\ Leads(w, T23!DumpFromApplet(a), {}, {})
    BY AppletsLead
  <2> QED
    BY <1>1, <1>2, <2>1, <2>2
<1>6. CASE m \in {"flash_partitions", "sparse_update_part", "flash_bct"}
  <2>1. T23!Method(m, a) \in {T23!FlashPartitions, T23!SparseUpdatePart(a), T23!FlashBct}
    BY <1>6 DEF T23!Method
  <2>2. Leads(w, T23!SparseUpdatePart(a), {}, {}) /\ Leads(w, T23!FlashPartitions, {}, {}) /\ Leads(w, T23!FlashBct, {}, {})
    BY WritesLead
  <2> QED
    BY <1>1, <1>2, <2>1, <2>2
<1>7. CASE m \in {"signwrite_file", "write_file"}
  <2>1. IsName(a[2]) /\ a[2][1] # "aligned"
    BY <1>7 DEF LegalCall
  <2>2. T23!Method(m, a) \in {T23!SignWriteFile(a[1], a[2]), T23!WriteFile(a[1], a[2])}
    BY <1>7 DEF T23!Method
  <2>3. Leads(w, T23!SignWriteFile(a[1], a[2]), {}, {}) /\ Leads(w, T23!WriteFile(a[1], a[2]), {}, {})
    BY <2>1, FilesLead
  <2> QED
    BY <1>1, <1>2, <2>2, <2>3
<1>8. CASE m \in {"encrypt_sign_br_bct", "sign_copies"}
  <2>1. T23!Method(m, a) \in {T23!EncryptSignBrBct, T23!SignCopies}
    BY <1>8 DEF T23!Method
  <2>2. Leads(w, T23!EncryptSignBrBct, {}, {}) /\ Leads(w, T23!SignCopies, {}, {})
    BY OutLeads
  <2> QED
    BY <1>1, <1>2, <2>1, <2>2
<1> QED
  BY <1>3, <1>4, <1>5, <1>6, <1>7, <1>8 DEF Later23

LEMMA SigningsLead ==
  ASSUME NEW w, NEW X, Grounded(w, X), NEW m \in Methods \ (Neutral \cup Layouting \cup Later23), NEW a, LegalCall(m, a),
         Need(w, <<"call", m, a>>) \subseteq X
  PROVE  Leads(w, T23!Method(m, a), X, AfterCall(w, m, a, X))
<1>0. /\ X \subseteq Facts /\ w.encrypt = opt.encrypt /\ w.asks = asks /\ T23!Ramcode # "unsigned"
      /\ <<"kept", "pt">> \in X => kept.pt # None
      /\ <<"val", "raw">> \in X => val.rawkerneldtb # None
  BY DEF Grounded
<1>1. CASE m = "sign_images"
  <2>1. T23!Method(m, a) = T23!SignImages(a)
    BY <1>1 DEF T23!Method
  <2>2. AfterCall(w, m, a, X) = (X \cap Base) \cup {<<"list", "signed">>}
    BY <1>1 DEF AfterCall, Neutral, Layouting
  <2>3. Named(layout["dce"], "dce")
    BY DEF Grounded, LayoutNames, Types
  <2> QED
    BY <1>0, <2>1, <2>2, <2>3, SignImagesLeads
<1>2. CASE m = "oem_sign_file"
  <2>1. T23!Method(m, a) = T23!OemSignFile(a[1], a[2])
    BY <1>2 DEF T23!Method
  <2>2. AfterCall(w, m, a, X) = AfterSigning(w, a[1], a[2] # "FSKP", X)
    BY <1>2 DEF AfterCall, Neutral, Layouting
  <2>3. IsName(a[1]) /\ a[1][1] # "aligned"
    BY <1>2 DEF LegalCall
  <2> QED
    BY <1>0, <2>1, <2>2, <2>3, OemSignFileLeads
<1>3. CASE m = "oem_encrypt_and_sign_file"
  <2>1. T23!Method(m, a) = T23!OemEncryptAndSignFile(a[1], a[2])
    BY <1>3 DEF T23!Method
  <2>2. AfterCall(w, m, a, X) = AfterSigning(w, a[1], ~a[2], X)
    BY <1>3 DEF AfterCall, Neutral, Layouting
  <2>3. IsName(a[1]) /\ a[1][1] # "aligned" /\ a[2] \in BOOLEAN
    BY <1>3 DEF LegalCall
  <2> QED
    BY <1>0, <2>1, <2>2, <2>3, OemEncryptAndSignFileLeads
<1>4. CASE m = "fill_mb1_storage_info"
  <2>1. T23!Method(m, a) = T23!FillMb1StorageInfo(a)
    BY <1>4 DEF T23!Method
  <2>2. AfterCall(w, m, a, X) = (X \cap (Base \cup {<<"list", "made">>, <<"kept", "chain_A">>})) \cup KeepBct
    BY <1>4 DEF AfterCall, Neutral, Layouting
  <2>3. a \in {"A", "B"}
    BY <1>4 DEF LegalCall
  <2> QED
    BY <1>0, <2>1, <2>2, <2>3, FillMb1StorageInfoLeads
<1>5. CASE m = "generate_br_bct"
  <2>1. T23!Method(m, a) = T23!GenerateBrBct(a)
    BY <1>5 DEF T23!Method
  <2>2. AfterCall(w, m, a, X) = AfterBrBct(X)
    BY <1>5 DEF AfterCall, Neutral, Layouting
  <2>3. a \in {"A", "B"}
    BY <1>5 DEF LegalCall
  <2> QED
    BY <1>0, <2>1, <2>2, <2>3, GenerateBrBctLeads
<1>6. CASE m = "multi_chain"
  <2>1. T23!Method(m, a) = T23!GenerateBrBctMultiChain(a[1], a[2])
    BY <1>6 DEF T23!Method
  <2>2. AfterCall(w, m, a, X) = AfterMultiChain(a[1], X)
    BY <1>6 DEF AfterCall, Neutral, Layouting
  <2>3. a = <<TRUE, FALSE>> \/ a = <<FALSE, TRUE>>
    BY <1>6 DEF LegalCall
  <2>4. CASE a = <<TRUE, FALSE>>
    <3>1. a[1] = TRUE /\ a[2] = FALSE
      BY <2>4
    <3>2. AfterMultiChain(TRUE, X) = X \cap (Base \cup {<<"list", "made">>})
      BY DEF AfterMultiChain
    <3> QED
      BY <1>0, <2>1, <2>2, <3>1, <3>2, MultiChainFills
  <2>5. CASE a = <<FALSE, TRUE>>
    <3>1. a[1] = FALSE /\ a[2] = TRUE
      BY <2>5
    <3> QED
      BY <1>0, <2>1, <2>2, <3>1, MultiChainGenerates
  <2> QED
    BY <2>3, <2>4, <2>5
<1>7. CASE m = "generate_bct"
  <2>1. T23!Method(m, a) = T23!GenerateBct
    BY <1>7 DEF T23!Method
  <2>2. AfterCall(w, m, a, X) = AfterMemBct(w, AfterMb1Bct(AfterMultiChain(FALSE, X)))
    BY <1>7 DEF AfterCall, Neutral, Layouting
  <2> QED
    BY <1>0, <2>1, <2>2, GenerateBctLeads
<1>8. CASE m = "generate_mb1_bct"
  <2>1. T23!Method(m, a) = T23!GenerateMb1Bct(a)
    BY <1>8 DEF T23!Method
  <2>2. AfterCall(w, m, a, X) = IF a THEN X ELSE AfterMb1Bct(X)
    BY <1>8 DEF AfterCall, Neutral, Layouting
  <2>3. a \in BOOLEAN
    BY <1>8 DEF LegalCall
  <2> QED
    BY <1>0, <2>1, <2>2, <2>3, GenerateMb1BctLeads
<1>9. CASE m = "generate_mem_bct"
  <2>1. T23!Method(m, a) = T23!GenerateMemBct(a)
    BY <1>9 DEF T23!Method
  <2>2. AfterCall(w, m, a, X) = IF a THEN X ELSE AfterMemBct(w, X)
    BY <1>9 DEF AfterCall, Neutral, Layouting
  <2>3. a \in BOOLEAN
    BY <1>9 DEF LegalCall
  <2> QED
    BY <1>0, <2>1, <2>2, <2>3, GenerateMemBctLeads
<1>10. CASE m = "send_to_bootrom"
  <2>1. T23!Method(m, a) = T23!SendToBootrom
    BY <1>10 DEF T23!Method
  <2>2. AfterCall(w, m, a, X) = X
    BY <1>10 DEF AfterCall, Neutral, Layouting
  <2>3. NeedRom \subseteq X
    BY <1>10, NeedIs
  <2> QED
    BY <1>0, <2>1, <2>2, <2>3, SendToBootromLeads
<1>11. CASE m = "generate_blob"
  <2>1. T23!Method(m, a) = T23!GenerateBlob(a)
    BY <1>11 DEF T23!Method
  <2>2. AfterCall(w, m, a, X) = AfterBlob(a, X)
    BY <1>11 DEF AfterCall, Neutral, Layouting
  <2>3. a \in BOOLEAN
    BY <1>11 DEF LegalCall
  <2> QED
    BY <1>0, <2>1, <2>2, <2>3, GenerateBlobLeads
<1> QED
  BY <1>1, <1>2, <1>3, <1>4, <1>5, <1>6, <1>7, <1>8, <1>9, <1>10, <1>11 DEF Methods

\* A call does what AfterCall says of it.
LEMMA MethodLeads ==
  ASSUME NEW w, NEW X, Grounded(w, X), NEW m, NEW a, LegalCall(m, a), Need(w, <<"call", m, a>>) \subseteq X
  PROVE  Leads(w, T23!Method(m, a), X, AfterCall(w, m, a, X))
<1>1. m \in Methods
  BY DEF LegalCall
<1>2. CASE m \in Neutral
  <2>1. AfterCall(w, m, a, X) = X
    BY <1>2 DEF AfterCall, Neutral, Layouting
  <2>2. X \subseteq Facts
    BY DEF Grounded
  <2> QED
    BY <1>2, <2>1, <2>2, NeutralLeads
<1>3. CASE m \in Layouting
  BY <1>3, LayoutingLeads
<1>4. CASE m \in Later23
  BY <1>4, LaterLeads
<1>5. CASE m \notin Neutral \cup Layouting \cup Later23
  BY <1>1, <1>5, SigningsLead
<1> QED
  BY <1>2, <1>3, <1>4, <1>5

-----------------------------------------------------------------------------
(* What most commands begin with.                                          *)

LEMMA CallsJoin ==
  ASSUME NEW s, NEW t, IsSeq(s), IsSeq(t)
  PROVE  T23!Calls(s \o t) = T23!Calls(s) \o T23!Calls(t)
<1> DEFINE c(m) == T23!Call(m)
           u == s \o t
           cs == T23!Calls(s)
           ct == T23!Calls(t)
           cu == T23!Calls(u)
           Z == {c(s[i]) : i \in DOMAIN s} \cup {c(t[i]) : i \in DOMAIN t}
<1>1. DOMAIN s = 1..Len(s) /\ DOMAIN t = 1..Len(t) /\ Len(s) \in Nat /\ Len(t) \in Nat
  BY IsSeqParts
<1>2. /\ IsSeq(u) /\ Len(u) = Len(s) + Len(t)
      /\ \A i \in 1..Len(s) : u[i] = s[i]
      /\ \A i \in 1..Len(t) : u[Len(s) + i] = t[i]
  BY IsSeqJoin
<1>3. DOMAIN u = 1..Len(u)
  BY <1>2, IsSeqParts
<1> HIDE DEF u
<1>4. cs = [i \in 1..Len(s) |-> c(s[i])] /\ ct = [i \in 1..Len(t) |-> c(t[i])] /\ cu = [i \in 1..Len(u) |-> c(u[i])]
  BY <1>1, <1>3 DEF T23!Calls
<1>5. (\A i \in 1..Len(s) : c(s[i]) \in Z) /\ (\A i \in 1..Len(t) : c(t[i]) \in Z)
  BY <1>1
<1> HIDE DEF c, cs, ct, cu, Z
<1>6. cs \in Seq(Z) /\ Len(cs) = Len(s) /\ \A i \in 1..Len(s) : cs[i] = c(s[i])
  BY <1>1, <1>4, <1>5
<1>7. ct \in Seq(Z) /\ Len(ct) = Len(t) /\ \A i \in 1..Len(t) : ct[i] = c(t[i])
  BY <1>1, <1>4, <1>5
<1>8. PICK v : v = cs \o ct
  OBVIOUS
<1>9. v \in Seq(Z) /\ Len(v) = Len(s) + Len(t)
  <2>1. v \in Seq(Z)
    BY <1>6, <1>7, <1>8, ConcatProperties
  <2>2. Len(v) = Len(cs) + Len(ct)
    BY <1>6, <1>7, <1>8, ConcatProperties
  <2> QED
    BY <1>6, <1>7, <2>1, <2>2
<1>10. \A i \in 1 .. Len(s) + Len(t) : v[i] = IF i <= Len(s) THEN cs[i] ELSE ct[i - Len(s)]
  BY <1>6, <1>7, <1>8, ConcatProperties
<1>11. ASSUME NEW i \in 1..Len(u) PROVE cu[i] = v[i] /\ cu[i] \in Z
  <2>1. CASE i <= Len(s)
    <3>1. i \in 1..Len(s) /\ u[i] = s[i] /\ v[i] = cs[i]
      BY <1>1, <1>2, <1>10, <2>1
    <3> QED
      BY <1>4, <1>5, <1>6, <3>1
  <2>2. CASE i > Len(s)
    <3>1. i - Len(s) \in 1..Len(t) /\ Len(s) + (i - Len(s)) = i
      BY <1>1, <1>2, <2>2
    <3>2. u[i] = t[i - Len(s)]
      BY <1>2, <3>1
    <3>3. v[i] = ct[i - Len(s)]
      BY <1>1, <1>2, <1>10, <2>2
    <3> QED
      BY <1>4, <1>5, <1>7, <3>1, <3>2, <3>3
  <2> QED
    BY <1>1, <1>2, <2>1, <2>2
<1>12. cu \in Seq(Z) /\ Len(cu) = Len(u)
  <2>1. Len(u) \in Nat
    BY <1>1, <1>2
  <2>2. \A i \in 1..Len(u) : cu[i] = c(u[i]) /\ c(u[i]) \in Z
    BY <1>4, <1>11
  <2> QED
    BY <1>4, <2>1, <2>2
<1>13. cu = v
  BY <1>2, <1>9, <1>11, <1>12, SeqEqual
<1> QED
  BY <1>8, <1>13 DEF u, cs, ct, cu

LEMMA FirstCalls ==
  ASSUME NEW w, NEW first \in {T23!Layout, T23!ConfigsLayout, T23!LayoutConfigs}
  PROVE  Leads(w, T23!Calls(<<"get_key_mode">> \o first), {}, Base)
<1> DEFINE key == T23!Calls(<<"get_key_mode">>)
           configs == T23!Calls(<<"preprocess_configs">>)
           lay == T23!Calls(T23!Layout)
<1>1. IsSeq(<<"get_key_mode">>) /\ IsSeq(<<"preprocess_configs">>) /\ IsSeq(T23!Layout)
  BY IsSeqShort DEF T23!Layout
<1>2. IsSeq(T23!ConfigsLayout) /\ IsSeq(T23!LayoutConfigs)
  BY <1>1, IsSeqJoin DEF T23!ConfigsLayout, T23!LayoutConfigs
<1>3. T23!Calls(T23!ConfigsLayout) = configs \o lay /\ T23!Calls(T23!LayoutConfigs) = lay \o configs
  BY <1>1, CallsJoin DEF T23!ConfigsLayout, T23!LayoutConfigs
<1>4. T23!Calls(<<"get_key_mode">> \o first) = key \o T23!Calls(first)
  BY <1>1, <1>2, CallsJoin
<1>5. key = <<<<"call", "get_key_mode", <<>>>>>> /\ configs = <<<<"call", "preprocess_configs", <<>>>>>>
  BY CallsAre
<1>6. lay = <<<<"call", "parse_partitionlayout", <<>>>>>>
  BY CallsAre DEF T23!Layout
<1>11. T23!Calls(first) \in {lay, configs \o lay, lay \o configs}
  BY <1>3
<1> HIDE DEF key, configs, lay
<1>7. \A X \in SUBSET Facts : Leads(w, key, X, X) /\ Leads(w, configs, X, X)
  <2>1. "get_key_mode" \in Neutral /\ "preprocess_configs" \in Neutral
    BY DEF Neutral
  <2> QED
    BY <1>5, <2>1, TakesNeutral, LeadsOne
<1>8. Leads(w, lay, {}, Base)
  <2>1. LegalCall("parse_partitionlayout", <<>>)
    BY DEF LegalCall, Methods, Layouting
  <2>2. Need(w, <<"call", "parse_partitionlayout", <<>>>>) = {}
    BY NeedIs
  <2>3. AfterCall(w, "parse_partitionlayout", <<>>, {}) = Base
    BY DEF AfterCall, Neutral
  <2>4. Takes(w, <<"call", "parse_partitionlayout", <<>>>>, {}, Base)
    BY <2>1, <2>2, <2>3, ChainFacts, TakesCall
  <2> QED
    BY <1>6, <2>4, LeadsOne
<1>9. Leads(w, key, {}, {}) /\ Leads(w, configs, {}, {}) /\ Leads(w, configs, Base, Base)
  BY <1>7, ChainFacts
<1>10. Leads(w, T23!Calls(first), {}, Base)
  <2>1. Leads(w, configs \o lay, {}, Base) /\ Leads(w, lay \o configs, {}, Base)
    BY <1>8, <1>9, LeadsJoin
  <2> QED
    BY <1>8, <1>11, <2>1
<1> QED
  BY <1>4, <1>9, <1>10, LeadsJoin

Prepared(w) == Base \cup NeedRom \cup If(~w.asks, MemBct)

LEMMA ImagesPrepared ==
  ASSUME NEW w, NEW bct_flag \in BOOLEAN
  PROVE  /\ Leads(w, <<<<"call", "sign_images", bct_flag>>>> \o T23!Calls(<<"generate_bct", "update_images">>), Base, Prepared(w))
         /\ Prepared(w) \subseteq Facts
<1> DEFINE X1 == Base \cup {<<"list", "signed">>}
           X2 == AfterMultiChain(FALSE, X1)
           X3 == AfterMb1Bct(X2)
           X4 == AfterMemBct(w, X3)
<1>0. Base \subseteq Facts /\ X1 \subseteq Facts /\ Mb1Bct \subseteq Facts /\ MemBct \subseteq Facts /\ KeepBct \subseteq Facts
  BY ChainFacts
<1>1. Takes(w, <<"call", "sign_images", bct_flag>>, Base, X1)
  <2>1. LegalCall("sign_images", bct_flag)
    BY DEF LegalCall, Methods
  <2>2. Need(w, <<"call", "sign_images", bct_flag>>) = {}
    BY NeedIs
  <2>3. AfterCall(w, "sign_images", bct_flag, Base) = X1
    BY DEF AfterCall, Neutral, Layouting
  <2> QED
    BY <1>0, <2>1, <2>2, <2>3, TakesCall
<1>2. X2 \subseteq Facts /\ X3 \subseteq Facts /\ X4 \subseteq Facts
  <2> HIDE DEF X1
  <2>1. X2 \subseteq Facts
    BY <1>0, TakesBctCalls
  <2> HIDE DEF X2
  <2>2. X3 \subseteq Facts
    BY <2>1, TakesBctCalls
  <2> HIDE DEF X3
  <2> QED
    BY <2>1, <2>2, TakesBctCalls
<1>3. \A x \in Base \cup KeepBct \cup {<<"list", "signed">>} : "br_bct" \notin Of(x)
  BY OfIs DEF Base, KeepBct
<1>3a. \A x \in Base \cup NeedRom : "mem_rcm" \notin Of(x) /\ "bpmp_dtb" \notin Of(x) /\ x # <<"kept", "membct_rcm">>
  BY OfIs DEF Base, NeedRom, KeepBct, Mb1Bct
<1>3b. \A x \in Base \cup NeedRom : x \notin Mb1Bct => "mb1_bct" \notin Of(x) /\ x # <<"kept", "mb1_bct">>
  BY OfIs DEF Base, NeedRom, KeepBct, Mb1Bct
<1>4. Base \cup {<<"list", "signed">>, <<"br", "good">>} \cup KeepBct \subseteq X2
  <2>1. X2 = Unwritten(X1 \ {<<"kept", "chain_A">>}, "br_bct") \cup KeepBct \cup If(<<"kept", "pt">> \in X1, Br({"good"}))
    BY DEF AfterMultiChain
  <2>2. <<"kept", "pt">> \in X1 /\ <<"kept", "chain_A">> \notin X1
    BY DEF Base
  <2>3. <<"br", "good">> \in Br({"good"})
    BY DEF Br
  <2>4. X1 \subseteq Unwritten(X1 \ {<<"kept", "chain_A">>}, "br_bct")
    BY <1>3, <2>2 DEF Unwritten
  <2> HIDE DEF X2
  <2> QED
    BY <2>1, <2>2, <2>3, <2>4 DEF If
<1> HIDE DEF X1, X2
<1>5. Base \cup NeedRom \subseteq X3
  <2>1. X3 = Unwritten(X2 \ {<<"kept", "mb1_bct">>}, "mb1_bct") \cup Mb1Bct
    BY DEF AfterMb1Bct
  <2>2. \A x \in Base \cup NeedRom : x \in X2 \/ x \in Mb1Bct
    BY <1>4 DEF NeedRom
  <2> HIDE DEF X3
  <2>3. ASSUME NEW x \in Base \cup NeedRom, x \notin Mb1Bct PROVE x \in X3
    <3>1. x \in X2 /\ "mb1_bct" \notin Of(x) /\ x # <<"kept", "mb1_bct">>
      BY <1>3b, <2>2, <2>3
    <3> QED
      BY <2>1, <3>1 DEF Unwritten
  <2> QED
    BY <2>1, <2>3
<1> HIDE DEF X3
<1>6. Prepared(w) \subseteq X4
  <2>1. CASE w.asks
    BY <1>5, <2>1 DEF Prepared, If, AfterMemBct
  <2>2. CASE ~w.asks
    <3>1. X4 = Unwritten(Unwritten(X3 \ {<<"kept", "membct_rcm">>}, "mem_rcm"), "bpmp_dtb") \cup MemBct
      BY <2>2 DEF AfterMemBct
    <3>2. Prepared(w) = Base \cup NeedRom \cup MemBct
      BY <2>2 DEF Prepared, If
    <3>4. ASSUME NEW x \in Base \cup NeedRom PROVE x \in X4
      <4>1. x \in X3 /\ "mem_rcm" \notin Of(x) /\ "bpmp_dtb" \notin Of(x) /\ x # <<"kept", "membct_rcm">>
        BY <1>3a, <1>5
      <4> QED
        BY <3>1, <4>1 DEF Unwritten
    <3> HIDE DEF X4
    <3> QED
      BY <3>1, <3>2, <3>4
  <2> QED
    BY <2>1, <2>2
<1>7. Prepared(w) \subseteq Facts
  BY <1>2, <1>6
<1>8. Takes(w, <<"call", "generate_bct", <<>>>>, X1, X4)
  <2>1. LegalCall("generate_bct", <<>>)
    BY DEF LegalCall, Methods
  <2>2. Need(w, <<"call", "generate_bct", <<>>>>) = {}
    BY NeedIs
  <2>3. AfterCall(w, "generate_bct", <<>>, X1) = X4
    BY DEF AfterCall, Neutral, Layouting, X2, X3
  <2> HIDE DEF X4
  <2> QED
    BY <1>0, <1>2, <2>1, <2>2, <2>3, TakesCall
<1> HIDE DEF X4
<1>9. Takes(w, <<"call", "update_images", <<>>>>, X4, X4)
  <2>1. "update_images" \in Neutral
    BY DEF Neutral
  <2> QED
    BY <1>2, <2>1, TakesNeutral
<1>10. T23!Calls(<<"generate_bct", "update_images">>) = <<<<"call", "generate_bct", <<>>>>, <<"call", "update_images", <<>>>>>>
  BY CallsAre
<1>11. Leads(w, T23!Calls(<<"generate_bct", "update_images">>), X1, X4)
  BY <1>8, <1>9, <1>10, LeadsTwo
<1>12. Leads(w, <<<<"call", "sign_images", bct_flag>>>>, Base, X1)
  BY <1>1, LeadsOne
<1> PICK t : t = T23!Calls(<<"generate_bct", "update_images">>)
  OBVIOUS
<1>13. Leads(w, <<<<"call", "sign_images", bct_flag>>>> \o t, Base, X4)
  BY <1>11, <1>12, LeadsJoin
<1>14. Leads(w, <<<<"call", "sign_images", bct_flag>>>> \o t, Base, Prepared(w))
  BY <1>6, <1>13, LeadsFrom
<1> QED
  BY <1>7, <1>14

-----------------------------------------------------------------------------
(* The programs of the commands.                                           *)

LEMMA IsSeqAssociative ==
  ASSUME NEW s, NEW t, NEW u, IsSeq(s), IsSeq(t), IsSeq(u)
  PROVE  (s \o t) \o u = s \o (t \o u)
<1> DEFINE Z == {s[i] : i \in DOMAIN s} \cup {t[i] : i \in DOMAIN t} \cup {u[i] : i \in DOMAIN u}
<1>1. s \in Seq(Z) /\ t \in Seq(Z) /\ u \in Seq(Z)
  BY IsSeqParts
<1> HIDE DEF Z
<1> QED
  BY <1>1, ConcatAssociative

LEMMA PrepareLeads ==
  ASSUME NEW w, NEW first \in {T23!Layout, T23!ConfigsLayout, T23!LayoutConfigs}
  PROVE  Leads(w, T23!PrepareFrom(first), {}, Prepared(w))
<1> DEFINE a == T23!Calls(<<"get_key_mode">> \o first)
           b == <<<<"call", "sign_images", TRUE>>>>
           c == T23!Calls(<<"generate_bct", "update_images">>)
<1>1. T23!PrepareFrom(first) = a \o b \o c
  BY DEF T23!PrepareFrom, T23!CallWith
<1>2. Leads(w, a, {}, Base) /\ Leads(w, b \o c, Base, Prepared(w))
  BY FirstCalls, ImagesPrepared
<1>3. (a \o b) \o c = a \o (b \o c)
  <2>1. \E Z : a \in Seq(Z)
    BY <1>2 DEF Leads
  <2>2. IsSeq(a)
    BY <2>1, IsSeqOf
  <2>3. IsSeq(b)
    BY IsSeqShort
  <2>4. c = <<<<"call", "generate_bct", <<>>>>, <<"call", "update_images", <<>>>>>>
    BY CallsAre
  <2>5. IsSeq(c)
    <3>1. PICK x, y : c = <<x, y>>
      BY <2>4
    <3> HIDE DEF c
    <3> QED
      BY <3>1, IsSeqShort
  <2> HIDE DEF a, b, c
  <2> QED
    BY <2>2, <2>3, <2>5, IsSeqAssociative
<1> HIDE DEF a, b, c
<1>4. Leads(w, a \o (b \o c), {}, Prepared(w))
  BY <1>2, LeadsJoin
<1> QED
  BY <1>1, <1>3, <1>4

LEMMA SendBothLeads ==
  ASSUME NEW w, ~w.asks
  PROVE  Leads(w, T23!SendBoth, Prepared(w), {})
<1> DEFINE X == Prepared(w)
           a == <<"call", "send_to_bootrom", <<>>>>
           b == <<"call", "send_to_bootloader", TRUE>>
<1>1. T23!SendBoth = <<a, b>>
  BY DEF T23!SendBoth, T23!Call, T23!CallWith
<1>2. NeedRom \subseteq X /\ MemBct \cup {<<"val", "raw">>} \subseteq X
  BY DEF Prepared, If, Base
<1>3. X \subseteq Facts
  BY ImagesPrepared
<1> HIDE DEF X
<1>4. Takes(w, a, X, X)
  <2>1. LegalCall("send_to_bootrom", <<>>)
    BY DEF LegalCall, Methods
  <2>2. Need(w, a) = NeedRom
    BY NeedIs
  <2>3. AfterCall(w, "send_to_bootrom", <<>>, X) = X
    BY DEF AfterCall, Neutral, Layouting
  <2> QED
    BY <1>2, <1>3, <2>1, <2>2, <2>3, TakesCall
<1>5. Takes(w, b, X, {})
  <2>1. LegalCall("send_to_bootloader", TRUE)
    BY DEF LegalCall, Methods, Later23
  <2>2. Need(w, b) = MemBct \cup {<<"val", "raw">>}
    BY NeedIs
  <2> QED
    BY <1>2, <1>3, <2>1, <2>2, TakesCall
<1> HIDE DEF a, b
<1>6. Leads(w, <<a, b>>, X, {})
  BY <1>4, <1>5, LeadsTwo
<1> QED
  BY <1>1, <1>6 DEF X

LEMMA TakesSimple ==
  ASSUME NEW w, NEW m \in {"get_storage_info", "poll_applet_bl", "flash_partitions", "flash_bct", "sign_copies",
                          "read_fuses_from_applet", "generate_bct", "update_images", "generate_mb2_bct",
                          "boot_mb2_applet", "encrypt_sign_br_bct", "parse_partitionlayout", "get_key_mode"}
  PROVE  Takes(w, <<"call", m, <<>>>>, {}, {})
<1>1. m \in Methods \ {"send_to_bootrom", "send_to_bootloader"}
  BY DEF Methods, Neutral, Layouting, Later23
<1>2. LegalCall(m, <<>>)
  BY <1>1 DEF LegalCall
<1> QED
  BY <1>1, <1>2, TakesCalls

LEMMA UpToMb2Leads ==
  ASSUME NEW w, ~w.asks, NEW first \in {T23!Layout, T23!ConfigsLayout, T23!LayoutConfigs}
  PROVE  Leads(w, T23!PrepareFrom(first) \o T23!SendBoth, {}, {}) /\ Leads(w, T23!UpToMb2(first), {}, {})
<1> DEFINE c == <<<<"call", "poll_applet_bl", <<>>>>>>
<1>1. Leads(w, T23!PrepareFrom(first) \o T23!SendBoth, {}, {})
  BY PrepareLeads, SendBothLeads, LeadsJoin
<1>2. T23!UpToMb2(first) = T23!PrepareFrom(first) \o T23!SendBoth \o c
  BY DEF T23!UpToMb2, T23!Call
<1>3. Leads(w, c, {}, {})
  BY TakesSimple, LeadsOne
<1> HIDE DEF c
<1> QED
  BY <1>1, <1>2, <1>3, LeadsJoin

LEMMA UpToAppletLeads ==
  ASSUME NEW w, NEW bct_flag \in BOOLEAN
  PROVE  Leads(w, T23!UpToApplet(bct_flag), {}, {})
<1> DEFINE V0 == Prepared(w)
           k == <<"call", "get_key_mode", <<>>>>
           p == <<"call", "preprocess_configs", <<>>>>
           l == <<"call", "parse_partitionlayout", <<>>>>
           a == T23!Calls(<<"get_key_mode", "preprocess_configs", "parse_partitionlayout">>)
           b == <<<<"call", "sign_images", bct_flag>>>>
           g == <<"call", "generate_bct", <<>>>>
           u == <<"call", "update_images", <<>>>>
           r == <<"call", "send_to_bootrom", <<>>>>
           m == <<"call", "boot_mb2_applet", <<>>>>
           c == T23!Calls(<<"generate_bct", "update_images", "send_to_bootrom", "boot_mb2_applet">>)
           d == T23!Calls(<<"generate_bct", "update_images">>)
<1>1. T23!UpToApplet(bct_flag) = a \o b \o c
  BY DEF T23!UpToApplet, T23!CallWith
<1>2. a = <<k, p, l>> /\ c = <<g, u, r, m>> /\ d = <<g, u>>
  BY CallsAre
<1>3. Leads(w, b \o d, Base, V0) /\ V0 \subseteq Facts
  BY ImagesPrepared
<1>4. NeedRom \subseteq V0
  BY DEF Prepared
<1> HIDE DEF V0
<1>5. Leads(w, a, {}, Base)
  <2>1. Takes(w, k, {}, {}) /\ Takes(w, p, {}, {})
    <3>1. "get_key_mode" \in Neutral /\ "preprocess_configs" \in Neutral
      BY DEF Neutral
    <3> QED
      BY <3>1, TakesNeutral
  <2>2. Takes(w, l, {}, Base)
    <3>1. LegalCall("parse_partitionlayout", <<>>)
      BY DEF LegalCall, Methods, Layouting
    <3>2. Need(w, l) = {}
      BY NeedIs
    <3>3. AfterCall(w, "parse_partitionlayout", <<>>, {}) = Base
      BY DEF AfterCall, Neutral
    <3> QED
      BY <3>1, <3>2, <3>3, ChainFacts, TakesCall
  <2> HIDE DEF k, p, l, a
  <2> QED
    BY <1>2, <2>1, <2>2, LeadsThree
<1>6. Takes(w, r, V0, V0)
  <2>1. LegalCall("send_to_bootrom", <<>>)
    BY DEF LegalCall, Methods
  <2>2. Need(w, r) = NeedRom
    BY NeedIs
  <2>3. AfterCall(w, "send_to_bootrom", <<>>, V0) = V0
    BY DEF AfterCall, Neutral, Layouting
  <2> QED
    BY <1>3, <1>4, <2>1, <2>2, <2>3, TakesCall
<1>7. Takes(w, m, V0, {})
  <2>1. LegalCall("boot_mb2_applet", <<>>)
    BY DEF LegalCall, Methods, Later23
  <2>2. Need(w, m) = {}
    BY NeedIs
  <2> QED
    BY <1>3, <2>1, <2>2, TakesCall
<1>8. IsSeq(b) /\ IsSeq(a)
  <2>1. \E Z : a \in Seq(Z)
    BY <1>5 DEF Leads
  <2> QED
    BY <2>1, IsSeqOf, IsSeqShort
<1>9. c = d \o <<r>> \o <<m>> /\ IsSeq(d) /\ IsSeq(<<r>>) /\ IsSeq(<<m>>)
  <2>1. <<g, u>> \o <<r>> = <<g, u, r>>
    BY Join2
  <2>2. <<g, u, r>> \o <<m>> = <<g, u, r, m>>
    BY Join3
  <2>3. IsSeq(<<g, u>>) /\ IsSeq(<<r>>) /\ IsSeq(<<m>>)
    BY IsSeqShort
  <2> HIDE DEF g, u, r, m, c, d
  <2> QED
    BY <1>2, <2>1, <2>2, <2>3
<1> HIDE DEF a, b, c, d, k, p, l, g, u, r, m
<1>10. b \o c = (b \o d) \o <<r>> \o <<m>>
  <2> DEFINE e == <<r>>
             h == <<m>>
  <2>1. IsSeq(e) /\ IsSeq(h) /\ IsSeq(d) /\ IsSeq(b) /\ c = d \o e \o h
    BY <1>8, <1>9
  <2> HIDE DEF e, h
  <2>2. IsSeq(d \o e)
    BY <2>1, IsSeqJoin
  <2>3. b \o ((d \o e) \o h) = (b \o (d \o e)) \o h
    <3>1. PICK de : de = d \o e
      OBVIOUS
    <3>3. IsSeq(de) /\ IsSeq(b) /\ IsSeq(h)
      BY <2>1, <2>2, <3>1
    <3>2. b \o (de \o h) = (b \o de) \o h
      BY <3>3, IsSeqAssociative
    <3> QED
      BY <3>1, <3>2
  <2>4. b \o (d \o e) = (b \o d) \o e
    BY <2>1, IsSeqAssociative
  <2>5. b \o c = (b \o d) \o e \o h
    BY <2>1, <2>3, <2>4
  <2> QED
    BY <2>5 DEF e, h
<1>11. Leads(w, b \o c, Base, {})
  <2>1. Leads(w, <<r>>, V0, V0) /\ Leads(w, <<m>>, V0, {})
    BY <1>6, <1>7, LeadsOne
  <2> QED
    BY <1>3, <1>10, <2>1, LeadsJoin
<1>12. a \o b \o c = a \o (b \o c)
  <2>1. IsSeq(c)
    <3>1. IsSeq(d \o <<r>>)
      BY <1>9, IsSeqJoin
    <3> QED
      BY <1>9, <3>1, IsSeqJoin
  <2> QED
    BY <1>8, <2>1, IsSeqAssociative
<1>13. Leads(w, a \o (b \o c), {}, {})
  BY <1>5, <1>11, LeadsJoin
<1> QED
  BY <1>1, <1>12, <1>13

-----------------------------------------------------------------------------
(* The commands of a session that does not sign what it is not told to.    *)

LEMMA ShortLeads ==
  ASSUME NEW w
  PROVE  /\ Leads(w, <<>>, {}, {}) /\ Leads(w, <<<<"tool">>>>, {}, {}) /\ Leads(w, <<<<"raise">>>>, {}, {})
         /\ Leads(w, <<<<"crash">>>>, {}, {}) /\ Leads(w, <<<<"caught">>>>, {}, {}) /\ Leads(w, <<<<"ask">>>>, {}, {})
         /\ \A a : Leads(w, <<<<"erase", a>>>>, {}, {}) /\ Leads(w, <<<<"reboot", a>>>>, {}, {})
         /\ \A r, t : Leads(w, <<<<"copy", r, <<"out", t>>>>>>, {}, {})
  BY LeadsNone, LeadsOne, TakesFree, TakesOthers DEF Free

LEMMA SigningCallLeads ==
  ASSUME NEW w, NEW f, LawfulFile(f)
  PROVE  \A type : Leads(w, <<<<"call", "oem_sign_file", <<f, type>>>>>>, {}, {})
                   /\ Takes(w, <<"call", "oem_sign_file", <<f, type>>>>, {}, {})
<1>1. \A type : Takes(w, <<"call", "oem_sign_file", <<f, type>>>>, {}, Rest({}, f))
  BY TakesSigningCall DEF LawfulFile
<1>2. \A type : Takes(w, <<"call", "oem_sign_file", <<f, type>>>>, {}, {})
  BY <1>1, TakesFrom
<1> QED
  BY <1>2, LeadsOne

LEMMA FlashProgramLeads ==
  ASSUME NEW w, ~w.asks, ~opt.secure
  PROVE  Leads(w, T23!Flash, {}, {}) /\ Leads(w, T23!RcmBoot, {}, {}) /\ Leads(w, T23!UfsOtp, {}, {})
         /\ Leads(w, T23!CcgUpdate, {}, {}) /\ Leads(w, T23!BurnFuses, {}, {})
<1>0. /\ T23!Layout \in {T23!Layout, T23!ConfigsLayout, T23!LayoutConfigs}
      /\ T23!ConfigsLayout \in {T23!Layout, T23!ConfigsLayout, T23!LayoutConfigs}
      /\ T23!LayoutConfigs \in {T23!Layout, T23!ConfigsLayout, T23!LayoutConfigs}
  OBVIOUS
<1> DEFINE up(first) == T23!PrepareFrom(first) \o T23!SendBoth
           tool == <<<<"tool">>>>
<1>1. Leads(w, up(T23!Layout), {}, {}) /\ Leads(w, up(T23!ConfigsLayout), {}, {})
      /\ Leads(w, T23!UpToMb2(T23!LayoutConfigs), {}, {})
  BY <1>0, UpToMb2Leads
<1>2. Leads(w, tool, {}, {}) /\ Leads(w, <<>>, {}, {})
  BY ShortLeads
<1>3. Leads(w, T23!Flash, {}, {})
  <2> DEFINE a == <<"call", "get_storage_info", <<>>>>
             b == <<"call", "poll_applet_bl", <<>>>>
             c == <<"call", "flash_partitions", <<>>>>
             d == <<"call", "flash_bct", <<>>>>
             l == T23!Calls(<<"get_storage_info", "poll_applet_bl", "flash_partitions", "flash_bct">>)
  <2>1. l = <<a, b, c, d>>
    BY CallsAre
  <2>2. Takes(w, a, {}, {}) /\ Takes(w, b, {}, {}) /\ Takes(w, c, {}, {}) /\ Takes(w, d, {}, {})
    BY TakesSimple
  <2>3. T23!Flash = up(T23!Layout) \o l
    BY DEF T23!Flash
  <2> HIDE DEF a, b, c, d, l, up
  <2>4. Leads(w, l, {}, {})
    BY <2>1, <2>2, LeadsFour
  <2> QED
    BY <1>1, <2>3, <2>4, LeadsJoin
<1>4. Leads(w, T23!RcmBoot, {}, {})
  BY <1>1 DEF T23!RcmBoot
<1>5. Leads(w, T23!UfsOtp, {}, {})
  <2>1. T23!UfsOtp = up(T23!Layout) \o tool \o tool
    BY DEF T23!UfsOtp, T23!RunTool
  <2> HIDE DEF up, tool
  <2> QED
    BY <1>1, <1>2, <2>1, LeadsJoin
<1>6. Leads(w, T23!CcgUpdate, {}, {})
  <2> DEFINE u == T23!UpToMb2(T23!LayoutConfigs)
  <2>1. T23!CcgUpdate = tool \o (u \o tool \o tool)
    BY DEF T23!CcgUpdate, T23!RunTool, T23!When
  <2> HIDE DEF tool, u
  <2>2. Leads(w, u \o tool \o tool, {}, {})
    BY <1>1, <1>2, LeadsJoin DEF u
  <2> QED
    BY <1>2, <2>1, <2>2, LeadsJoin
<1>7. Leads(w, T23!BurnFuses, {}, {})
  <2> DEFINE a == <<"call", "get_storage_info", <<>>>>
             b == <<"call", "poll_applet_bl", <<>>>>
             l == T23!Calls(<<"get_storage_info", "poll_applet_bl">>)
             r == <<<<"reboot", "recovery">>>>
             c == ~T23!Mb2Applet
  <2>1. l = <<a, b>>
    BY CallsAre
  <2>2. Takes(w, a, {}, {}) /\ Takes(w, b, {}, {})
    BY TakesSimple
  <2>3. T23!BurnFuses = T23!When(c, up(T23!ConfigsLayout) \o l) \o tool \o tool \o r
    BY DEF T23!BurnFuses, T23!RunTool
  <2>4. Leads(w, r, {}, {})
    BY ShortLeads
  <2> HIDE DEF a, b, l, up, tool, r, c
  <2>5. Leads(w, l, {}, {})
    BY <2>1, <2>2, LeadsTwo
  <2>6. Leads(w, up(T23!ConfigsLayout) \o l, {}, {})
    BY <1>1, <2>5, LeadsJoin
  <2>7. Leads(w, T23!When(c, up(T23!ConfigsLayout) \o l), {}, {})
    BY <2>6, LeadsWhen
  <2> QED
    BY <1>2, <2>3, <2>4, <2>7, LeadsJoin
<1> QED
  BY <1>3, <1>4, <1>5, <1>6, <1>7

LEMMA PartitionProgramLeads ==
  ASSUME NEW w, ~w.asks, ~opt.secure, NEW p
  PROVE  /\ \A f : LawfulFile(f) => Leads(w, T23!WritePartition(p, f), {}, {}) /\ Leads(w, T23!SignWrite(p, f), {}, {})
         /\ \A f : LawfulFile(f) /\ f[1] \notin Plain \cup {"br_bct"} => Leads(w, T23!ReadPartition(p, f), {}, {})
         /\ Leads(w, T23!ErasePartition(p), {}, {})
<1>0. /\ T23!Layout \in {T23!Layout, T23!ConfigsLayout, T23!LayoutConfigs}
      /\ T23!LayoutConfigs \in {T23!Layout, T23!ConfigsLayout, T23!LayoutConfigs}
  OBVIOUS
<1> DEFINE u == T23!UpToMb2(T23!LayoutConfigs)
           v == T23!UpToMb2(T23!Layout)
           c == ~T23!Mb2
           tool == <<<<"tool">>>>
<1>1. Leads(w, u, {}, {}) /\ Leads(w, v, {}, {})
  BY <1>0, UpToMb2Leads
<1>2. Leads(w, tool, {}, {})
  BY ShortLeads
<1>3. Leads(w, T23!When(c, u), {}, {}) /\ Leads(w, T23!When(c, v), {}, {})
  <2> HIDE DEF c, u, v
  <2> QED
    BY <1>1, LeadsWhen
<1>4. ASSUME NEW f, LawfulFile(f)
      PROVE  Leads(w, T23!WritePartition(p, f), {}, {}) /\ Leads(w, T23!SignWrite(p, f), {}, {})
  <2> DEFINE a == <<p, f>>
             wr == <<<<"call", "write_file", a>>>>
             sw == <<<<"call", "signwrite_file", a>>>>
  <2>1. a[2] = f
    OBVIOUS
  <2> HIDE DEF a
  <2>2. LegalCall("write_file", a) /\ LegalCall("signwrite_file", a)
    BY <1>4, <2>1 DEF LegalCall, Methods, Later23, LawfulFile
  <2>3. {"write_file", "signwrite_file"} \subseteq Methods \ {"send_to_bootrom", "send_to_bootloader"}
    BY DEF Methods, Later23
  <2>4. Leads(w, wr, {}, {}) /\ Leads(w, sw, {}, {})
    BY <2>2, <2>3, TakesCalls, LeadsOne
  <2>5. T23!WritePartition(p, f) = T23!When(c, u) \o wr /\ T23!SignWrite(p, f) = u \o tool \o sw
    BY DEF T23!WritePartition, T23!SignWrite, T23!CallWith, T23!RunTool, a
  <2> HIDE DEF wr, sw, u, c, tool
  <2>6. Leads(w, T23!When(c, u) \o wr, {}, {})
    BY <1>3, <2>4, LeadsJoin
  <2>7. Leads(w, u \o tool \o sw, {}, {})
    BY <1>1, <1>2, <2>4, LeadsJoin
  <2> QED
    BY <2>5, <2>6, <2>7
<1>5. ASSUME NEW e, Leads(w, e, {}, {}) PROVE Leads(w, tool \o (T23!When(c, v) \o e), {}, {})
  <2> HIDE DEF c, v, tool
  <2>1. Leads(w, T23!When(c, v) \o e, {}, {})
    BY <1>3, <1>5, LeadsJoin
  <2> QED
    BY <1>2, <2>1, LeadsJoin
<1>6. ASSUME NEW f, LawfulFile(f), f[1] \notin Plain \cup {"br_bct"} PROVE Leads(w, T23!ReadPartition(p, f), {}, {})
  <2>1. T23!ReadPartition(p, f) = tool \o (T23!When(c, v) \o <<<<"read", p, f>>>>)
    BY DEF T23!ReadPartition, T23!RunTool, T23!When
  <2>2. Legal(w, <<"read", p, f>>) /\ Need(w, <<"read", p, f>>) = {}
    BY <1>6 DEF Legal, Need, LawfulFile
  <2>3. Leads(w, <<<<"read", p, f>>>>, {}, {})
    BY <2>2, TakesNothing, LeadsOne
  <2> HIDE DEF c, v, tool
  <2> QED
    BY <1>5, <2>1, <2>3
<1>7. Leads(w, T23!ErasePartition(p), {}, {})
  <2>1. T23!ErasePartition(p) = tool \o (T23!When(c, v) \o <<<<"erase", p>>>>)
    BY DEF T23!ErasePartition, T23!RunTool, T23!When
  <2>2. Leads(w, <<<<"erase", p>>>>, {}, {})
    BY ShortLeads
  <2> HIDE DEF c, v, tool
  <2> QED
    BY <1>5, <2>1, <2>2
<1> QED
  BY <1>4, <1>6, <1>7

LEMMA AppletProgramLeads ==
  ASSUME NEW w, ~opt.secure
  PROVE  (\A a : Leads(w, T23!Dump(a), {}, {})) /\ Leads(w, T23!ReadFuses, {}, {})
<1> DEFINE c == ~T23!Mb2Applet
           t == T23!When(c, T23!UpToApplet(TRUE))
           f == T23!When(c, T23!UpToApplet(FALSE))
           r == <<<<"call", "read_fuses_from_applet", <<>>>>>>
           d(a) == <<<<"call", "dump_from_applet", a>>>>
<1>1. Leads(w, t, {}, {}) /\ Leads(w, f, {}, {})
  <2>1. Leads(w, T23!UpToApplet(TRUE), {}, {}) /\ Leads(w, T23!UpToApplet(FALSE), {}, {})
    BY UpToAppletLeads
  <2> HIDE DEF c
  <2> QED
    BY <2>1, LeadsWhen
<1>2. Leads(w, r, {}, {})
  BY TakesSimple, LeadsOne
<1>3. ASSUME NEW a PROVE Leads(w, d(a), {}, {})
  <2>1. LegalCall("dump_from_applet", a) /\ "dump_from_applet" \in Methods \ {"send_to_bootrom", "send_to_bootloader"}
    BY DEF LegalCall, Methods, Later23
  <2> QED
    BY <2>1, TakesCalls, LeadsOne
<1>4. T23!ReadFuses = t \o r /\ \A a : T23!Dump(a) = f \o d(a)
  BY DEF T23!ReadFuses, T23!Dump, T23!Call, T23!CallWith
<1> HIDE DEF c, t, f, r, d
<1>5. Leads(w, t \o r, {}, {})
  BY <1>1, <1>2, LeadsJoin
<1>6. \A a : Leads(w, f \o d(a), {}, {})
  BY <1>1, <1>3, LeadsJoin
<1> QED
  BY <1>4, <1>5, <1>6

LEMMA SignFileLeads ==
  ASSUME NEW w, w.encrypt = opt.encrypt, NEW f, LawfulFile(f), NEW type
  PROVE  Leads(w, T23!SignBinary(f, type), {}, {}) /\ Leads(w, T23!EncryptSignBinary(f, type), {}, {})
<1> DEFINE key == <<<<"call", "get_key_mode", <<>>>>>>
           enc == <<<<"call", "encrypt_sign_br_bct", <<>>>>>>
           sign == <<<<"call", "oem_sign_file", <<f, type>>>>>>
           k == T23!K("bct")
           g == T23!F(T23!OemSigned(f))
           h == T23!F(T23!SignedOem(f))
           cp(r, t) == <<<<"copy", r, <<"out", t>>>>>>
           bct == <<<<"call", "encrypt_sign_br_bct", <<>>>>, <<"copy", k, <<"out", "BCT">>>>>>
           one == <<<<"call", "oem_sign_file", <<f, type>>>>, <<"copy", g, <<"out", type>>>>>>
           oem == T23!SignOem(f, type)
<1>1. Takes(w, <<"call", "encrypt_sign_br_bct", <<>>>>, {}, {}) /\ Takes(w, <<"call", "get_key_mode", <<>>>>, {}, {})
  BY TakesSimple
<1>2. Takes(w, <<"call", "oem_sign_file", <<f, type>>>>, {}, {}) /\ Leads(w, sign, {}, {})
  BY SigningCallLeads
<1>3. \A r, t : Takes(w, <<"copy", r, <<"out", t>>>>, {}, {}) /\ Leads(w, cp(r, t), {}, {})
  BY TakesOthers, ShortLeads
<1>4. Leads(w, key, {}, {})
  BY <1>1, LeadsOne
<1>5. Leads(w, bct, {}, {})
  <2> HIDE DEF k
  <2> QED
    BY <1>1, <1>3, LeadsTwo
<1>6. Leads(w, one, {}, {})
  <2> HIDE DEF g
  <2> QED
    BY <1>2, <1>3, LeadsTwo
<1>7. ASSUME type # "FSKP" PROVE Leads(w, oem, {}, {})
  <2>1. IsName(f) /\ f[1] # "aligned"
    BY DEF LawfulFile
  <2>2. Leads(w, oem, {}, Rest({}, f) \cup {x \in {"signed"} \X Oems : f = Given(x[2])})
    BY <1>7, <2>1, SignOemLeads
  <2> HIDE DEF oem
  <2> QED
    BY <2>2, LeadsFrom
<1>8. Leads(w, T23!SignBinary(f, type), {}, {})
  <2>1. T23!SignBinary(f, type) = T23!Calls(<<"get_key_mode">>) \o (IF type = "BCT" THEN bct ELSE one)
    BY DEF T23!SignBinary, T23!Call, T23!CallWith, T23!SignedDir
  <2>2. T23!Calls(<<"get_key_mode">>) = key
    BY CallsAre
  <2> HIDE DEF key, bct, one
  <2>3. Leads(w, IF type = "BCT" THEN bct ELSE one, {}, {})
    BY <1>5, <1>6
  <2> QED
    BY <1>4, <2>1, <2>2, <2>3, LeadsJoin
<1>9. Leads(w, T23!EncryptSignBinary(f, type), {}, {})
  <2>1. T23!EncryptSignBinary(f, type) = IF type = "FSKP" THEN sign ELSE IF type = "BCT" THEN bct
                                         ELSE key \o oem \o cp(h, type)
    BY DEF T23!EncryptSignBinary, T23!Call, T23!CallWith, T23!SignedDir
  <2>2. Leads(w, cp(h, type), {}, {})
    BY <1>3
  <2> HIDE DEF key, bct, sign, oem, cp, h
  <2>3. type # "FSKP" => Leads(w, key \o oem \o cp(h, type), {}, {})
    BY <1>4, <1>7, <2>2, LeadsJoin
  <2> QED
    BY <1>2, <1>5, <2>1, <2>3
<1> QED
  BY <1>8, <1>9

LEMMA NvSignLeads ==
  ASSUME NEW w, NEW f, LawfulFile(f), NEW only_sign \in BOOLEAN
  PROVE  Leads(w, T23!NvSign(f, only_sign), {}, {})
<1> DEFINE hd == f[1]
           a == f \o <<"aligned">>
           e == IF only_sign THEN a ELSE a \o <<"encrypt">>
           sh == e \o <<"sigheader">>
           dv == f \o <<"dev">>
           p == T23!When(T23!Exists(f), <<<<"copy", F(f), a>>>>)
           q == <<<<"tool">>>>
           r == T23!When(~only_sign, <<<<"copy", F(a), e>>>>)
           s == <<<<"header", F(e), sh>>>>
           t == T23!When(~only_sign, <<<<"edit", F(sh), "encrypted">>, <<"edit", F(sh), "sha">>>>)
           u == <<<<"sign", F(sh), sh>>, <<"attach", F(sh), sh>>, <<"copy", F(sh), dv>>>>
<1>1. T23!NvSign(f, only_sign) = p \o q \o r \o s \o t \o u
  BY DEF T23!NvSign, T23!Aligned, T23!RunTool, T23!F, F
<1>2. Named(f, hd) /\ hd # "aligned"
  BY DEF LawfulFile, Named
<1> HIDE DEF hd
<1>3. Named(a, hd) /\ Named(dv, hd)
  BY <1>2, Appended
<1> HIDE DEF a, dv
<1>4. Named(e, hd)
  BY <1>3, Appended
<1> HIDE DEF e
<1>5. Named(sh, hd)
  BY <1>4, Appended
<1> HIDE DEF sh
<1>6. PICK y : y = Rest({}, f)
  OBVIOUS
<1>7. f[1] = hd /\ {} \subseteq Facts
  BY DEF hd
<1>8. \A b, c : Named(b, hd) /\ Named(c, hd) =>
        /\ Takes(w, <<"copy", F(b), c>>, {}, {}) /\ Takes(w, <<"header", F(b), c>>, {}, {})
        /\ Takes(w, <<"sign", F(b), c>>, {}, {}) /\ Takes(w, <<"attach", F(b), c>>, {}, {})
  <2>1. ASSUME NEW b, NEW c, Named(b, hd), Named(c, hd)
        PROVE  /\ Takes(w, <<"copy", F(b), c>>, {}, {}) /\ Takes(w, <<"header", F(b), c>>, {}, {})
               /\ Takes(w, <<"sign", F(b), c>>, {}, {}) /\ Takes(w, <<"attach", F(b), c>>, {}, {})
    <3>1. Takes(w, <<"copy", F(b), c>>, {}, Rest({}, f))
      BY <1>7, <2>1, TakesCopy
    <3>2. Takes(w, <<"header", F(b), c>>, {}, Rest({}, f)) /\ Takes(w, <<"sign", F(b), c>>, {}, Rest({}, f))
          /\ Takes(w, <<"attach", F(b), c>>, {}, Rest({}, f))
      BY <1>7, <2>1, TakesSign
    <3> QED
      BY <3>1, <3>2, TakesFrom
  <2> QED
    BY <2>1
<1>9. \A x : x # "unsigned" => Takes(w, <<"edit", F(sh), x>>, {}, {})
  <2>1. \A B : B \subseteq Base => \A x : x # "unsigned" => Takes(w, <<"edit", F(sh), x>>, B, B)
    BY <1>5, TakesInBase DEF Named
  <2> QED
    BY <2>1
<1>10. Leads(w, p, {}, {}) /\ Leads(w, r, {}, {})
  <2>1. Leads(w, <<<<"copy", F(f), a>>>>, {}, {}) /\ Leads(w, <<<<"copy", F(a), e>>>>, {}, {})
    BY <1>2, <1>3, <1>4, <1>8, LeadsOne
  <2>2. PICK x : x = T23!Exists(f)
    OBVIOUS
  <2>3. Leads(w, T23!When(x, <<<<"copy", F(f), a>>>>), {}, {})
    BY <2>1, LeadsWhen
  <2>4. Leads(w, r, {}, {})
    BY <2>1, LeadsWhen
  <2> QED
    BY <2>2, <2>3, <2>4
<1>11. Leads(w, q, {}, {}) /\ Leads(w, s, {}, {})
  BY <1>4, <1>5, <1>8, LeadsOne, ShortLeads
<1>12. Leads(w, t, {}, {})
  <2>1. Leads(w, <<<<"edit", F(sh), "encrypted">>, <<"edit", F(sh), "sha">>>>, {}, {})
    BY <1>9, LeadsTwo
  <2> QED
    BY <2>1, LeadsWhen
<1>13. Leads(w, u, {}, {})
  BY <1>3, <1>5, <1>8, LeadsThree
<1> HIDE DEF p, q, r, s, t, u
<1>14. Leads(w, p \o q \o r \o s, {}, {})
  BY <1>10, <1>11, LeadsJoin
<1>15. Leads(w, p \o q \o r \o s \o t \o u, {}, {})
  BY <1>12, <1>13, <1>14, LeadsJoin
<1> QED
  BY <1>1, <1>15

LEMMA LawfulNames ==
  LawfulFile(<<"dce">>) /\ LawfulFile(<<"bpmp_dtb">>) /\ LawfulFile(<<"applet">>) /\ LawfulFile(<<"bl">>)
  /\ LawfulFile(T23!Blobbed("mb2"))
<1>1. LawfulFile(<<"dce">>)
  BY OneName DEF LawfulFile
<1>2. LawfulFile(<<"bpmp_dtb">>)
  BY OneName DEF LawfulFile
<1>3. LawfulFile(<<"applet">>)
  BY OneName DEF LawfulFile
<1>4. LawfulFile(<<"bl">>)
  BY OneName DEF LawfulFile
<1>5. LawfulFile(T23!Blobbed("mb2"))
  <2>1. T23!Blobbed("mb2") = <<"mb2", "with_mb2_bct">>
    BY DEF T23!Blobbed
  <2>2. LawfulFile(<<"mb2", "with_mb2_bct">>)
    BY ShortNames DEF LawfulFile
  <2> QED
    BY <2>1, <2>2
<1> QED
  BY <1>1, <1>2, <1>3, <1>4, <1>5

LEMMA ImageProgramLeads ==
  ASSUME NEW w
  PROVE  /\ Leads(w, T23!SignAll, {}, {}) /\ Leads(w, T23!GenerateRecoveryBlob, {}, {})
         /\ \A b \in BOOLEAN : Leads(w, T23!MkDevimages(b), {}, {})
<1> DEFINE key == <<"call", "get_key_mode", <<>>>>
           lay == <<"call", "parse_partitionlayout", <<>>>>
           images(b) == <<"call", "sign_images", b>>
           bct == <<"call", "generate_bct", <<>>>>
           update == <<"call", "update_images", <<>>>>
           mb2bct == <<"call", "generate_mb2_bct", <<>>>>
           copies == <<"call", "sign_copies", <<>>>>
           sign(f, m) == <<"call", "oem_sign_file", <<f, m>>>>
           tool == <<<<"tool">>>>
           first == T23!Calls(<<"get_key_mode", "parse_partitionlayout">>)
           second == T23!Calls(<<"generate_bct", "update_images">>)
           conc == T23!Concatenate(<<"mb2">>, "with_mb2_bct", "mb2bct")
<1>1. /\ Takes(w, key, {}, {}) /\ Takes(w, lay, {}, {}) /\ Takes(w, bct, {}, {}) /\ Takes(w, update, {}, {})
      /\ Takes(w, mb2bct, {}, {}) /\ Takes(w, copies, {}, {})
  BY TakesSimple
<1>2. \A b \in BOOLEAN : Takes(w, images(b), {}, {})
  <2>1. \A b \in BOOLEAN : LegalCall("sign_images", b)
    BY DEF LegalCall, Methods
  <2>2. "sign_images" \in Methods \ {"send_to_bootrom", "send_to_bootloader"}
    BY DEF Methods
  <2> QED
    BY <2>1, <2>2, TakesCalls
<1>3. /\ \A m : Takes(w, sign(<<"dce">>, m), {}, {}) /\ Takes(w, sign(<<"bpmp_dtb">>, m), {}, {})
      /\ \A m : Takes(w, sign(<<"applet">>, m), {}, {}) /\ Takes(w, sign(<<"bl">>, m), {}, {})
      /\ \A m : Takes(w, sign(T23!Blobbed("mb2"), m), {}, {})
  <2>1. \A f : LawfulFile(f) => \A m : Takes(w, sign(f, m), {}, {})
    BY SigningCallLeads
  <2> HIDE DEF sign
  <2> QED
    BY <2>1, LawfulNames
<1>4. Leads(w, tool, {}, {})
  BY ShortLeads
<1>5. first = <<key, lay>> /\ second = <<bct, update>>
  BY CallsAre
<1>6. Leads(w, conc, {}, {})
  <2>1. \E f : f = <<"mb2">>
    OBVIOUS
  <2>2. PICK f : f = <<"mb2">>
    BY <2>1
  <2>3. IsName(f)
    BY <2>2, BlobNames DEF Named
  <2>4. Leads(w, T23!Concatenate(f, "with_mb2_bct", "mb2bct"), {}, {})
    BY <2>3, ConcatenateInBase
  <2> QED
    BY <2>2, <2>4
<1> HIDE DEF key, lay, bct, update, first, second
<1>7. Leads(w, first, {}, {}) /\ Leads(w, second, {}, {})
  BY <1>1, <1>5, LeadsTwo
<1>8. Leads(w, T23!SignAll, {}, {})
  <2> DEFINE s1 == sign(T23!Blobbed("mb2"), "MB2B")
             s2 == sign(<<"dce">>, "DCE")
             s3 == sign(<<"bpmp_dtb">>, "BPMD")
             s4 == sign(<<"applet">>, "MB2A")
             s5 == sign(<<"bl">>, "CPBL")
             im == <<images(TRUE)>>
             mb == <<mb2bct>>
             fs == <<s1, s2, s3, s4, s5, copies>>
  <2>1. T23!SignAll = first \o im \o second \o tool \o mb \o conc \o fs
    BY DEF T23!SignAll, T23!Call, T23!CallWith, T23!RunTool, T23!ConcatenateMb2bctMb2, first, second
  <2>2. Takes(w, s1, {}, {}) /\ Takes(w, s2, {}, {}) /\ Takes(w, s3, {}, {}) /\ Takes(w, s4, {}, {})
        /\ Takes(w, s5, {}, {})
    BY <1>3
  <2>3. Takes(w, images(TRUE), {}, {})
    BY <1>2
  <2> HIDE DEF s1, s2, s3, s4, s5, copies, images, mb2bct, tool, conc
  <2>4. Leads(w, fs, {}, {})
    BY <1>1, <2>2, LeadsSix
  <2>5. Leads(w, im, {}, {}) /\ Leads(w, mb, {}, {})
    BY <1>1, <2>3, LeadsOne
  <2> HIDE DEF fs, im, mb
  <2>6. Leads(w, first \o im \o second \o tool, {}, {})
    BY <1>4, <1>7, <2>5, LeadsJoin
  <2>7. Leads(w, first \o im \o second \o tool \o mb \o conc \o fs, {}, {})
    BY <1>6, <2>4, <2>5, <2>6, LeadsJoin
  <2> QED
    BY <2>1, <2>7
<1>9. Leads(w, T23!GenerateRecoveryBlob, {}, {})
  <2> DEFINE blob == <<"call", "generate_blob", TRUE>>
  <2>1. T23!GenerateRecoveryBlob = <<key, blob>>
    BY DEF T23!GenerateRecoveryBlob, T23!Call, T23!CallWith, key
  <2>2. LegalCall("generate_blob", TRUE) /\ "generate_blob" \in Methods \ {"send_to_bootrom", "send_to_bootloader"}
    BY DEF LegalCall, Methods
  <2>3. Takes(w, blob, {}, {})
    BY <2>2, TakesCalls
  <2> HIDE DEF blob
  <2> QED
    BY <1>1, <2>1, <2>3, LeadsTwo
<1>10. ASSUME NEW b \in BOOLEAN PROVE Leads(w, T23!MkDevimages(b), {}, {})
  <2> DEFINE im == <<images(b)>>
             bc == T23!When(b, <<bct>>)
             up == <<update>>
             devs == tool \o tool
  <2>1. T23!MkDevimages(b) = first \o im \o bc \o up \o devs
    BY DEF T23!MkDevimages, T23!Call, T23!CallWith, T23!GenerateDevimages, T23!RunTool, bct, update, first
  <2>2. Takes(w, images(b), {}, {})
    BY <1>2
  <2> HIDE DEF images, tool
  <2>3. Leads(w, im, {}, {}) /\ Leads(w, up, {}, {}) /\ Leads(w, <<bct>>, {}, {})
    BY <1>1, <2>2, LeadsOne
  <2>4. Leads(w, bc, {}, {})
    BY <2>3, LeadsWhen
  <2>5. Leads(w, devs, {}, {})
    BY <1>4, LeadsJoin
  <2> HIDE DEF im, bc, up, devs
  <2>6. Leads(w, first \o im \o bc \o up \o devs, {}, {})
    BY <1>7, <2>3, <2>4, <2>5, LeadsJoin
  <2> QED
    BY <2>1, <2>6
<1> QED
  BY <1>8, <1>9, <1>10

-----------------------------------------------------------------------------
(* Every command.                                                          *)

\* How many words there are.
LEMMA CountedWords ==
  ASSUME NEW c, Len(c) \in Nat, Counted(c), MaxWords \in Nat
  PROVE  /\ c[1] \in {"write", "signwrite", "read"} => Len(c) = 3
         /\ c[1] = "nvsign" => Len(c) > 2
<1>1. Len(c) \in Nat
  OBVIOUS
<1>2. c[1] = "write" => Len(c) = 3
  <2>1. Commands["write"].words = {2}
    BY DEF Commands, Handler, DoWrite
  <2>2. ASSUME c[1] = "write" PROVE Words(c) = 2
    BY <2>1, <2>2 DEF Counted
  <2> QED
    BY <1>1, <2>2 DEF Words
<1>3. c[1] = "signwrite" => Len(c) = 3
  <2>1. Commands["signwrite"].words = {2}
    BY DEF Commands, Handler, DoSignwrite
  <2>2. ASSUME c[1] = "signwrite" PROVE Words(c) = 2
    BY <2>1, <2>2 DEF Counted
  <2> QED
    BY <1>1, <2>2 DEF Words
<1>4. c[1] = "read" => Len(c) = 3
  <2>1. Commands["read"].words = {2}
    BY DEF Commands, Handler, DoRead
  <2>2. ASSUME c[1] = "read" PROVE Words(c) = 2
    BY <2>1, <2>2 DEF Counted
  <2> QED
    BY <1>1, <2>2 DEF Words
<1>5. c[1] = "nvsign" => Len(c) > 2
  BY <1>1 DEF Counted, Words, Commands, Handler, DoNvsign, AnyWords
<1> QED
  BY <1>2, <1>3, <1>4, <1>5

LEMMA ProgramLeads ==
  ASSUME NEW w, w.encrypt = opt.encrypt, ~opt.secure, MaxWords \in Nat,
         NEW c, LawfulCommand(c), Counted(c), w.asks = (c[1] \in {"dump", "readfuses"})
  PROVE  Leads(w, T23!Program(c), {}, {})
<1> DEFINE p == T23!Program(c)
<1>1. CASE c[1] \in {"dump", "readfuses"}
  <2>1. p \in {T23!Dump(c[2]), T23!ReadFuses}
    BY <1>1 DEF T23!Program
  <2> QED
    BY <2>1, AppletProgramLeads
<1>2. CASE c[1] \in {"flash", "rcmboot", "ufsotp", "ccgupdate", "burnfuses"}
  <2>1. p \in {T23!Flash, T23!RcmBoot, T23!UfsOtp, T23!CcgUpdate, T23!BurnFuses}
    BY <1>2 DEF T23!Program
  <2>2. ~w.asks
    BY <1>2
  <2> QED
    BY <2>1, <2>2, FlashProgramLeads
<1>3. CASE c[1] \in {"write", "signwrite"}
  <2>1. p \in {T23!WritePartition(c[2], c[3]), T23!SignWrite(c[2], c[3])}
    BY <1>3 DEF T23!Program
  <2>2. ~w.asks /\ LawfulFile(c[3])
    BY <1>3, CountedWords DEF LawfulCommand
  <2> QED
    BY <2>1, <2>2, PartitionProgramLeads
<1>4. CASE c[1] = "read"
  <2>1. p = T23!ReadPartition(c[2], c[3])
    BY <1>4 DEF T23!Program
  <2>2. ~w.asks /\ LawfulFile(c[3]) /\ c[3][1] \notin Plain \cup {"br_bct"}
    BY <1>4, CountedWords DEF LawfulCommand
  <2> QED
    BY <2>1, <2>2, PartitionProgramLeads
<1>5. CASE c[1] = "erase"
  <2>1. p = T23!ErasePartition(c[2])
    BY <1>5 DEF T23!Program
  <2>2. ~w.asks
    BY <1>5
  <2> QED
    BY <2>1, <2>2, PartitionProgramLeads
<1>6. CASE c[1] \in {"generate_recovery_blob", "mkdevimages"}
  <2>1. p \in {T23!GenerateRecoveryBlob, T23!MkDevimages(Len(c) = 1 \/ c[2] # "nobct")}
    BY <1>6 DEF T23!Program
  <2>2. (Len(c) = 1 \/ c[2] # "nobct") \in BOOLEAN
    OBVIOUS
  <2> QED
    BY <2>1, <2>2, ImageProgramLeads
<1>7. CASE c[1] = "sign"
  <2>1. CASE Len(c) = 1
    <3>1. p \in {T23!Crashing, T23!SignAll}
      BY <1>7, <2>1 DEF T23!Program
    <3>2. Leads(w, T23!Crashing, {}, {}) /\ Leads(w, T23!SignAll, {}, {})
      BY ShortLeads, ImageProgramLeads DEF T23!Crashing
    <3> QED
      BY <3>1, <3>2
  <2>2. CASE Len(c) > 1
    <3>1. p \in {T23!EncryptSignBinary(c[2], T23!TypeIn(c)), T23!SignBinary(c[2], T23!TypeIn(c))}
      BY <1>7, <2>2 DEF T23!Program
    <3>2. LawfulFile(c[2])
      BY <1>7, <2>2 DEF LawfulCommand
    <3> QED
      BY <3>1, <3>2, SignFileLeads
  <2>3. CASE ~(Len(c) = 1) /\ ~(Len(c) > 1)
    <3>1. p = T23!Crashing
      BY <1>7, <2>3 DEF T23!Program
    <3> QED
      BY <3>1, ShortLeads DEF T23!Crashing
  <2> QED
    BY <2>1, <2>2, <2>3
<1>8. CASE c[1] = "nvsign"
  <2> DEFINE b == Len(c) = 4 /\ c[4] = "only_sign"
  <2>1. p = T23!NvSign(c[2], b)
    BY <1>8 DEF T23!Program
  <2>2. LawfulFile(c[2])
    BY <1>8, CountedWords DEF LawfulCommand
  <2>3. b \in BOOLEAN
    OBVIOUS
  <2> HIDE DEF b, p
  <2> QED
    BY <2>1, <2>2, <2>3, NvSignLeads DEF p
<1>9. CASE c[1] = "reboot"
  <2>1. \E k : p \in {<<<<"reboot", k>>>>, <<<<"raise">>>>}
    BY <1>9 DEF T23!Program, T23!RebootTo, T23!Raising
  <2> QED
    BY <2>1, ShortLeads
<1>10. CASE c[1] \in {"parse", "packageccg"}
  <2>1. p \in {<<<<"tool">>>>, <<<<"raise">>>>}
    BY <1>10 DEF T23!Program, T23!ParseFuseBypass, T23!Raising, T23!RunTool
  <2> QED
    BY <2>1, ShortLeads
<1>11. CASE c[1] \notin {"dump", "readfuses", "flash", "rcmboot", "ufsotp", "ccgupdate", "burnfuses", "write", "signwrite",
                         "read", "erase", "generate_recovery_blob", "mkdevimages", "sign", "nvsign", "reboot",
                         "parse", "packageccg"}
  <2>1. c[1] # "secureflash"
    BY DEF LawfulCommand
  <2>2. p = T23!Crashing
    BY <1>11, <2>1 DEF T23!Program
  <2> QED
    BY <2>2, ShortLeads DEF T23!Crashing
<1> QED
  BY <1>1, <1>2, <1>3, <1>4, <1>5, <1>6, <1>7, <1>8, <1>9, <1>10, <1>11

LEMMA OneCmdLeads ==
  ASSUME NEW w, w.encrypt = opt.encrypt, ~opt.secure, opt.chip = "0x23", MaxWords \in Nat,
         NEW c, LawfulCommand(c), w.asks = (c[1] \in {"dump", "readfuses"})
  PROVE  Leads(w, OneCmd(c), {}, {})
<1> DEFINE caught == <<<<"caught">>>>
           ask == When(Asks(c) # {}, <<<<"ask">>>>)
           p == T23!Program(c)
<1>1. Leads(w, caught, {}, {}) /\ Leads(w, <<<<"ask">>>>, {}, {}) /\ Leads(w, <<>>, {}, {})
  BY ShortLeads
<1>2. Leads(w, ask, {}, {})
  BY <1>1 DEF When
<1>3. Counted(c) => Leads(w, p, {}, {})
  BY ProgramLeads
<1>4. OneCmd(c) = IF ~Known(c) THEN caught ELSE IF ~Counted(c) THEN <<>>
                  ELSE ask \o (IF WrongOption(c) THEN caught ELSE p)
  BY DEF OneCmd, Done, Program
<1> HIDE DEF caught, ask, p
<1>5. Counted(c) => Leads(w, ask \o (IF WrongOption(c) THEN caught ELSE p), {}, {})
  BY <1>1, <1>2, <1>3, LeadsJoin
<1> QED
  BY <1>1, <1>4, <1>5

-----------------------------------------------------------------------------
(* What stays known when files change.                                     *)

\* A step leaves a file as it is.
Same(f) == (f \in DOMAIN disk' <=> f \in DOMAIN disk) /\ (f \in DOMAIN disk => disk'[f] = disk[f])

\* The files that a fact is about.
ListFiles == {list["mb1"], list["psc"]}
BrFiles(w) ==
    CASE w = "digested" -> {BrBct, list["mb1"]}
      [] w = "sigfile" -> {BrBct, SigOf(BrBct)}
      [] w = "shafile" -> {BrBct, ShaOf(BrBct)}
      [] w = "good" -> {BrBct, list["mb1"]}
      [] w = "goodA" -> {ABr, list["mb1"]}
      [] OTHER -> {BrBct}
FilesOf(x) ==
    CASE x[1] \in {"kept", "val"} -> {}
      [] x[1] = "list" -> ListFiles
      [] x[1] = "br" -> BrFiles(x[2])
      [] x[1] = "header" -> {HeaderOf(Way, x[2])}
      [] x[1] = "sigfile" -> {SignedOf(HeaderOf(Way, x[2])), SigOf(HeaderOf(Way, x[2]))}
      [] x[1] = "attached" -> {SignedOf(HeaderOf(Way, x[2]))}
      [] x[1] = "signed" -> {ResultOf(Way, x[2])}
Listed == Named(list["mb1"], "mb1") /\ Named(list["psc"], "psc")

LEMMA BrFileNames ==
  /\ Named(BrBct, "br_bct") /\ Named(ABr, "br_bct") /\ Named(BBr, "br_bct")
  /\ Named(SigOf(BrBct), "br_bct") /\ Named(ShaOf(BrBct), "br_bct") /\ Named(SignedOf(BrBct), "br_bct")
  /\ BrBct # ABr /\ BrBct # BBr /\ ABr # BBr
<1>1. BrBct = <<"br_bct", "BR">> /\ ABr = <<"br_bct", "a_BR">> /\ BBr = <<"br_bct", "b_BR">>
  BY DEF BrBct, ABr, BBr, T23!BrBct, T23!ChainFile
<1>2. Named(BrBct, "br_bct") /\ Named(ABr, "br_bct") /\ Named(BBr, "br_bct")
  BY <1>1, IsSeqShort DEF Named, IsName
<1>3. BrBct[2] = "BR" /\ ABr[2] = "a_BR" /\ BBr[2] = "b_BR"
  BY <1>1, IsSeqShort
<1>4. Named(SigOf(BrBct), "br_bct") /\ Named(ShaOf(BrBct), "br_bct") /\ Named(SignedOf(BrBct), "br_bct")
  BY <1>2, Appended DEF SigOf, ShaOf, SignedOf
<1>5. "BR" # "a_BR" /\ "BR" # "b_BR" /\ "a_BR" # "b_BR"
  OBVIOUS
<1>6. BrBct # ABr /\ BrBct # BBr /\ ABr # BBr
  BY <1>3, <1>5
<1> QED
  BY <1>2, <1>4, <1>6

\* None of them ends in a suffix of a signature.
LEMMA BrSuffixes ==
  ASSUME NEW s, IsName(s), NEW x, x \notin {"BR", "a_BR", "b_BR"}
  PROVE  s \o <<x>> \notin {BrBct, ABr, BBr}
<1>1. BrBct = <<"br_bct", "BR">> /\ ABr = <<"br_bct", "a_BR">> /\ BBr = <<"br_bct", "b_BR">>
  BY DEF BrBct, ABr, BBr, T23!BrBct, T23!ChainFile
<1>2. /\ Len(BrBct) = 2 /\ Len(ABr) = 2 /\ Len(BBr) = 2
      /\ BrBct[2] = "BR" /\ ABr[2] = "a_BR" /\ BBr[2] = "b_BR"
  BY <1>1, IsSeqShort
<1>3. IsSeq(s)
  BY DEF IsName
<1>4. s \o <<x>> = Append(s, x) /\ Len(Append(s, x)) = Len(s) + 1 /\ Append(s, x)[Len(s) + 1] = x
  BY <1>3, IsSeqAppend
<1>5. Len(s) \in Nat
  BY <1>3, IsSeqParts
<1>6. ASSUME NEW t \in {BrBct, ABr, BBr}, s \o <<x>> = t PROVE FALSE
  <2>1. Len(s) + 1 = 2 /\ t[2] # x
    BY <1>2, <1>4, <1>6
  <2>2. t[2] = x
    BY <1>4, <1>5, <1>6, <2>1
  <2> QED
    BY <2>1, <2>2
<1> QED
  BY <1>6

LEMMA FilesHeads ==
  ASSUME Listed, NEW x \in Facts
  PROVE  \A f \in FilesOf(x) : f[1] \in Of(x)
<1>1. CASE x[1] \in {"kept", "val"}
  BY <1>1 DEF FilesOf
<1>2. CASE x[1] = "list"
  BY <1>2 DEF FilesOf, ListFiles, Of, Listed, Named
<1>3. CASE x[1] = "br"
  <2>4. \A f, h : Named(f, h) => f[1] = h
    BY DEF Named
  <2>1. BrBct[1] = "br_bct" /\ ABr[1] = "br_bct" /\ SigOf(BrBct)[1] = "br_bct" /\ ShaOf(BrBct)[1] = "br_bct"
        /\ list["mb1"][1] = "mb1"
    BY <2>4, BrFileNames DEF Listed
  <2>2. FilesOf(x) = BrFiles(x[2])
    BY <1>3 DEF FilesOf
  <2>3. Of(x) = IF x[2] \in {"digested", "good", "goodA"} THEN {"br_bct", "mb1"} ELSE {"br_bct"}
    BY <1>3 DEF Of
  <2> QED
    BY <2>1, <2>2, <2>3 DEF BrFiles
<1>4. CASE x[1] \in {"header", "sigfile", "attached", "signed"}
  <2>1. x[2] \in Signers /\ Of(x) = {x[2]}
    BY <1>4 DEF Facts, Of
  <2> DEFINE h == HeaderOf(Way, x[2])
             r == ResultOf(Way, x[2])
  <2>2. Named(h, x[2]) /\ Named(SignedOf(h), x[2]) /\ Named(r, x[2])
    BY <2>1, ResultNames
  <2> HIDE DEF h, r
  <2>3. Named(SigOf(h), x[2])
    BY <2>2, Appended DEF SigOf
  <2>4. FilesOf(x) \subseteq {h, SignedOf(h), SigOf(h), r}
    BY <1>4 DEF FilesOf, h, r
  <2> QED
    BY <2>1, <2>2, <2>3, <2>4 DEF Named
<1> QED
  BY <1>1, <1>2, <1>3, <1>4 DEF Facts

\* A fact stays true when nothing that it is about changes.
LEMMA Stays ==
  ASSUME NEW x \in Facts, Holds(x), Way' = Way, Heard' => Heard,
         x[1] = "kept" => kept'[x[2]] = kept[x[2]],
         x[1] = "val" => val'.rawkerneldtb = val.rawkerneldtb,
         x[1] \in {"list", "br"} => list'["mb1"] = list["mb1"] /\ list'["psc"] = list["psc"],
         \A f \in FilesOf(x) : Same(f)
  PROVE  Holds(x)'
<1>1. CASE x[1] = "kept"
  <2>1. x[2] \in KeptNames
    BY <1>1 DEF Facts
  <2> QED
    BY <1>1, <2>1 DEF Holds, KeptIs, Expected
<1>2. CASE x[1] = "val"
  BY <1>2 DEF Holds
<1>3. CASE x[1] = "list"
  <2>1. \A t \in {"mb1", "psc"} : Same(list[t]) /\ list'[t] = list[t]
    BY <1>3 DEF FilesOf, ListFiles
  <2> QED
    BY <1>3, <2>1 DEF Holds, ListIs, Same
<1>4. CASE x[1] = "br"
  <2>1. \A f \in BrFiles(x[2]) : Same(f)
    BY <1>4 DEF FilesOf
  <2>2. list'["mb1"] = list["mb1"]
    BY <1>4
  <2>3. /\ Contents(S("mb1")) = IF list["mb1"] \in DOMAIN disk THEN disk[list["mb1"]] ELSE Absent
        /\ Contents(S("mb1"))' = IF list'["mb1"] \in DOMAIN disk' THEN disk'[list'["mb1"]] ELSE Absent
    <3>1. S("mb1")[1] = "list" /\ S("mb1")[2] = "mb1"
      BY DEF S
    <3>2. Name(S("mb1")) = list["mb1"] /\ Name(S("mb1"))' = list'["mb1"]
      BY <3>1 DEF Name
    <3> QED
      BY <3>2 DEF Contents, Exists
  <2>4. Same(list["mb1"]) => Contents(S("mb1"))' = Contents(S("mb1"))
    BY <2>2, <2>3 DEF Same
  <2>5. Heard' => BrIs(x[2])
    BY <1>4 DEF Holds
  <2>6. x[2] \in BrKinds
    BY <1>4 DEF Facts
  <2>7. CASE x[2] = "made"
    BY <1>4, <2>1, <2>5, <2>7 DEF Holds, BrIs, BrFiles, Same
  <2>8. CASE x[2] = "digested"
    BY <1>4, <2>1, <2>4, <2>5, <2>8 DEF Holds, BrIs, BrFiles, NamesMb1, Same
  <2>9. CASE x[2] = "sigfile"
    BY <1>4, <2>1, <2>5, <2>9 DEF Holds, BrIs, BrFiles, HasSig, Same
  <2>10. CASE x[2] = "signed"
    BY <1>4, <2>1, <2>5, <2>10 DEF Holds, BrIs, BrFiles, IsSigned, Same
  <2>11. CASE x[2] = "shafile"
    BY <1>4, <2>1, <2>5, <2>11 DEF Holds, BrIs, BrFiles, Same
  <2>12. CASE x[2] = "good"
    BY <1>4, <2>1, <2>4, <2>5, <2>12 DEF Holds, BrIs, BrFiles, Good, IsSigned, NamesMb1, Same
  <2>13. CASE x[2] = "goodA"
    BY <1>4, <2>1, <2>4, <2>5, <2>13 DEF Holds, BrIs, BrFiles, Good, IsSigned, NamesMb1, Same
  <2> QED
    BY <2>6, <2>7, <2>8, <2>9, <2>10, <2>11, <2>12, <2>13 DEF BrKinds
<1>5. CASE x[1] \in {"header", "sigfile", "attached", "signed"}
  <2>1. HeaderOf(Way, x[2])' = HeaderOf(Way, x[2]) /\ ResultOf(Way, x[2])' = ResultOf(Way, x[2])
    BY DEF HeaderOf, ResultOf, FileOf, T23!Aligned, T23!OemSigned, Given
  <2> DEFINE h == HeaderOf(Way, x[2])
             r == ResultOf(Way, x[2])
  <2>2. CASE x[1] = "header"
    BY <2>1, <2>2 DEF FilesOf, Holds, IsHeader, Same
  <2>3. CASE x[1] = "sigfile"
    BY <2>1, <2>3 DEF FilesOf, Holds, IsHeader, HasSig, Same
  <2>4. CASE x[1] = "attached"
    BY <2>1, <2>4 DEF FilesOf, Holds, IsSigned, Same
  <2>5. CASE x[1] = "signed"
    BY <2>1, <2>5 DEF FilesOf, Holds, IsSigned, Same
  <2> QED
    BY <1>5, <2>2, <2>3, <2>4, <2>5
<1> QED
  BY <1>1, <1>2, <1>3, <1>4, <1>5 DEF Facts

-----------------------------------------------------------------------------
(* Steps that write files.                                                 *)

Quietly == opt' = opt /\ now' = now /\ kept' = kept /\ val' = val /\ list' = list

LEMMA SameWay ==
  ASSUME opt' = opt, now' = now
  PROVE  Way' = Way
  BY DEF Way, asks

LEMMA NowKnown ==
  ASSUME NEW x \in Facts
  PROVE  Holds(x)' <=> x \in Known23'
  BY DEF Known23

LEMMA StaysKnown ==
  ASSUME Quietly, NEW x \in Known23, \A f \in FilesOf(x) : Same(f)
  PROVE  x \in Known23'
<1>1. x \in Facts /\ Holds(x)
  BY DEF Known23
<1>2. Way' = Way /\ (Heard' => Heard)
  BY SameWay DEF Quietly, Heard
<1>3. /\ kept'[x[2]] = kept[x[2]] /\ val'.rawkerneldtb = val.rawkerneldtb
      /\ list'["mb1"] = list["mb1"] /\ list'["psc"] = list["psc"]
  BY DEF Quietly
<1>4. Holds(x)'
  BY <1>1, <1>2, <1>3, Stays
<1> QED
  BY <1>1, <1>4, NowKnown

LEMMA OthersStay ==
  ASSUME Quietly, Listed, NEW X, X \subseteq Known23, NEW h, \A f : f[1] # h => Same(f)
  PROVE  Unwritten(X, h) \subseteq Known23'
<1>1. ASSUME NEW x \in Unwritten(X, h) PROVE x \in Known23'
  <2>1. x \in Known23 /\ x \in Facts /\ h \notin Of(x)
    BY <1>1 DEF Unwritten, Known23
  <2>2. \A f \in FilesOf(x) : f[1] \in Of(x)
    BY <2>1, FilesHeads
  <2>3. \A f \in FilesOf(x) : Same(f)
    BY <2>1, <2>2
  <2> QED
    BY <2>1, <2>3, StaysKnown
<1> QED
  BY <1>1

LEMMA BrStay ==
  ASSUME Quietly, NEW X, X \subseteq Known23, NEW ws, \A k \in ws : \A f \in BrFiles(k) : Same(f)
  PROVE  X \cap Br(ws) \subseteq Known23'
<1>1. ASSUME NEW x \in X \cap Br(ws) PROVE x \in Known23'
  <2>1. x \in Known23 /\ x[1] = "br" /\ x[2] \in ws
    BY <1>1 DEF Br
  <2>2. FilesOf(x) = BrFiles(x[2])
    BY <2>1 DEF FilesOf
  <2> QED
    BY <2>1, <2>2, StaysKnown
<1> QED
  BY <1>1

LEMMA WrittenIs ==
  ASSUME NEW new, disk' = Written(new)
  PROVE  /\ DOMAIN disk' = DOMAIN new \cup DOMAIN disk
         /\ \A f \in DOMAIN new : disk'[f] = new[f]
         /\ \A f : f \notin DOMAIN new => Same(f)
  BY DEF Written, Same

LEMMA PutIs ==
  ASSUME NEW f, NEW c, Put(f, c)
  PROVE  /\ DOMAIN disk' = {f} \cup DOMAIN disk /\ disk'[f] = c
         /\ \A g : g # f => Same(g)
<1> DEFINE new == [g \in {f} |-> c]
<1>1. disk' = Written(new) /\ DOMAIN new = {f} /\ new[f] = c
  BY DEF Put
<1> HIDE DEF new
<1> QED
  BY <1>1, WrittenIs

LEMMA BrFilesAre ==
  /\ BrFiles("made") = {BrBct} /\ BrFiles("digested") = {BrBct, list["mb1"]}
  /\ BrFiles("sigfile") = {BrBct, SigOf(BrBct)} /\ BrFiles("signed") = {BrBct}
  /\ BrFiles("shafile") = {BrBct, ShaOf(BrBct)} /\ BrFiles("good") = {BrBct, list["mb1"]}
  /\ BrFiles("goodA") = {ABr, list["mb1"]}
  BY DEF BrFiles

\* No BR-BCT is a file of the list.
LEMMA BrNotListed ==
  ASSUME Listed
  PROVE  list["mb1"] \notin {BrBct, ABr, BBr} /\ \A f : f[1] = "br_bct" => f # list["mb1"]
<1>1. \A f, h : Named(f, h) => f[1] = h
  BY DEF Named
<1>2. list["mb1"][1] = "mb1" /\ BrBct[1] = "br_bct" /\ ABr[1] = "br_bct" /\ BBr[1] = "br_bct"
  BY <1>1, BrFileNames DEF Listed
<1> QED
  BY <1>2

LEMMA TextIs ==
  ASSUME NEW s
  PROVE  Text(s).is = s /\ (Signable(s) => Pure(Text(s)))
<1>1. Text(s) = [is |-> s, mb1 |-> <<>>, sig |-> <<>>, sha |-> <<>>]
  BY DEF Text, Absent
<1> QED
  BY <1>1 DEF Pure

LEMMA MakeKnown ==
  ASSUME Quietly, Listed, NEW X, X \subseteq Known23, NEW f, NEW s, Put(f, Text(s)), Signable(s), s # <<>>
  PROVE  AfterMake(f, X) \subseteq Known23'
<1>1. f \in DOMAIN disk' /\ disk'[f] = Text(s) /\ \A g : g # f => Same(g)
  BY PutIs
<1>2. Unwritten(X, f[1]) \subseteq Known23'
  <2>1. \A g : g[1] # f[1] => Same(g)
    BY <1>1
  <2> QED
    BY <2>1, OthersStay
<1>3. ASSUME f = BrBct PROVE Br({"made"}) \subseteq Known23' /\ X \cap Br({"goodA"}) \subseteq Known23'
  <2>1. Br({"made"}) = {<<"br", "made">>} /\ <<"br", "made">> \in Facts
    BY DEF Br, Facts, BrKinds
  <2>2. BrIs("made")'
    BY <1>1, <1>3, TextIs DEF BrIs
  <2>3. Holds(<<"br", "made">>)'
    BY <2>2 DEF Holds
  <2>4. \A g \in BrFiles("goodA") : Same(g)
    BY <1>1, <1>3, BrFilesAre, BrFileNames, BrNotListed
  <2> QED
    BY <2>1, <2>3, <2>4, NowKnown, BrStay
<1> QED
  BY <1>2, <1>3 DEF AfterMake, If

LEMMA SignableAppend ==
  ASSUME NEW s, Signable(s), NEW x, x # "unsigned"
  PROVE  Signable(Append(s, x)) /\ Append(s, x) # <<>>
<1>1. IsSeq(s) /\ DOMAIN s = 1..Len(s) /\ Len(s) \in Nat /\ \A i \in DOMAIN s : s[i] # "unsigned"
  BY IsSeqParts DEF Signable
<1> DEFINE t == Append(s, x)
<1>2. IsSeq(t) /\ t # <<>> /\ Len(t) = Len(s) + 1 /\ t[Len(s) + 1] = x /\ \A i \in 1..Len(s) : t[i] = s[i]
  BY <1>1, IsSeqAppend
<1>3. DOMAIN t = 1..Len(t)
  BY <1>2, IsSeqParts
<1> HIDE DEF t
<1>4. ASSUME NEW i \in DOMAIN t PROVE t[i] # "unsigned"
  <2>1. i \in 1..Len(s) \/ i = Len(s) + 1
    BY <1>1, <1>2, <1>3
  <2> QED
    BY <1>1, <1>2, <2>1
<1>5. Signable(t) /\ t # <<>>
  BY <1>2, <1>4 DEF Signable
<1> QED
  BY <1>5 DEF t

LEMMA PureEdited ==
  ASSUME NEW c, Pure(c), NEW x, x # "unsigned"
  PROVE  /\ Pure([c EXCEPT !.is = Append(@, x)]) /\ [c EXCEPT !.is = Append(@, x)].is # <<>>
         /\ [c EXCEPT !.is = Append(@, x)].mb1 = c.mb1
         /\ Signable(Append(c.is, x)) /\ Append(c.is, x) # <<>>
<1>1. DOMAIN c = {"is", "mb1", "sig", "sha"} /\ Signable(c.is)
  BY DEF Pure
<1>2. Signable(Append(c.is, x)) /\ Append(c.is, x) # <<>>
  BY <1>1, SignableAppend
<1> DEFINE d == [c EXCEPT !.is = Append(@, x)]
<1>3. DOMAIN d = {"is", "mb1", "sig", "sha"} /\ d.is = Append(c.is, x) /\ d.mb1 = c.mb1
  BY <1>1
<1> HIDE DEF d
<1>4. Pure(d) /\ d.is # <<>> /\ d.mb1 = c.mb1
  BY <1>2, <1>3 DEF Pure
<1> QED
  BY <1>2, <1>4 DEF d

LEMMA PureAbsent == Pure(Absent)
<1>1. IsSeq(<<>>)
  BY IsSeqShort
<1>4. DOMAIN <<>> = {}
  OBVIOUS
<1>2. Signable(<<>>)
  BY <1>1, <1>4 DEF Signable
<1>3. Text(<<>>) = Absent
  BY DEF Text, Absent
<1> QED
  BY <1>2, <1>3, TextIs

\* What a file of an image, or of none, holds.
LEMMA PureContents ==
  ASSUME Clean, NEW r, Name(r)[1] \in Plain \cup {"br_bct"}
  PROVE  Pure(Contents(r))
<1>1. CASE Name(r) \in DOMAIN disk
  BY <1>1 DEF Clean, Contents, Exists
<1>2. CASE Name(r) \notin DOMAIN disk
  BY <1>2, PureAbsent DEF Contents, Exists
<1> QED
  BY <1>1, <1>2

LEMMA NameIs ==
  /\ \A f : Name(F(f)) = f /\ F(f)[1] = "file" /\ F(f)[2] = f
  /\ \A k : Name(K(k)) = kept[k]
  /\ \A t : Name(S(t)) = list[t] /\ S(t)[1] = "list"
  /\ \A r : r[1] = "file" => Name(r) = r[2]
<1>1. \A f : Name(F(f)) = f /\ F(f)[1] = "file" /\ F(f)[2] = f
  BY DEF Name, F
<1>2. \A k : Name(K(k)) = kept[k]
  BY DEF Name, K
<1>3. \A t : Name(S(t)) = list[t] /\ S(t)[1] = "list"
  BY DEF Name, S
<1>4. \A r : r[1] = "file" => Name(r) = r[2]
  BY DEF Name
<1> QED
  BY <1>1, <1>2, <1>3, <1>4

LEMMA SignersArePlain ==
  /\ Signers \subseteq Plain /\ "mb1" \in Plain /\ "psc" \in Plain /\ "br_bct" \notin Plain
  /\ "mb1" \notin Signers /\ "psc" \notin Signers
  BY DEF Plain, Signers

LEMMA MbSame ==
  ASSUME Quietly, Same(list["mb1"])
  PROVE  Contents(S("mb1"))' = Contents(S("mb1"))
<1>1. Contents(S("mb1")) = IF list["mb1"] \in DOMAIN disk THEN disk[list["mb1"]] ELSE Absent
  BY NameIs DEF Contents, Exists
<1>2. S("mb1")[1] = "list" /\ S("mb1")[2] = "mb1"
  BY DEF S
<1>3. Name(S("mb1"))' = list'["mb1"]
  BY <1>2 DEF Name
<1>4. Contents(S("mb1"))' = IF list'["mb1"] \in DOMAIN disk' THEN disk'[list'["mb1"]] ELSE Absent
  BY <1>3 DEF Contents, Exists
<1> QED
  BY <1>1, <1>4 DEF Quietly, Same

\* A file of a BR-BCT is changed, of which less is known after that.
LEMMA EditListKnown ==
  ASSUME Quietly, Listed, Clean, NEW X, X \subseteq Known23, NEW x, x # "unsigned", Exists(list["mb1"]),
         Put(list["mb1"], [Contents(S("mb1")) EXCEPT !.is = Append(@, x)])
  PROVE  AfterEdit(S("mb1"), X) \subseteq Known23'
<1> DEFINE f == list["mb1"]
           c == Contents(S("mb1"))
           d == [c EXCEPT !.is = Append(@, x)]
<1>1. f \in DOMAIN disk' /\ disk'[f] = d /\ \A g : g # f => Same(g)
  BY PutIs
<1>2. f[1] = "mb1" /\ list["psc"][1] = "psc"
  BY DEF Listed, Named
<1>3. Pure(c)
  BY <1>2, NameIs, PureContents, SignersArePlain
<1>4. d.is # <<>>
  BY <1>3, PureEdited
<1> HIDE DEF f, c, d
<1>5. Unwritten(X, "mb1") \subseteq Known23'
  <2>1. \A g : g[1] # "mb1" => Same(g)
    BY <1>1, <1>2
  <2> QED
    BY <2>1, OthersStay
<1>6. ASSUME <<"list", "made">> \in X PROVE <<"list", "made">> \in Known23'
  <2>1. <<"list", "made">> \in Facts /\ Holds(<<"list", "made">>)
    BY <1>6 DEF Known23
  <2>2. Heard' => Heard
    BY DEF Heard, Quietly
  <2>3. Heard => list["psc"] \in DOMAIN disk /\ disk[list["psc"]].is # <<>>
    BY <2>1 DEF Holds, ListIs
  <2>4. Same(list["psc"])
    BY <1>1, <1>2
  <2>5. Heard => list["psc"] \in DOMAIN disk' /\ disk'[list["psc"]].is # <<>>
    BY <2>3, <2>4 DEF Same
  <2>6. Heard' => ListIs("made")'
    BY <1>1, <1>4, <2>2, <2>5 DEF ListIs, Quietly, f
  <2>7. Holds(<<"list", "made">>)'
    BY <2>6 DEF Holds
  <2> QED
    BY <2>1, <2>7, NowKnown
<1> QED
  BY <1>5, <1>6 DEF AfterEdit

LEMMA EditKnown ==
  ASSUME Quietly, Listed, Clean, NEW X, X \subseteq Known23, NEW f, NEW x, x # "unsigned", Exists(f),
         Put(f, [Contents(F(f)) EXCEPT !.is = Append(@, x)])
  PROVE  AfterEdit(F(f), X) \subseteq Known23'
<1> DEFINE c == Contents(F(f))
           d == [c EXCEPT !.is = Append(@, x)]
<1>1. f \in DOMAIN disk' /\ disk'[f] = d /\ \A g : g # f => Same(g)
  BY PutIs
<1>2. Unwritten(X, f[1]) \subseteq Known23'
  <2>1. \A g : g[1] # f[1] => Same(g)
    BY <1>1
  <2> QED
    BY <2>1, OthersStay
<1>3. ASSUME f = BrBct PROVE X \cap Br({"goodA"}) \subseteq Known23'
  <2>1. \A g \in BrFiles("goodA") : Same(g)
    BY <1>1, <1>3, BrFilesAre, BrFileNames, BrNotListed
  <2> QED
    BY <2>1, BrStay
<1>4. ASSUME f # BrBct, f[1] = "br_bct" PROVE X \cap Br({"made", "digested"}) \subseteq Known23'
  <2>1. \A k \in {"made", "digested"} : \A g \in BrFiles(k) : Same(g)
    BY <1>1, <1>4, BrFilesAre, BrNotListed
  <2> QED
    BY <2>1, BrStay
<1>5. ASSUME f = BrBct PROVE X \cap Br({"made", "digested"}) \subseteq Known23'
  <2>1. Pure(c)
    <3>1. Name(F(f))[1] = "br_bct"
      BY <1>5, NameIs, BrFileNames DEF Named
    <3> QED
      BY <3>1, PureContents
  <2>2. Pure(d) /\ d.is # <<>> /\ d.mb1 = c.mb1
    BY <2>1, PureEdited
  <2>3. c = disk[BrBct]
    BY <1>5, NameIs DEF Contents, Exists
  <2> HIDE DEF c, d
  <2>4. ASSUME NEW k \in {"made", "digested"}, <<"br", k>> \in X PROVE Holds(<<"br", k>>)'
    <3>1. Holds(<<"br", k>>) /\ (Heard' => Heard)
      BY <2>4 DEF Known23, Heard, Quietly
    <3>2. CASE k = "made"
      <4>1. BrIs("made")'
        BY <1>1, <1>5, <2>2 DEF BrIs
      <4> QED
        BY <3>2, <4>1 DEF Holds
    <3>3. CASE k = "digested"
      <4>1. Heard' => disk[BrBct].mb1 = Contents(S("mb1")).is
        BY <3>1, <3>3 DEF Holds, BrIs, NamesMb1
      <4>2. Same(list["mb1"])
        BY <1>1, <1>5, BrNotListed
      <4>3. Heard' => NamesMb1(BrBct)'
        BY <1>1, <1>5, <2>2, <2>3, <4>1, <4>2, MbSame DEF NamesMb1
      <4>4. Heard' => BrIs("digested")'
        BY <4>3 DEF BrIs
      <4> QED
        BY <3>3, <4>4 DEF Holds
    <3> QED
      BY <3>2, <3>3
  <2>5. ASSUME NEW y \in X \cap Br({"made", "digested"}) PROVE y \in Known23'
    <3>1. PICK k \in {"made", "digested"} : y = <<"br", k>>
      BY <2>5 DEF Br
    <3>2. y \in Facts
      BY <2>5 DEF Known23
    <3> QED
      BY <2>4, <2>5, <3>1, <3>2, NowKnown
  <2> QED
    BY <2>5
<1>6. Unsent(f, X) \subseteq Known23'
  BY <1>4, <1>5 DEF Unsent, If
<1>7. F(f) # S("mb1") /\ F(f)[2] = f /\ (F(f) = F(BrBct) => f = BrBct)
  BY DEF F, S
<1> QED
  <2> HIDE DEF F, S
  <2> QED
    BY <1>2, <1>3, <1>6, <1>7 DEF AfterEdit, If

\* Facts of a kind about the images that are signed one by one.
LEMMA SignerFact ==
  ASSUME NEW k \in {"header", "sigfile", "attached", "signed"}, NEW h \in Signers
  PROVE  <<k, h>> \in Facts
  BY DEF Facts

\* A known fact holds, and what it says counts as long as all failures are heard.
LEMMA IsKnown ==
  ASSUME Quietly, NEW X, X \subseteq Known23
  PROVE  /\ \A x \in X : x \in Facts /\ Holds(x)
         /\ Heard' <=> Heard
         /\ Way' = Way
  BY SameWay DEF Known23, Heard, Quietly

LEMMA NamesStay ==
  ASSUME Way' = Way, NEW h
  PROVE  HeaderOf(Way, h)' = HeaderOf(Way, h) /\ ResultOf(Way, h)' = ResultOf(Way, h)
         /\ HeaderOf(Way', h) = HeaderOf(Way, h) /\ ResultOf(Way', h) = ResultOf(Way, h)
  BY DEF HeaderOf, ResultOf, FileOf, T23!Aligned, T23!OemSigned, Given

LEMMA CopyKnown ==
  ASSUME Quietly, Listed, NEW X, X \subseteq Known23, NEW r, NEW f, Exists(Name(r)), Put(f, Contents(r))
  PROVE  AfterCopy(Way, r, f, X) \subseteq Known23'
<1>1. f \in DOMAIN disk' /\ disk'[f] = disk[Name(r)] /\ \A g : g # f => Same(g)
  BY PutIs DEF Contents
<1>2. Unwritten(X, f[1]) \subseteq Known23'
  <2>1. \A g : g[1] # f[1] => Same(g)
    BY <1>1
  <2> QED
    BY <2>1, OthersStay
<1>3. ASSUME NEW h \in Signers, r = F(SignedOf(HeaderOf(Way, h))), f = ResultOf(Way, h), <<"attached", h>> \in X
      PROVE  <<"signed", h>> \in Known23'
  <2>1. Holds(<<"attached", h>>) /\ (Heard' <=> Heard) /\ Way' = Way
    BY <1>3, IsKnown
  <2>2. Heard' => Signed(disk[Name(r)])
    BY <1>3, <2>1, NameIs DEF Holds, IsSigned
  <2>3. Heard' => IsSigned(f)'
    BY <1>1, <2>2 DEF IsSigned, Signed, Pieces, Body
  <2>4. Heard' => IsSigned(ResultOf(Way, h))'
    BY <1>3, <2>1, <2>3, NamesStay DEF IsSigned
  <2>5. Holds(<<"signed", h>>)'
    BY <2>4 DEF Holds
  <2> QED
    BY <2>5, SignerFact, NowKnown
<1>4. ASSUME NEW x \in {x \in {"signed"} \X Signers : /\ r = F(SignedOf(HeaderOf(Way, x[2]))) /\ f = ResultOf(Way, x[2])
                                                       /\ <<"attached", x[2]>> \in X}
      PROVE  x \in Known23'
  <2>1. x = <<"signed", x[2]>> /\ x[2] \in Signers
    BY <1>4
  <2> QED
    BY <1>3, <1>4, <2>1
<1> QED
  BY <1>2, <1>4 DEF AfterCopy

LEMMA HeaderKnown ==
  ASSUME Quietly, Listed, Clean, NEW X, X \subseteq Known23, NEW r, NEW f, Target(r, f),
         Put(f, Text(Append(Contents(r).is, "header")))
  PROVE  AfterHeader(Way, f, X) \subseteq Known23'
<1> DEFINE c == Text(Append(Contents(r).is, "header"))
<1>1. f \in DOMAIN disk' /\ disk'[f] = c /\ \A g : g # f => Same(g)
  BY PutIs
<1>2. Unwritten(X, f[1]) \subseteq Known23'
  <2>1. \A g : g[1] # f[1] => Same(g)
    BY <1>1
  <2> QED
    BY <2>1, OthersStay
<1>3. ASSUME NEW h \in Signers, f = HeaderOf(Way, h) PROVE <<"header", h>> \in Known23'
  <2>1. f[1] = h /\ Name(r)[1] = h
    <3>1. f[1] = h
      BY <1>3, ResultNames DEF Named
    <3> QED
      BY <3>1, NameIs DEF Target
  <2>2. Pure(Contents(r))
    BY <2>1, PureContents, SignersArePlain
  <2>3. Append(Contents(r).is, "header") # <<>>
    BY <2>2, SignableAppend DEF Pure
  <2>4. c.is # <<>>
    BY <2>3, TextIs
  <2> HIDE DEF c
  <2>5. Way' = Way
    BY IsKnown
  <2>6. IsHeader(HeaderOf(Way, h))'
    BY <1>1, <1>3, <2>4, <2>5, NamesStay DEF IsHeader
  <2>7. Holds(<<"header", h>>)'
    BY <2>6 DEF Holds
  <2> QED
    BY <2>7, SignerFact, NowKnown
<1>4. ASSUME NEW x \in {x \in {"header"} \X Signers : f = HeaderOf(Way, x[2])} PROVE x \in Known23'
  <2>1. x = <<"header", x[2]>> /\ x[2] \in Signers
    BY <1>4
  <2> QED
    BY <1>3, <1>4, <2>1
<1> QED
  BY <1>2, <1>4 DEF AfterHeader

\* Facts of the BR-BCT that one file of it tells.
LEMMA GoodIs ==
  ASSUME Quietly, NEW f, NEW g, Same(list["mb1"]), f \in DOMAIN disk', disk'[f] = disk[g], Good(g)
  PROVE  Good(f)'
<1>1. IsSigned(f)'
  BY DEF Good, IsSigned, Signed, Pieces, Body
<1>2. Hashed(disk'[f])
  BY DEF Good
<1>3. NamesMb1(f)'
  BY MbSame DEF Good, NamesMb1
<1>4. Hashed(disk[f])'
  BY <1>2 DEF Hashed, Body
<1> QED
  BY <1>1, <1>3, <1>4 DEF Good

LEMMA RenameKnown ==
  ASSUME Quietly, Listed, NEW X, X \subseteq Known23, NEW k \in {"bct", "chain_A"}, <<"kept", k>> \in X,
         NEW f \in {BrBct, ABr, BBr},
         disk' = [g \in (DOMAIN disk \ {kept[k]}) \cup {f} |-> IF g = f THEN Contents(K(k)) ELSE disk[g]]
  PROVE  AfterRename(k, f, X) \subseteq Known23'
<1> DEFINE old == kept[k]
<1>1. old = IF k = "bct" THEN BrBct ELSE ABr
  <2>1. Holds(<<"kept", k>>)
    BY IsKnown
  <2>2. kept[k] = Expected(Way, k)
    BY <2>1 DEF Holds, KeptIs
  <2> QED
    BY <2>2 DEF Expected
<1>2. /\ f \in DOMAIN disk' /\ disk'[f] = Contents(K(k))
      /\ \A g : g # f /\ g # old => Same(g)
  BY DEF Same
<1>3. Contents(K(k)) = IF old \in DOMAIN disk THEN disk[old] ELSE Absent
  BY NameIs DEF Contents, Exists
<1> HIDE DEF old
<1>4. f[1] = "br_bct" /\ old[1] = "br_bct"
  <2>1. BrBct[1] = "br_bct" /\ ABr[1] = "br_bct" /\ BBr[1] = "br_bct"
    BY BrFileNames DEF Named
  <2> QED
    BY <1>1, <2>1
<1>5. Unwritten(X, "br_bct") \subseteq Known23'
  <2>1. \A g : g[1] # "br_bct" => Same(g)
    BY <1>2, <1>4
  <2> QED
    BY <2>1, OthersStay
<1>6. Same(list["mb1"])
  BY <1>2, <1>4, BrNotListed
<1>7. /\ Br({"good"}) = {<<"br", "good">>} /\ Br({"goodA"}) = {<<"br", "goodA">>}
      /\ <<"br", "good">> \in Facts /\ <<"br", "goodA">> \in Facts
  BY DEF Br, Facts, BrKinds
<1>8. ASSUME k = "bct", f = ABr, <<"br", "good">> \in X PROVE Br({"goodA"}) \subseteq Known23'
  <2>1. Holds(<<"br", "good">>) /\ (Heard' <=> Heard)
    BY <1>8, IsKnown
  <2>2. Heard' => Good(BrBct)
    BY <2>1 DEF Holds, BrIs
  <2>3. Heard' => BrBct \in DOMAIN disk
    BY <2>2 DEF Good, IsSigned
  <2>4. Heard' => disk'[ABr] = disk[BrBct] /\ ABr \in DOMAIN disk'
    BY <1>1, <1>2, <1>3, <1>8, <2>3
  <2>5. Heard' => Good(ABr)'
    BY <1>6, <2>2, <2>4, GoodIs
  <2>6. Holds(<<"br", "goodA">>)'
    BY <2>5 DEF Holds, BrIs
  <2> QED
    BY <1>7, <2>6, NowKnown
<1>9. ASSUME k = "bct", f = BBr PROVE X \cap Br({"goodA"}) \subseteq Known23'
  <2>1. \A g \in BrFiles("goodA") : Same(g)
    BY <1>1, <1>2, <1>6, <1>9, BrFilesAre, BrFileNames
  <2> QED
    BY <2>1, BrStay
<1>10. ASSUME k = "chain_A", f = BrBct, <<"br", "goodA">> \in X PROVE Br({"good"}) \subseteq Known23'
  <2>1. Holds(<<"br", "goodA">>) /\ (Heard' <=> Heard)
    BY <1>10, IsKnown
  <2>2. Heard' => Good(ABr)
    BY <2>1 DEF Holds, BrIs
  <2>3. Heard' => ABr \in DOMAIN disk
    BY <2>2 DEF Good, IsSigned
  <2>4. Heard' => disk'[BrBct] = disk[ABr] /\ BrBct \in DOMAIN disk'
    BY <1>1, <1>2, <1>3, <1>10, <2>3
  <2>5. Heard' => Good(BrBct)'
    BY <1>6, <2>2, <2>4, GoodIs
  <2>6. Holds(<<"br", "good">>)'
    BY <2>5 DEF Holds, BrIs
  <2> QED
    BY <1>7, <2>6, NowKnown
<1> QED
  BY <1>5, <1>8, <1>9, <1>10 DEF AfterRename, If

LEMMA PureOf ==
  ASSUME NEW c, Pure(c), NEW d, DOMAIN d = DOMAIN c, d.is = c.is
  PROVE  Pure(d)
  BY DEF Pure

LEMMA FieldSet ==
  ASSUME NEW c, Pure(c), NEW v
  PROVE  /\ Pure([c EXCEPT !.sig = v]) /\ [c EXCEPT !.sig = v].is = c.is /\ [c EXCEPT !.sig = v].mb1 = c.mb1
         /\ [c EXCEPT !.sig = v].sig = v
         /\ Pure([c EXCEPT !.sha = v]) /\ [c EXCEPT !.sha = v].is = c.is /\ [c EXCEPT !.sha = v].mb1 = c.mb1
         /\ [c EXCEPT !.sha = v].sig = c.sig /\ [c EXCEPT !.sha = v].sha = v
         /\ Pure([c EXCEPT !.mb1 = v]) /\ [c EXCEPT !.mb1 = v].is = c.is /\ [c EXCEPT !.mb1 = v].mb1 = v
<1>1. DOMAIN c = {"is", "mb1", "sig", "sha"}
  BY DEF Pure
<1> DEFINE a == [c EXCEPT !.sig = v]
           b == [c EXCEPT !.sha = v]
           e == [c EXCEPT !.mb1 = v]
<1>2. DOMAIN a = DOMAIN c /\ a.is = c.is /\ a.mb1 = c.mb1 /\ a.sig = v
  BY <1>1
<1>3. DOMAIN b = DOMAIN c /\ b.is = c.is /\ b.mb1 = c.mb1 /\ b.sig = c.sig /\ b.sha = v
  BY <1>1
<1>4. DOMAIN e = DOMAIN c /\ e.is = c.is /\ e.mb1 = v
  BY <1>1
<1> HIDE DEF a, b, e
<1>5. Pure(a) /\ Pure(b) /\ Pure(e)
  BY <1>2, <1>3, <1>4, PureOf
<1>6. /\ Pure(a) /\ a.is = c.is /\ a.mb1 = c.mb1 /\ a.sig = v
      /\ Pure(b) /\ b.is = c.is /\ b.mb1 = c.mb1 /\ b.sig = c.sig /\ b.sha = v
      /\ Pure(e) /\ e.is = c.is /\ e.mb1 = v
  BY <1>2, <1>3, <1>4, <1>5
<1> QED
  BY <1>6 DEF a, b, e

\* A signature of what a file is makes it signed.
LEMMA NowSigned ==
  ASSUME NEW c, Pure(c), c.is # <<>>
  PROVE  Signed([c EXCEPT !.sig = Body(c)])
<1> DEFINE d == [c EXCEPT !.sig = Body(c)]
<1>1. Pure(d) /\ d.is = c.is /\ d.mb1 = c.mb1 /\ d.sig = Body(c)
  BY FieldSet
<1> HIDE DEF d
<1>2. Pieces("unsigned", d) = {}
  BY <1>1 DEF Pure, Signable, Pieces
<1>3. Body(d) = Body(c)
  BY <1>1 DEF Body
<1>4. Signed(d)
  BY <1>1, <1>2, <1>3 DEF Signed
<1> QED
  BY <1>4 DEF d

\* What a file is stays when it is signed.
LEMMA SignKnown ==
  ASSUME Quietly, Listed, NEW X, X \subseteq Known23, NEW r, NEW s, Target(r, s),
         disk' = Written([g \in {s \o <<"sig">>, s \o <<"signed">>} |-> Contents(r)])
  PROVE  AfterSign(Way, r, s, X) \subseteq Known23'
<1> DEFINE new == [g \in {s \o <<"sig">>, s \o <<"signed">>} |-> Contents(r)]
<1>1. disk' = Written(new) /\ DOMAIN new = {SigOf(s), SignedOf(s)}
      /\ new[SigOf(s)] = Contents(r) /\ new[SignedOf(s)] = Contents(r)
  BY DEF SigOf, SignedOf
<1> HIDE DEF new
<1>2. /\ SigOf(s) \in DOMAIN disk' /\ SignedOf(s) \in DOMAIN disk'
      /\ disk'[SigOf(s)] = Contents(r) /\ disk'[SignedOf(s)] = Contents(r)
      /\ \A g : g # SigOf(s) /\ g # SignedOf(s) => Same(g)
  BY <1>1, WrittenIs
<1>3. SigOf(s)[1] = s[1] /\ SignedOf(s)[1] = s[1] /\ IsName(s)
  BY Appended DEF Target, Named, SigOf, SignedOf
<1>4. SigOf(s) \notin {BrBct, ABr, BBr} /\ SignedOf(s) \notin {BrBct, ABr, BBr}
  BY <1>3, BrSuffixes DEF SigOf, SignedOf
<1>5. Unwritten(X, s[1]) \subseteq Known23'
  <2>1. \A g : g[1] # s[1] => Same(g)
    BY <1>2, <1>3
  <2> QED
    BY <2>1, OthersStay
<1>6. Same(BrBct) /\ Same(ABr) /\ (s[1] = "br_bct" => Same(list["mb1"]))
  BY <1>2, <1>3, <1>4, BrNotListed
<1>7. Unsent(s, X) \subseteq Known23'
  <2>1. s[1] = "br_bct" => \A k \in {"made", "digested"} : \A g \in BrFiles(k) : Same(g)
    BY <1>6, BrFilesAre
  <2> QED
    BY <2>1, BrStay DEF Unsent, If
<1>8. ASSUME NEW h \in Signers, s = HeaderOf(Way, h), r = F(s), <<"header", h>> \in X
      PROVE  <<"sigfile", h>> \in Known23'
  <2>1. Holds(<<"header", h>>) /\ (Heard' <=> Heard) /\ Way' = Way
    BY <1>8, IsKnown
  <2>2. Heard' => s \in DOMAIN disk /\ disk[s].is # <<>>
    BY <1>8, <2>1 DEF Holds, IsHeader
  <2>3. Heard' => Contents(r) = disk[s]
    BY <1>8, <2>2, NameIs DEF Contents, Exists
  <2>4. Heard' => IsHeader(SignedOf(s))'
    BY <1>2, <2>2, <2>3 DEF IsHeader
  <2>5. HasSig(SignedOf(s), SigOf(s))'
    BY <1>2 DEF HasSig, Body
  <2>6. HeaderOf(Way, h)' = s
    BY <1>8, <2>1, NamesStay
  <2>7. Holds(<<"sigfile", h>>)'
    BY <2>4, <2>5, <2>6 DEF Holds, IsHeader, HasSig
  <2> QED
    BY <2>7, SignerFact, NowKnown
<1>9. ASSUME s = BrBct, r = F(s)
      PROVE  X \cap Br({"goodA"}) \subseteq Known23' /\ (<<"br", "made">> \in X => Br({"sigfile"}) \subseteq Known23')
  <2>1. s[1] = "br_bct"
    BY <1>9, BrFileNames DEF Named
  <2>2. X \cap Br({"goodA"}) \subseteq Known23'
    <3>1. \A k \in {"goodA"} : \A g \in BrFiles(k) : Same(g)
      BY <1>6, <2>1, BrFilesAre
    <3> QED
      BY <3>1, BrStay
  <2>3. ASSUME <<"br", "made">> \in X PROVE Br({"sigfile"}) \subseteq Known23'
    <3>1. Holds(<<"br", "made">>) /\ (Heard' <=> Heard)
      BY <2>3, IsKnown
    <3>2. Heard' => BrBct \in DOMAIN disk
      BY <3>1 DEF Holds, BrIs
    <3>3. Heard' => Contents(r) = disk[BrBct] /\ disk'[BrBct] = disk[BrBct] /\ BrBct \in DOMAIN disk'
      BY <1>6, <1>9, <3>2, NameIs DEF Contents, Exists, Same
    <3>4. Heard' => HasSig(BrBct, SigOf(BrBct))'
      BY <1>2, <1>9, <3>3 DEF HasSig, Body
    <3>5. Holds(<<"br", "sigfile">>)'
      BY <3>4 DEF Holds, BrIs
    <3>6. Br({"sigfile"}) = {<<"br", "sigfile">>} /\ <<"br", "sigfile">> \in Facts
      BY DEF Br, Facts, BrKinds
    <3> QED
      BY <3>5, <3>6, NowKnown
  <2> QED
    BY <2>2, <2>3
<1>10. ASSUME NEW x \in {x \in {"sigfile"} \X Signers : s = HeaderOf(Way, x[2]) /\ r = F(s) /\ <<"header", x[2]>> \in X}
       PROVE  x \in Known23'
  <2>1. x = <<"sigfile", x[2]>> /\ x[2] \in Signers
    BY <1>10
  <2> QED
    BY <1>8, <1>10, <2>1
<1> QED
  BY <1>5, <1>7, <1>9, <1>10 DEF AfterSign, If

\* A file of the BR-BCT changes, but neither what it is nor its hash.
LEMMA BrEdited ==
  ASSUME Quietly, Listed, NEW X, X \subseteq Known23, NEW d, Put(BrBct, d), Pure(d),
         d.mb1 = Contents(F(BrBct)).mb1, Contents(F(BrBct)).is # <<>> => d.is # <<>>
  PROVE  X \cap Br({"made", "digested"}) \subseteq Known23'
<1>1. BrBct \in DOMAIN disk' /\ disk'[BrBct] = d /\ \A g : g # BrBct => Same(g)
  BY PutIs
<1>2. BrBct \in DOMAIN disk => Contents(F(BrBct)) = disk[BrBct]
  BY NameIs DEF Contents, Exists
<1>3. ASSUME <<"br", "made">> \in X PROVE Holds(<<"br", "made">>)'
  <2>1. Holds(<<"br", "made">>) /\ (Heard' <=> Heard)
    BY <1>3, IsKnown
  <2>2. Heard' => BrBct \in DOMAIN disk /\ disk[BrBct].is # <<>>
    BY <2>1 DEF Holds, BrIs
  <2>3. Heard' => BrIs("made")'
    BY <1>1, <1>2, <2>2 DEF BrIs
  <2> QED
    BY <2>3 DEF Holds
<1>4. ASSUME <<"br", "digested">> \in X PROVE Holds(<<"br", "digested">>)'
  <2>1. Holds(<<"br", "digested">>) /\ (Heard' <=> Heard)
    BY <1>4, IsKnown
  <2>2. Heard' => BrBct \in DOMAIN disk /\ disk[BrBct].mb1 = Contents(S("mb1")).is
    BY <2>1 DEF Holds, BrIs, NamesMb1
  <2>3. Same(list["mb1"])
    BY <1>1, BrNotListed
  <2>4. Heard' => NamesMb1(BrBct)'
    BY <1>1, <1>2, <2>2, <2>3, MbSame DEF NamesMb1
  <2>5. Heard' => BrIs("digested")'
    BY <2>4 DEF BrIs
  <2> QED
    BY <2>5 DEF Holds
<1>5. ASSUME NEW y \in X \cap Br({"made", "digested"}) PROVE y \in Known23'
  <2>1. y \in {<<"br", "made">>, <<"br", "digested">>} /\ y \in Facts
    BY <1>5 DEF Br, Known23
  <2> QED
    BY <1>3, <1>4, <1>5, <2>1, NowKnown
<1> QED
  BY <1>5

LEMMA BrContents ==
  ASSUME Clean
  PROVE  /\ Pure(Contents(F(BrBct))) /\ (BrBct \in DOMAIN disk => Contents(F(BrBct)) = disk[BrBct])
<1>1. Name(F(BrBct)) = BrBct /\ BrBct[1] = "br_bct"
  BY NameIs, BrFileNames DEF Named
<1> QED
  BY <1>1, PureContents DEF Contents, Exists

LEMMA AttachKnown ==
  ASSUME Quietly, Listed, Clean, NEW X, X \subseteq Known23, NEW r, NEW s, Target(r, s),
         Exists(s \o <<"sig">>), Put(Name(r), [Contents(r) EXCEPT !.sig = Body(disk[s \o <<"sig">>])])
  PROVE  AfterAttach(Way, r, s, X) \subseteq Known23'
<1> DEFINE f == Name(r)
           b == Body(disk[SigOf(s)])
           d == [Contents(r) EXCEPT !.sig = b]
<1>1. f \in DOMAIN disk' /\ disk'[f] = d /\ (\A g : g # f => Same(g)) /\ Put(f, d)
  BY PutIs DEF SigOf
<1>2. f[1] = s[1]
  BY NameIs DEF Target
<1>3. f[1] \in Plain \cup {"br_bct"} => Pure(Contents(r))
  BY PureContents
<1> HIDE DEF f, b, d
<1>4. Unwritten(X, s[1]) \subseteq Known23'
  <2>1. \A g : g[1] # s[1] => Same(g)
    BY <1>1, <1>2
  <2> QED
    BY <2>1, OthersStay
<1>5. ASSUME s[1] = "br_bct", f # BrBct PROVE X \cap Br({"made", "digested"}) \subseteq Known23'
  <2>1. \A k \in {"made", "digested"} : \A g \in BrFiles(k) : Same(g)
    BY <1>1, <1>2, <1>5, BrFilesAre, BrNotListed
  <2> QED
    BY <2>1, BrStay
<1>6. ASSUME f = BrBct PROVE X \cap Br({"made", "digested"}) \subseteq Known23'
  <2>1. Contents(r) = Contents(F(BrBct)) /\ Pure(Contents(r))
    BY <1>6, NameIs, BrContents DEF Contents, f
  <2>2. Pure(d) /\ d.mb1 = Contents(r).mb1 /\ d.is = Contents(r).is
    BY <2>1, FieldSet DEF d
  <2> QED
    BY <1>1, <1>6, <2>1, <2>2, BrEdited
<1>7. Unsent(s, X) \subseteq Known23'
  BY <1>5, <1>6 DEF Unsent, If
<1>8. ASSUME NEW h \in Signers, s = HeaderOf(Way, h), r = F(SignedOf(s)), <<"sigfile", h>> \in X
      PROVE  <<"attached", h>> \in Known23'
  <2>1. Holds(<<"sigfile", h>>) /\ (Heard' <=> Heard) /\ Way' = Way
    BY <1>8, IsKnown
  <2>2. f = SignedOf(s) /\ f[1] = h
    <3>1. f = SignedOf(s) /\ Named(SignedOf(s), h)
      BY <1>8, NameIs, ResultNames DEF f
    <3> QED
      BY <3>1 DEF Named
  <2>3. Pure(Contents(r))
    BY <1>3, <2>2, SignersArePlain
  <2>4. Heard' => f \in DOMAIN disk /\ disk[f].is # <<>> /\ b = Body(disk[f])
    BY <1>8, <2>1, <2>2 DEF Holds, IsHeader, HasSig, b
  <2>5. Heard' => Contents(r) = disk[f]
    BY <2>4 DEF Contents, Exists, f
  <2>6. Heard' => Signed(d)
    <3>1. Heard' => d = [Contents(r) EXCEPT !.sig = Body(Contents(r))] /\ Contents(r).is # <<>>
      BY <2>4, <2>5 DEF d
    <3> QED
      BY <2>3, <3>1, NowSigned
  <2>7. SignedOf(HeaderOf(Way, h))' = f
    BY <1>8, <2>1, <2>2, NamesStay DEF SignedOf
  <2>8. Heard' => IsSigned(SignedOf(HeaderOf(Way, h)))'
    BY <1>1, <2>6, <2>7 DEF IsSigned, Signed, Pieces, Body
  <2>9. Holds(<<"attached", h>>)'
    BY <2>8 DEF Holds
  <2> QED
    BY <2>9, SignerFact, NowKnown
<1>9. ASSUME s = BrBct, r = F(s)
      PROVE  /\ X \cap Br({"goodA"}) \subseteq Known23'
             /\ Br({"made", "sigfile"}) \subseteq X => Br({"signed"}) \subseteq Known23'
  <2>1. f = BrBct
    BY <1>9, NameIs DEF f
  <2>2. X \cap Br({"goodA"}) \subseteq Known23'
    <3>1. \A k \in {"goodA"} : \A g \in BrFiles(k) : Same(g)
      BY <1>1, <2>1, BrFilesAre, BrFileNames, BrNotListed
    <3> QED
      BY <3>1, BrStay
  <2>3. ASSUME Br({"made", "sigfile"}) \subseteq X PROVE Br({"signed"}) \subseteq Known23'
    <3>1. <<"br", "made">> \in X /\ <<"br", "sigfile">> \in X
      BY <2>3 DEF Br
    <3>2. Holds(<<"br", "made">>) /\ Holds(<<"br", "sigfile">>) /\ (Heard' <=> Heard)
      BY <3>1, IsKnown
    <3>3. Heard' => BrBct \in DOMAIN disk /\ disk[BrBct].is # <<>>
      BY <3>2 DEF Holds, BrIs
    <3>4. Heard' => b = Body(disk[BrBct])
      BY <1>9, <3>2 DEF Holds, BrIs, HasSig, b
    <3>5. Pure(Contents(r)) /\ (Heard' => Contents(r) = disk[BrBct])
      BY <1>9, <3>3, BrContents
    <3>6. Heard' => Signed(d)
      <4>1. Heard' => d = [Contents(r) EXCEPT !.sig = Body(Contents(r))] /\ Contents(r).is # <<>>
        BY <3>3, <3>4, <3>5 DEF d
      <4> QED
        BY <3>5, <4>1, NowSigned
    <3>7. Heard' => IsSigned(BrBct)'
      BY <1>1, <2>1, <3>6 DEF IsSigned, Signed, Pieces, Body
    <3>8. Holds(<<"br", "signed">>)'
      BY <3>7 DEF Holds, BrIs
    <3>9. Br({"signed"}) = {<<"br", "signed">>} /\ <<"br", "signed">> \in Facts
      BY DEF Br, Facts, BrKinds
    <3> QED
      BY <3>8, <3>9, NowKnown
  <2> QED
    BY <2>2, <2>3
<1>10. ASSUME NEW x \in {x \in {"attached"} \X Signers : /\ s = HeaderOf(Way, x[2]) /\ r = F(SignedOf(s))
                                                          /\ <<"sigfile", x[2]>> \in X}
       PROVE  x \in Known23'
  <2>1. x = <<"attached", x[2]>> /\ x[2] \in Signers
    BY <1>10
  <2> QED
    BY <1>8, <1>10, <2>1
<1> QED
  BY <1>4, <1>7, <1>9, <1>10 DEF AfterAttach, If

LEMMA ShaKnown ==
  ASSUME Quietly, Listed, NEW X, X \subseteq Known23, Put(BrBct \o <<"sha">>, Contents(F(BrBct)))
  PROVE  AfterSha(X) \subseteq Known23'
<1> DEFINE f == ShaOf(BrBct)
           c == Contents(F(BrBct))
<1>1. f \in DOMAIN disk' /\ disk'[f] = c /\ \A g : g # f => Same(g)
  BY PutIs DEF ShaOf
<1>2. f[1] = "br_bct" /\ f \notin {BrBct, ABr, BBr}
  <2>1. Named(f, "br_bct") /\ IsName(BrBct)
    BY BrFileNames DEF Named
  <2>2. f \notin {BrBct, ABr, BBr}
    BY <2>1, BrSuffixes DEF ShaOf
  <2> QED
    BY <2>1, <2>2 DEF Named
<1> HIDE DEF f, c
<1>3. Unwritten(X, "br_bct") \subseteq Known23'
  <2>1. \A g : g[1] # "br_bct" => Same(g)
    BY <1>1, <1>2
  <2> QED
    BY <2>1, OthersStay
<1>4. Same(BrBct) /\ Same(ABr) /\ Same(list["mb1"])
  BY <1>1, <1>2, BrNotListed
<1>5. X \cap Br({"made", "digested", "signed", "goodA"}) \subseteq Known23'
  <2>1. \A k \in {"made", "digested", "signed", "goodA"} : \A g \in BrFiles(k) : Same(g)
    BY <1>4, BrFilesAre
  <2> QED
    BY <2>1, BrStay
<1>6. ASSUME <<"br", "made">> \in X PROVE Br({"shafile"}) \subseteq Known23'
  <2>1. Holds(<<"br", "made">>) /\ (Heard' <=> Heard)
    BY <1>6, IsKnown
  <2>2. Heard' => BrBct \in DOMAIN disk
    BY <2>1 DEF Holds, BrIs
  <2>3. Heard' => c = disk[BrBct] /\ disk'[BrBct] = disk[BrBct] /\ BrBct \in DOMAIN disk'
    BY <1>4, <2>2, NameIs DEF Contents, Exists, Same, c
  <2>4. Heard' => BrIs("shafile")'
    BY <1>1, <2>3 DEF BrIs, f
  <2>5. Holds(<<"br", "shafile">>)'
    BY <2>4 DEF Holds
  <2>6. Br({"shafile"}) = {<<"br", "shafile">>} /\ <<"br", "shafile">> \in Facts
    BY DEF Br, Facts, BrKinds
  <2> QED
    BY <2>5, <2>6, NowKnown
<1> QED
  BY <1>3, <1>5, <1>6 DEF AfterSha, If

LEMMA PutShaKnown ==
  ASSUME Quietly, Listed, Clean, NEW X, X \subseteq Known23, NEW c, c = disk[BrBct \o <<"sha">>],
         Put(BrBct, [Contents(F(BrBct)) EXCEPT !.sha = <<Body(c), c.sig>>])
  PROVE  AfterPutSha(X) \subseteq Known23'
<1> DEFINE e == Contents(F(BrBct))
           d == [e EXCEPT !.sha = <<Body(c), c.sig>>]
<1>1. BrBct \in DOMAIN disk' /\ disk'[BrBct] = d /\ \A g : g # BrBct => Same(g)
  BY PutIs
<1>2. Pure(e) /\ (BrBct \in DOMAIN disk => e = disk[BrBct])
  BY BrContents
<1>3. d.is = e.is /\ d.mb1 = e.mb1 /\ d.sig = e.sig /\ d.sha = <<Body(c), c.sig>>
  <2>1. PICK v : v = <<Body(c), c.sig>>
    OBVIOUS
  <2>2. d = [e EXCEPT !.sha = v]
    BY <2>1
  <2> HIDE DEF d, e
  <2>3. [e EXCEPT !.sha = v].is = e.is /\ [e EXCEPT !.sha = v].mb1 = e.mb1
        /\ [e EXCEPT !.sha = v].sig = e.sig /\ [e EXCEPT !.sha = v].sha = v
    BY <1>2, FieldSet
  <2> QED
    BY <2>1, <2>2, <2>3
<1> HIDE DEF d, e
<1>4. Unwritten(X, "br_bct") \subseteq Known23'
  <2>1. \A g : g[1] # "br_bct" => Same(g)
    BY <1>1, BrFileNames DEF Named
  <2> QED
    BY <2>1, OthersStay
<1>5. Same(ABr) /\ Same(list["mb1"])
  BY <1>1, BrFileNames, BrNotListed
<1>6. X \cap Br({"goodA"}) \subseteq Known23'
  <2>1. \A k \in {"goodA"} : \A g \in BrFiles(k) : Same(g)
    BY <1>5, BrFilesAre
  <2> QED
    BY <2>1, BrStay
<1>7. ASSUME Br({"made", "digested", "signed", "shafile"}) \subseteq X PROVE Br({"good"}) \subseteq Known23'
  <2>1. \A k \in {"made", "digested", "signed", "shafile"} : <<"br", k>> \in X
    BY <1>7 DEF Br
  <2>2. /\ Holds(<<"br", "made">>) /\ Holds(<<"br", "digested">>) /\ Holds(<<"br", "signed">>)
        /\ Holds(<<"br", "shafile">>) /\ (Heard' <=> Heard)
    BY <2>1, IsKnown
  <2>3. Heard' => e = disk[BrBct] /\ Signed(e)
    BY <1>2, <2>2 DEF Holds, BrIs, IsSigned
  <2>4. Heard' => c = e
    BY <2>2, <2>3 DEF Holds, BrIs, ShaOf
  <2>5. Heard' => e.mb1 = Contents(S("mb1")).is
    BY <2>2, <2>3 DEF Holds, BrIs, NamesMb1
  <2>6. Body(d) = Body(e) /\ Pieces("unsigned", d) = Pieces("unsigned", e)
    BY <1>3 DEF Body, Pieces
  <2>7. Heard' => Signed(d) /\ Hashed(d)
    BY <1>3, <2>3, <2>4, <2>6 DEF Signed, Hashed
  <2>8. Heard' => IsSigned(BrBct)'
    BY <1>1, <2>7 DEF IsSigned, Signed, Pieces, Body
  <2>9. Heard' => Hashed(disk[BrBct])'
    BY <1>1, <2>7 DEF Hashed, Body
  <2>10. Heard' => NamesMb1(BrBct)'
    BY <1>1, <1>3, <1>5, <2>5, MbSame DEF NamesMb1
  <2>11. Heard' => Good(BrBct)'
    BY <2>8, <2>9, <2>10 DEF Good
  <2>12. Holds(<<"br", "good">>)'
    BY <2>11 DEF Holds, BrIs
  <2>13. Br({"good"}) = {<<"br", "good">>} /\ <<"br", "good">> \in Facts
    BY DEF Br, Facts, BrKinds
  <2> QED
    BY <2>12, <2>13, NowKnown
<1> QED
  BY <1>4, <1>6, <1>7 DEF AfterPutSha, If

LEMMA DigestKnown ==
  ASSUME Quietly, Listed, Clean, NEW X, X \subseteq Known23,
         Put(BrBct, [Contents(F(BrBct)) EXCEPT !.mb1 = Contents(S("mb1")).is])
  PROVE  AfterDigest(X) \subseteq Known23'
<1> DEFINE e == Contents(F(BrBct))
           d == [e EXCEPT !.mb1 = Contents(S("mb1")).is]
<1>1. BrBct \in DOMAIN disk' /\ disk'[BrBct] = d /\ \A g : g # BrBct => Same(g)
  BY PutIs
<1>2. Pure(e) /\ (BrBct \in DOMAIN disk => e = disk[BrBct])
  BY BrContents
<1>3. Pure(d) /\ d.is = e.is /\ d.mb1 = Contents(S("mb1")).is
  <2>1. PICK v : v = Contents(S("mb1")).is
    OBVIOUS
  <2>2. d = [e EXCEPT !.mb1 = v]
    BY <2>1
  <2> HIDE DEF d, e
  <2> DEFINE b == [e EXCEPT !.mb1 = v]
  <2>3. DOMAIN b = DOMAIN e /\ b.is = e.is /\ b.mb1 = v
    BY <1>2 DEF Pure
  <2> HIDE DEF b
  <2>4. Pure(b)
    BY <1>2, <2>3, PureOf
  <2> QED
    BY <2>1, <2>2, <2>3, <2>4 DEF b
<1> HIDE DEF d, e
<1>4. Unwritten(X, "br_bct") \subseteq Known23'
  <2>1. \A g : g[1] # "br_bct" => Same(g)
    BY <1>1, BrFileNames DEF Named
  <2> QED
    BY <2>1, OthersStay
<1>5. Same(ABr) /\ Same(list["mb1"])
  BY <1>1, BrFileNames, BrNotListed
<1>6. X \cap Br({"goodA"}) \subseteq Known23'
  <2>1. \A k \in {"goodA"} : \A g \in BrFiles(k) : Same(g)
    BY <1>5, BrFilesAre
  <2> QED
    BY <2>1, BrStay
<1>7. ASSUME <<"br", "made">> \in X PROVE Br({"made", "digested"}) \subseteq Known23'
  <2>1. Holds(<<"br", "made">>) /\ (Heard' <=> Heard)
    BY <1>7, IsKnown
  <2>2. Heard' => e.is # <<>>
    BY <1>2, <2>1 DEF Holds, BrIs
  <2>3. Heard' => BrIs("made")'
    BY <1>1, <1>3, <2>2 DEF BrIs
  <2>4. NamesMb1(BrBct)'
    BY <1>1, <1>3, <1>5, MbSame DEF NamesMb1
  <2>5. Holds(<<"br", "made">>)' /\ Holds(<<"br", "digested">>)'
    BY <2>3, <2>4 DEF Holds, BrIs
  <2>6. /\ Br({"made", "digested"}) = {<<"br", "made">>, <<"br", "digested">>}
        /\ <<"br", "made">> \in Facts /\ <<"br", "digested">> \in Facts
    BY DEF Br, Facts, BrKinds
  <2> QED
    BY <2>5, <2>6, NowKnown
<1>8. /\ X \cap Br({"made", "goodA"}) \subseteq (X \cap Br({"goodA"})) \cup (X \cap {<<"br", "made">>})
      /\ Br({"digested"}) \subseteq Br({"made", "digested"}) /\ <<"br", "made">> \in Br({"made", "digested"})
  BY DEF Br
<1> QED
  BY <1>4, <1>6, <1>7, <1>8 DEF AfterDigest, If

-----------------------------------------------------------------------------
(* The step that is taken.                                                 *)

Idle == {"tool", "raise", "crash", "caught", "ask", "repoint", "create", "write", "erase", "reboot",
         "chipinfo", "join", "layout", "poll", "send"}

\* What a step has to be.
LEMMA LegalOf ==
  ASSUME NEW w, NEW st, Legal(w, st)
  PROVE  /\ st[1] = "make" => IsName(st[2]) /\ Signable(st[3]) /\ st[3] # <<>>
         /\ st[1] = "edit" => (st[2] = S("mb1") \/ (st[2][1] = "file" /\ IsName(st[2][2]))) /\ st[3] # "unsigned"
         /\ st[1] = "odm" => IsName(st[2])
         /\ st[1] = "copy" => SameHead(st[2], st[3])
         /\ st[1] \in {"header", "sign", "attach"} => Target(st[2], st[3])
         /\ st[1] = "join" => st[3] = <<"bct_backup">>
         /\ st[1] = "rename" => st[2] \in {"bct", "chain_A"} /\ st[3] \in {BrBct, ABr, BBr}
         /\ st[1] \in {"sha", "putsha"} => st[2] = F(BrBct) /\ st[3] = BrBct
         /\ st[1] = "digest" => st[2] = F(BrBct)
<1> USE DEF Legal, Unmodelled
<1>1. st[1] = "make" => IsName(st[2]) /\ Signable(st[3]) /\ st[3] # <<>>
  OBVIOUS
<1>2. st[1] = "edit" => (st[2] = S("mb1") \/ (st[2][1] = "file" /\ IsName(st[2][2]))) /\ st[3] # "unsigned"
  OBVIOUS
<1>3. /\ st[1] = "odm" => IsName(st[2])
      /\ st[1] = "copy" => SameHead(st[2], st[3])
  OBVIOUS
<1>4. st[1] \in {"header", "sign", "attach"} => Target(st[2], st[3])
  OBVIOUS
<1>5. /\ st[1] = "join" => st[3] = <<"bct_backup">>
      /\ st[1] = "rename" => st[2] \in {"bct", "chain_A"} /\ st[3] \in {BrBct, ABr, BBr}
  OBVIOUS
<1>6. /\ st[1] \in {"sha", "putsha"} => st[2] = F(BrBct) /\ st[3] = BrBct
      /\ st[1] = "digest" => st[2] = F(BrBct)
  OBVIOUS
<1> QED
  BY <1>1, <1>2, <1>3, <1>4, <1>5, <1>6

LEMMA LegalTable ==
  ASSUME NEW w, NEW st, Legal(w, st)
  PROVE  /\ st[1] = "set" => \/ st[2] \in {"rawkerneldtb", "kerneldtb"} /\ Named(st[3], "kernel_dtb")
                             \/ st[2] = "bldtb" /\ Named(st[3], "bldtb")
         /\ st[1] = "keep" => st[2] \in Keepers \ {"pt", "unheard", "ramcode"} /\ IsName(st[3])
         /\ st[1] = "layout" => st[2] \in Types \ {"mb1", "psc"} /\ Named(st[3], st[2])
         /\ st[1] = "read" => IsName(st[3]) /\ st[3][1] \notin Plain \cup {"br_bct"}
         /\ st[1] = "poll" => st[4] \in {<<>>, T23!Raising}
         /\ st[1] = "except" => st[2] \in {<<>>, <<<<"chipinfo">>>>, <<Cvm>>}
         /\ st[1] = "send" => st \in {SendRom, SendMb2(w), SendApplet(w)}
         /\ st[1] = "call" => LegalCall(st[2], st[3])
         /\ st[1] \notin {"boot", "ramcode"}
<1> USE DEF Legal, Unmodelled
<1>1. st[1] = "set" => \/ st[2] \in {"rawkerneldtb", "kerneldtb"} /\ Named(st[3], "kernel_dtb")
                       \/ st[2] = "bldtb" /\ Named(st[3], "bldtb")
  OBVIOUS
<1>2. st[1] = "keep" => st[2] \in Keepers \ {"pt", "unheard", "ramcode"} /\ IsName(st[3])
  OBVIOUS
<1>3. st[1] = "layout" => st[2] \in Types \ {"mb1", "psc"} /\ Named(st[3], st[2])
  OBVIOUS
<1>4. /\ st[1] = "read" => IsName(st[3]) /\ st[3][1] \notin Plain \cup {"br_bct"}
      /\ st[1] = "poll" => st[4] \in {<<>>, T23!Raising}
  OBVIOUS
<1>5. /\ st[1] = "except" => st[2] \in {<<>>, <<<<"chipinfo">>>>, <<Cvm>>}
      /\ st[1] = "send" => st \in {SendRom, SendMb2(w), SendApplet(w)}
  OBVIOUS
<1>6. /\ st[1] = "call" => LegalCall(st[2], st[3])
      /\ st[1] \notin {"boot", "ramcode"}
  OBVIOUS
<1> QED
  BY <1>1, <1>2, <1>3, <1>4, <1>5, <1>6

\* What is known after it.
LEMMA AfterOf ==
  ASSUME NEW w, NEW st, NEW X
  PROVE  /\ st[1] = "make" => After(w, st, X) = AfterMake(st[2], X)
         /\ st[1] = "edit" => After(w, st, X) = AfterEdit(st[2], X)
         /\ st[1] = "odm" => After(w, st, X) = Unwritten(X, st[2][1])
         /\ st[1] = "copy" => After(w, st, X) = AfterCopy(w, st[2], st[3], X)
         /\ st[1] = "header" => After(w, st, X) = AfterHeader(w, st[3], X)
         /\ st[1] = "rename" => After(w, st, X) = AfterRename(st[2], st[3], X)
         /\ st[1] = "sign" => After(w, st, X) = AfterSign(w, st[2], st[3], X)
         /\ st[1] = "attach" => After(w, st, X) = AfterAttach(w, st[2], st[3], X)
         /\ st[1] = "sha" => After(w, st, X) = AfterSha(X)
         /\ st[1] = "putsha" => After(w, st, X) = AfterPutSha(X)
         /\ st[1] = "digest" => After(w, st, X) = AfterDigest(X)
         /\ st[1] = "keep" => After(w, st, X) = AfterKeep(w, st[2], st[3], X)
         /\ st[1] = "set" => After(w, st, X) = AfterSet(st[2], X)
         /\ st[1] = "pt" => After(w, st, X) = X \cup {<<"kept", "pt">>}
         /\ st[1] = "list" => After(w, st, X) = (X \cap Base) \cup {<<"list", "made">>}
         /\ st[1] = "signlist" => After(w, st, X) = AfterSignList(X)
         /\ st[1] = "call" => After(w, st, X) = AfterCall(w, st[2], st[3], X)
         /\ st[1] \in {"except", "read"} => After(w, st, X) = {}
         /\ st[1] \in Idle => After(w, st, X) = X
<1>1. /\ st[1] = "make" => After(w, st, X) = AfterMake(st[2], X)
      /\ st[1] = "edit" => After(w, st, X) = AfterEdit(st[2], X)
      /\ st[1] = "odm" => After(w, st, X) = Unwritten(X, st[2][1])
      /\ st[1] = "copy" => After(w, st, X) = AfterCopy(w, st[2], st[3], X)
      /\ st[1] = "header" => After(w, st, X) = AfterHeader(w, st[3], X)
      /\ st[1] = "rename" => After(w, st, X) = AfterRename(st[2], st[3], X)
  BY DEF After
<1>2. /\ st[1] = "sign" => After(w, st, X) = AfterSign(w, st[2], st[3], X)
      /\ st[1] = "attach" => After(w, st, X) = AfterAttach(w, st[2], st[3], X)
      /\ st[1] = "sha" => After(w, st, X) = AfterSha(X)
      /\ st[1] = "putsha" => After(w, st, X) = AfterPutSha(X)
      /\ st[1] = "digest" => After(w, st, X) = AfterDigest(X)
      /\ st[1] = "keep" => After(w, st, X) = AfterKeep(w, st[2], st[3], X)
  BY DEF After
<1>3. /\ st[1] = "set" => After(w, st, X) = AfterSet(st[2], X)
      /\ st[1] = "pt" => After(w, st, X) = X \cup {<<"kept", "pt">>}
      /\ st[1] = "list" => After(w, st, X) = (X \cap Base) \cup {<<"list", "made">>}
      /\ st[1] = "signlist" => After(w, st, X) = AfterSignList(X)
      /\ st[1] = "call" => After(w, st, X) = AfterCall(w, st[2], st[3], X)
  BY DEF After
<1>4. /\ st[1] \in {"except", "read"} => After(w, st, X) = {}
      /\ st[1] \in Idle => After(w, st, X) = X
  BY DEF After, Idle
<1> QED
  BY <1>1, <1>2, <1>3, <1>4

-----------------------------------------------------------------------------
(* The outline when a step has been taken.                                 *)

\* The next step is in order, and what follows goes on from what is known then.
LEMMA HeadLegal ==
  ASSUME Outlined, todo # <<>>
  PROVE  Legal(Way, Head(todo)) /\ Need(Way, Head(todo)) \subseteq Known23
<1>1. PICK X0 \in SUBSET Facts :
             /\ X0 \subseteq Known23 /\ Legal(Way, Head(todo)) /\ Need(Way, Head(todo)) \subseteq X0
             /\ Leads(Way, Tail(todo), After(Way, Head(todo), X0), {})
  BY LeadsTail DEF Outlined
<1> QED
  BY <1>1

LEMMA Taken ==
  ASSUME Outlined, todo # <<>>, Way' = Way, todo' = Tail(todo),
         \A X : X \subseteq Known23 /\ Need(Way, Head(todo)) \subseteq X => After(Way, Head(todo), X) \subseteq Known23'
  PROVE  Outlined'
<1>1. PICK X0 \in SUBSET Facts :
             /\ X0 \subseteq Known23 /\ Legal(Way, Head(todo)) /\ Need(Way, Head(todo)) \subseteq X0
             /\ Leads(Way, Tail(todo), After(Way, Head(todo), X0), {})
  BY LeadsTail DEF Outlined
<1>2. After(Way, Head(todo), X0) \subseteq Known23'
  BY <1>1
<1>3. PICK K1 : K1 = Known23'
  OBVIOUS
<1>4. Leads(Way, Tail(todo), K1, {})
  BY <1>1, <1>2, <1>3, LeadsFrom
<1> QED
  BY <1>3, <1>4 DEF Outlined

\* Nothing is left to be done, or something that needs nothing known.
LEMMA Dropped ==
  ASSUME Leads(Way', todo', {}, {})
  PROVE  Outlined'
<1>1. PICK w : w = Way'
  OBVIOUS
<1>2. PICK s : s = todo'
  OBVIOUS
<1>3. PICK K1 : K1 = Known23'
  OBVIOUS
<1>4. Leads(w, s, K1, {})
  BY <1>1, <1>2, LeadsFrom
<1> QED
  BY <1>1, <1>2, <1>3, <1>4 DEF Outlined

-----------------------------------------------------------------------------
(* What a step that writes files leaves as it is.                          *)

RestStays == UNCHANGED <<run, val, kept, layout, pt, list, ramfile, device>>

LEMMA ListedOk ==
  ASSUME NamesOk
  PROVE  Listed
BY DEF NamesOk, Naming, Listed, Types

LEMMA RestQuiet ==
  ASSUME RestStays
  PROVE  Quietly /\ Way' = Way
BY DEF RestStays, run, Quietly, Way, asks

LEMMA OthersSound ==
  ASSUME TypeOK, Board23, Told, NamesOk, RestStays,
         \A f \in DOMAIN disk : f[1] # "br_bct" => f \in DOMAIN disk'
  PROVE  TypeOK' /\ Board23' /\ Told' /\ NamesOk'
<1> USE DEF RestStays, run, device
<1>1. Sources \subseteq DOMAIN disk'
  BY SourcesAssumption DEF TypeOK
<1>2. TypeOK'
  BY <1>1 DEF TypeOK
<1>3. Board23' /\ Told'
  BY DEF Board23, Told
<1>4. \A t \in Types : list[t][1] = t /\ list[t] \in DOMAIN disk
  BY DEF NamesOk, Naming, Named
<1>5. \A t \in Types : list'[t] \in DOMAIN disk'
  BY <1>4 DEF Types
<1>6. NamesOk'
  BY <1>5 DEF NamesOk, Naming
<1> QED
  BY <1>2, <1>3, <1>6

LEMMA CleanWritten ==
  ASSUME Clean, NEW new, disk' = Written(new), \A g \in DOMAIN new : g[1] \in Plain \cup {"br_bct"} => Pure(new[g])
  PROVE  Clean' /\ DOMAIN disk \subseteq DOMAIN disk'
<1>1. /\ DOMAIN disk' = DOMAIN new \cup DOMAIN disk
      /\ \A f \in DOMAIN new : disk'[f] = new[f]
      /\ \A f : f \notin DOMAIN new => Same(f)
  BY WrittenIs
<1>2. ASSUME NEW f \in DOMAIN disk', f[1] \in Plain \cup {"br_bct"}
      PROVE  Pure(disk'[f])
  <2>1. CASE f \in DOMAIN new
    BY <1>1, <1>2, <2>1
  <2>2. CASE f \notin DOMAIN new
    BY <1>1, <1>2, <2>2 DEF Same, Clean
  <2> QED
    BY <2>1, <2>2
<1> QED
  BY <1>1, <1>2 DEF Clean

LEMMA CleanPut ==
  ASSUME Clean, NEW f, NEW c, Put(f, c), f[1] \in Plain \cup {"br_bct"} => Pure(c)
  PROVE  Clean' /\ DOMAIN disk \subseteq DOMAIN disk'
<1>1. DOMAIN disk' = {f} \cup DOMAIN disk /\ disk'[f] = c /\ \A g : g # f => Same(g)
  BY PutIs
<1>2. ASSUME NEW g \in DOMAIN disk', g[1] \in Plain \cup {"br_bct"}
      PROVE  Pure(disk'[g])
  <2>1. CASE g = f
    BY <1>1, <1>2, <2>1
  <2>2. CASE g # f
    BY <1>1, <1>2, <2>2 DEF Same, Clean
  <2> QED
    BY <2>1, <2>2
<1> QED
  BY <1>1, <1>2 DEF Clean

-----------------------------------------------------------------------------
(* The actions that write a file.                                          *)

\* The step that is next, by its name.
LEMMA StepIs ==
  ASSUME Sound, NEW name, Step(name)
  PROVE  /\ todo # <<>> /\ Head(todo)[1] = name
         /\ Legal(Way, Head(todo)) /\ Need(Way, Head(todo)) \subseteq Known23
         /\ Arg(1) = Head(todo)[2] /\ Arg(2) = Head(todo)[3] /\ Arg(3) = Head(todo)[4]
BY HeadLegal DEF Step, Arg, Sound

LEMMA FilesKeep ==
  ASSUME Sound, todo # <<>>, Next1, RestStays, Clean',
         \A f \in DOMAIN disk : f[1] # "br_bct" => f \in DOMAIN disk',
         \A X : X \subseteq Known23 /\ Need(Way, Head(todo)) \subseteq X => After(Way, Head(todo), X) \subseteq Known23'
  PROVE  Sound'
<1>1. TypeOK' /\ Board23' /\ Told' /\ NamesOk'
  BY OthersSound DEF Sound
<1>2. Outlined'
  BY Taken, RestQuiet DEF Sound, Next1
<1> QED
  BY <1>1, <1>2 DEF Sound

LEMMA ChangeKeeps ==
  ASSUME Sound, todo # <<>>, NEW f, NEW c, ChangeFile(f, c), f[1] \in Plain \cup {"br_bct"} => Pure(c),
         \A X : X \subseteq Known23 /\ Need(Way, Head(todo)) \subseteq X => After(Way, Head(todo), X) \subseteq Known23'
  PROVE  Sound'
<1>1. Put(f, c) /\ Next1 /\ RestStays
  BY DEF ChangeFile, RestStays
<1>2. Clean' /\ DOMAIN disk \subseteq DOMAIN disk'
  BY <1>1, CleanPut DEF Sound
<1> QED
  BY <1>1, <1>2, FilesKeep

LEMMA ChangeIs ==
  ASSUME NEW f, NEW c, ChangeFile(f, c), Sound
  PROVE  Put(f, c) /\ Quietly /\ Listed /\ Clean
BY RestQuiet, ListedOk DEF ChangeFile, RestStays, Sound

LEMMA MakeKeeps ==
  ASSUME Sound, Make
  PROVE  Sound'
<1>1. Step("make") /\ ChangeFile(Arg(1), Text(Arg(2)))
  BY DEF Make
<1>2. PICK f, s : f = Arg(1) /\ s = Arg(2)
  OBVIOUS
<1>3. todo # <<>> /\ IsName(f) /\ Signable(s) /\ s # <<>>
  BY <1>1, <1>2, StepIs, LegalOf
<1>4. \A X : After(Way, Head(todo), X) = AfterMake(f, X)
  BY <1>1, <1>2, StepIs, AfterOf
<1>5. ChangeFile(f, Text(s))
  BY <1>1, <1>2
<1>6. Pure(Text(s))
  BY <1>3, TextIs
<1>7. \A X : X \subseteq Known23 => AfterMake(f, X) \subseteq Known23'
  BY <1>3, <1>5, ChangeIs, MakeKnown
<1> QED
  BY <1>3, <1>4, <1>5, <1>6, <1>7, ChangeKeeps

LEMMA EditKeeps ==
  ASSUME Sound, Edit
  PROVE  Sound'
<1>1. /\ Step("edit") /\ Exists(Name(Arg(1)))
      /\ ChangeFile(Name(Arg(1)), [Contents(Arg(1)) EXCEPT !.is = Append(@, Arg(2))])
  BY DEF Edit
<1>2. PICK r, x : r = Arg(1) /\ x = Arg(2)
  OBVIOUS
<1>3. todo # <<>> /\ (r = S("mb1") \/ (r[1] = "file" /\ IsName(r[2]))) /\ x # "unsigned"
  BY <1>1, <1>2, StepIs, LegalOf
<1>4. \A X : After(Way, Head(todo), X) = AfterEdit(r, X)
  BY <1>1, <1>2, StepIs, AfterOf
<1>5. PICK c : c = [Contents(r) EXCEPT !.is = Append(@, x)]
  OBVIOUS
<1>6. PICK f : f = Name(r)
  OBVIOUS
<1>7. ChangeFile(f, c) /\ Exists(f)
  BY <1>1, <1>2, <1>5, <1>6
<1>8. f[1] \in Plain \cup {"br_bct"} => Pure(c)
  <2>1. ASSUME f[1] \in Plain \cup {"br_bct"} PROVE Pure(Contents(r))
    BY <2>1, <1>6, PureContents DEF Sound
  <2> QED
    BY <2>1, <1>3, <1>5, PureEdited
<1>9. ASSUME NEW X, X \subseteq Known23 PROVE AfterEdit(r, X) \subseteq Known23'
  <2>1. CASE r = S("mb1")
    <3>1. f = list["mb1"]
      BY <1>6, <2>1, NameIs
    <3>2. Put(list["mb1"], [Contents(S("mb1")) EXCEPT !.is = Append(@, x)]) /\ Exists(list["mb1"])
      BY <1>5, <1>7, <2>1, <3>1, ChangeIs
    <3> QED
      BY <1>3, <1>7, <1>9, <2>1, <3>2, ChangeIs, EditListKnown
  <2>2. CASE r # S("mb1")
    <3>1. f = r[2]
      BY <1>3, <1>6, <2>2, NameIs
    <3>2. Contents(F(f)) = Contents(r)
      BY <1>6, NameIs DEF Contents
    <3>3. Put(f, [Contents(F(f)) EXCEPT !.is = Append(@, x)])
      BY <1>5, <1>7, <3>2, ChangeIs
    <3>4. AfterEdit(F(f), X) \subseteq Known23'
      BY <1>3, <1>7, <1>9, <3>3, ChangeIs, EditKnown
    <3>5. F(f) # S("mb1") /\ F(f)[2] = f
      BY NameIs
    <3>6. r = F(BrBct) => F(f) = F(BrBct)
      BY <3>1, NameIs
    <3> QED
      BY <2>2, <3>1, <3>4, <3>5, <3>6 DEF AfterEdit, If
  <2> QED
    BY <2>1, <2>2
<1> QED
  BY <1>3, <1>4, <1>7, <1>8, <1>9, ChangeKeeps

\* What is left of a file without some of its pieces.
LEMMA PureRemoved ==
  ASSUME NEW c, Pure(c), NEW xs, NEW x, x # "unsigned"
  PROVE  Pure([c EXCEPT !.is = Append(Removing(@, xs), x)])
<1> DEFINE T == {y : y \in {c.is[i] : i \in DOMAIN c.is}}
           U == {y \in T : y # "unsigned"}
<1>1. IsSeq(c.is) /\ \A i \in DOMAIN c.is : c.is[i] # "unsigned"
  BY DEF Pure, Signable
<1>2. c.is \in Seq(U)
  BY <1>1, IsSeqParts
<1>3. Removing(c.is, xs) \in Seq(U)
  BY <1>2, RemovingType
<1>4. PICK s : s = Removing(c.is, xs)
  OBVIOUS
<1>5. Signable(s)
  BY <1>3, <1>4, IsSeqOf DEF Signable
<1>6. Signable(Append(s, x))
  BY <1>5, SignableAppend
<1>7. PICK v : v = Append(s, x)
  OBVIOUS
<1> DEFINE d == [c EXCEPT !.is = v]
<1>8. DOMAIN d = DOMAIN c /\ d.is = v
  BY DEF Pure
<1>9. d = [c EXCEPT !.is = Append(Removing(@, xs), x)]
  BY <1>4, <1>7
<1> HIDE DEF d
<1>10. Pure(d)
  BY <1>6, <1>7, <1>8 DEF Pure
<1> QED
  BY <1>9, <1>10

LEMMA OdmKeeps ==
  ASSUME Sound, Odm
  PROVE  Sound'
<1>1. /\ Step("odm")
      /\ ChangeFile(Arg(1), [Contents(F(Arg(1))) EXCEPT !.is = Append(Removing(@, {"odm", "overlay"}), "odm")])
  BY DEF Odm
<1>2. PICK f : f = Arg(1)
  OBVIOUS
<1>3. todo # <<>> /\ IsName(f)
  BY <1>1, <1>2, StepIs, LegalOf
<1>4. \A X : After(Way, Head(todo), X) = Unwritten(X, f[1])
  BY <1>1, <1>2, StepIs, AfterOf
<1>5. PICK c : c = [Contents(F(f)) EXCEPT !.is = Append(Removing(@, {"odm", "overlay"}), "odm")]
  OBVIOUS
<1>6. ChangeFile(f, c)
  BY <1>1, <1>2, <1>5
<1>7. f[1] \in Plain \cup {"br_bct"} => Pure(c)
  <2>1. ASSUME f[1] \in Plain \cup {"br_bct"} PROVE Pure(Contents(F(f)))
    BY <2>1, NameIs, PureContents DEF Sound
  <2> QED
    BY <2>1, <1>5, PureRemoved
<1>8. ASSUME NEW X, X \subseteq Known23 PROVE Unwritten(X, f[1]) \subseteq Known23'
  <2>1. \A g : g[1] # f[1] => Same(g)
    BY <1>6, ChangeIs, PutIs
  <2> QED
    BY <1>6, <1>8, <2>1, ChangeIs, OthersStay
<1> QED
  BY <1>3, <1>4, <1>6, <1>7, <1>8, ChangeKeeps

\* A file that no fact is about.
LEMMA OtherFileKnown ==
  ASSUME Quietly, Listed, NEW f, f[1] \notin Plain \cup {"br_bct"}, NEW c, Put(f, c), NEW X, X \subseteq Known23
  PROVE  X \subseteq Known23'
<1>1. \A g : g[1] # f[1] => Same(g)
  BY PutIs
<1>2. Unwritten(X, f[1]) \subseteq Known23'
  BY <1>1, OthersStay
<1>3. X \subseteq Facts
  BY DEF Known23
<1> QED
  BY <1>2, <1>3, OfWhat

LEMMA JoinKeeps ==
  ASSUME Sound, Join
  PROVE  Sound'
<1>1. PICK c : Step("join") /\ ChangeFile(Arg(2), c)
  BY DEF Join
<1>2. PICK f : f = Arg(2)
  OBVIOUS
<1>3. todo # <<>> /\ f = <<"bct_backup">>
  BY <1>1, <1>2, StepIs, LegalOf
<1>4. f[1] \notin Plain \cup {"br_bct"}
  BY <1>3 DEF Plain, Signers
<1>5. \A X : After(Way, Head(todo), X) = X
  BY <1>1, StepIs, AfterOf DEF Idle
<1>6. ChangeFile(f, c)
  BY <1>1, <1>2
<1>7. \A X : X \subseteq Known23 => X \subseteq Known23'
  BY <1>4, <1>6, ChangeIs, OtherFileKnown
<1> QED
  BY <1>3, <1>4, <1>5, <1>6, <1>7, ChangeKeeps

LEMMA ReadKeeps ==
  ASSUME Sound, Read
  PROVE  Sound'
<1>1. PICK c : Step("read") /\ ChangeFile(Arg(2), c)
  BY DEF Read
<1>2. PICK f : f = Arg(2)
  OBVIOUS
<1>3. todo # <<>> /\ f[1] \notin Plain \cup {"br_bct"}
  BY <1>1, <1>2, StepIs, LegalTable
<1>4. \A X : After(Way, Head(todo), X) = {}
  BY <1>1, StepIs, AfterOf
<1>5. ChangeFile(f, c)
  BY <1>1, <1>2
<1> QED
  BY <1>3, <1>4, <1>5, ChangeKeeps

LEMMA CopyKeeps ==
  ASSUME Sound, Copy
  PROVE  Sound'
<1>1. Step("copy") /\ Exists(Name(Arg(1))) /\ ChangeFile(Arg(2), Contents(Arg(1)))
  BY DEF Copy
<1>2. PICK r, f : r = Arg(1) /\ f = Arg(2)
  OBVIOUS
<1>3. todo # <<>> /\ SameHead(r, f)
  BY <1>1, <1>2, StepIs, LegalOf
<1>4. \A X : After(Way, Head(todo), X) = AfterCopy(Way, r, f, X)
  BY <1>1, <1>2, StepIs, AfterOf
<1>5. ChangeFile(f, Contents(r)) /\ Exists(Name(r))
  BY <1>1, <1>2
<1>6. ASSUME f[1] \in Plain \cup {"br_bct"} PROVE Pure(Contents(r))
  <2>1. Name(r) = r[2] /\ r[2][1] = f[1]
    BY <1>3, <1>6, NameIs DEF SameHead
  <2> QED
    BY <1>6, <2>1, PureContents DEF Sound
<1>7. \A X : X \subseteq Known23 => AfterCopy(Way, r, f, X) \subseteq Known23'
  BY <1>5, ChangeIs, CopyKnown
<1> QED
  BY <1>3, <1>4, <1>5, <1>6, <1>7, ChangeKeeps

\* What is changed holds what it should when its original does.
LEMMA TargetIs ==
  ASSUME Sound, NEW r, NEW s, Target(r, s)
  PROVE  /\ Name(r) = r[2] /\ IsName(s) /\ Name(r)[1] = s[1]
         /\ s[1] \in Plain \cup {"br_bct"} => Pure(Contents(r))
<1>1. Name(r) = r[2] /\ r[2][1] = s[1] /\ IsName(s)
  BY NameIs DEF Target
<1> QED
  BY <1>1, PureContents DEF Sound

LEMMA HeaderKeeps ==
  ASSUME Sound, Header
  PROVE  Sound'
<1>1. Step("header") /\ ChangeFile(Arg(2), Text(Append(Contents(Arg(1)).is, "header")))
  BY DEF Header
<1>2. PICK r, f : r = Arg(1) /\ f = Arg(2)
  OBVIOUS
<1>3. todo # <<>> /\ Target(r, f)
  BY <1>1, <1>2, StepIs, LegalOf
<1>4. \A X : After(Way, Head(todo), X) = AfterHeader(Way, f, X)
  BY <1>1, <1>2, StepIs, AfterOf
<1>5. ChangeFile(f, Text(Append(Contents(r).is, "header")))
  BY <1>1, <1>2
<1>6. ASSUME f[1] \in Plain \cup {"br_bct"} PROVE Pure(Text(Append(Contents(r).is, "header")))
  <2>1. Signable(Contents(r).is)
    BY <1>3, <1>6, TargetIs DEF Pure
  <2>2. Signable(Append(Contents(r).is, "header"))
    BY <2>1, SignableAppend
  <2> QED
    BY <2>2, TextIs
<1>7. \A X : X \subseteq Known23 => AfterHeader(Way, f, X) \subseteq Known23'
  BY <1>3, <1>5, ChangeIs, HeaderKnown
<1> QED
  BY <1>3, <1>4, <1>5, <1>6, <1>7, ChangeKeeps

LEMMA RenameKeeps ==
  ASSUME Sound, Rename
  PROVE  Sound'
<1>1. PICK k, f : k = Arg(1) /\ f = Arg(2)
  OBVIOUS
<1>2. Step("rename") /\ Next1 /\ RestStays
  BY DEF Rename, RestStays
<1>3. disk' = [g \in (DOMAIN disk \ {kept[k]}) \cup {f} |-> IF g = f THEN Contents(K(k)) ELSE disk[g]]
  BY <1>1 DEF Rename
<1>4. /\ todo # <<>> /\ k \in {"bct", "chain_A"} /\ f \in {BrBct, ABr, BBr}
      /\ Need(Way, Head(todo)) = {<<"kept", k>>} /\ <<"kept", k>> \in Known23
  <2>1. todo # <<>> /\ Head(todo)[1] = "rename" /\ Head(todo)[2] = k /\ Head(todo)[3] = f
    BY <1>1, <1>2, StepIs
  <2>2. k \in {"bct", "chain_A"} /\ f \in {BrBct, ABr, BBr}
    BY <1>2, <2>1, StepIs, LegalOf
  <2>3. Need(Way, Head(todo)) = {<<"kept", k>>}
    BY <2>1 DEF Need
  <2> QED
    BY <1>2, <2>1, <2>2, <2>3, StepIs
<1>5. \A X : After(Way, Head(todo), X) = AfterRename(k, f, X)
  BY <1>1, <1>2, StepIs, AfterOf
<1>6. kept[k] \in {BrBct, ABr} /\ kept[k][1] = "br_bct"
  <2>1. KeptIs(k)
    BY <1>4 DEF Known23, Holds
  <2>2. kept[k] = Expected(Way, k) /\ Expected(Way, k) \in {BrBct, ABr}
    BY <1>4, <2>1 DEF KeptIs, Expected
  <2> QED
    BY <2>2, BrFileNames DEF Named
<1>7. Pure(Contents(K(k)))
  BY <1>6, NameIs, PureContents DEF Sound
<1>8. Clean'
  <2>1. ASSUME NEW g \in DOMAIN disk', g[1] \in Plain \cup {"br_bct"} PROVE Pure(disk'[g])
    <3>1. CASE g = f
      BY <1>3, <1>7, <3>1
    <3>2. CASE g # f
      BY <1>3, <2>1, <3>2 DEF Sound, Clean
    <3> QED
      BY <3>1, <3>2
  <2> QED
    BY <2>1 DEF Clean
<1>9. \A g \in DOMAIN disk : g[1] # "br_bct" => g \in DOMAIN disk'
  BY <1>3, <1>6
<1>10. ASSUME NEW X, X \subseteq Known23, Need(Way, Head(todo)) \subseteq X PROVE AfterRename(k, f, X) \subseteq Known23'
  <2>1. Quietly /\ Listed /\ <<"kept", k>> \in X
    BY <1>2, <1>4, <1>10, RestQuiet, ListedOk DEF Sound
  <2> QED
    BY <1>3, <1>4, <1>10, <2>1, RenameKnown
<1> QED
  BY <1>2, <1>4, <1>5, <1>8, <1>9, <1>10, FilesKeep

LEMMA SignKeeps ==
  ASSUME Sound, Sign
  PROVE  Sound'
<1>1. PICK r, s : r = Arg(1) /\ s = Arg(2)
  OBVIOUS
<1>2. Step("sign") /\ Next1 /\ RestStays
  BY DEF Sign, RestStays
<1>3. disk' = Written([g \in {s \o <<"sig">>, s \o <<"signed">>} |-> Contents(r)])
  BY <1>1 DEF Sign
<1>4. todo # <<>> /\ Target(r, s)
  BY <1>1, <1>2, StepIs, LegalOf
<1>5. \A X : After(Way, Head(todo), X) = AfterSign(Way, r, s, X)
  BY <1>1, <1>2, StepIs, AfterOf
<1>6. Clean' /\ DOMAIN disk \subseteq DOMAIN disk'
  <2>1. Named(s, s[1])
    BY <1>4, TargetIs DEF Named
  <2>2. (s \o <<"sig">>)[1] = s[1] /\ (s \o <<"signed">>)[1] = s[1]
    <3>1. PICK h : h = s[1]
      OBVIOUS
    <3>2. Named(s \o <<"sig">>, h) /\ Named(s \o <<"signed">>, h)
      BY <2>1, <3>1, Appended
    <3> QED
      BY <3>1, <3>2 DEF Named
  <2>3. s[1] \in Plain \cup {"br_bct"} => Pure(Contents(r))
    BY <1>4, TargetIs
  <2> DEFINE new == [g \in {s \o <<"sig">>, s \o <<"signed">>} |-> Contents(r)]
  <2>4. \A g \in DOMAIN new : g[1] \in Plain \cup {"br_bct"} => Pure(new[g])
    BY <2>2, <2>3
  <2>5. disk' = Written(new)
    BY <1>3
  <2> HIDE DEF new
  <2> QED
    BY <2>4, <2>5, CleanWritten DEF Sound
<1>7. ASSUME NEW X, X \subseteq Known23 PROVE AfterSign(Way, r, s, X) \subseteq Known23'
  <2>1. Quietly /\ Listed
    BY <1>2, RestQuiet, ListedOk DEF Sound
  <2> QED
    BY <1>3, <1>4, <1>7, <2>1, SignKnown
<1> QED
  BY <1>2, <1>4, <1>5, <1>6, <1>7, FilesKeep

\* A field is changed.
LEMMA PureField ==
  ASSUME NEW c, Pure(c), NEW v
  PROVE  Pure([c EXCEPT !.sig = v]) /\ Pure([c EXCEPT !.sha = v]) /\ Pure([c EXCEPT !.mb1 = v])
BY FieldSet

LEMMA AttachKeeps ==
  ASSUME Sound, Attach
  PROVE  Sound'
<1>1. /\ Step("attach") /\ Exists(Arg(2) \o <<"sig">>)
      /\ ChangeFile(Name(Arg(1)), [Contents(Arg(1)) EXCEPT !.sig = Body(disk[Arg(2) \o <<"sig">>])])
  BY DEF Attach
<1>2. PICK r, s : r = Arg(1) /\ s = Arg(2)
  OBVIOUS
<1>3. todo # <<>> /\ Target(r, s)
  BY <1>1, <1>2, StepIs, LegalOf
<1>4. \A X : After(Way, Head(todo), X) = AfterAttach(Way, r, s, X)
  BY <1>1, <1>2, StepIs, AfterOf
<1>5. PICK v : v = Body(disk[s \o <<"sig">>])
  OBVIOUS
<1>6. PICK c : c = [Contents(r) EXCEPT !.sig = v]
  OBVIOUS
<1>7. PICK f : f = Name(r)
  OBVIOUS
<1>8. ChangeFile(f, c) /\ Exists(s \o <<"sig">>)
  BY <1>1, <1>2, <1>5, <1>6, <1>7
<1>9. f[1] \in Plain \cup {"br_bct"} => Pure(c)
  <2>1. f[1] \in Plain \cup {"br_bct"} => Pure(Contents(r))
    BY <1>3, <1>7, TargetIs
  <2> QED
    BY <2>1, <1>6, PureField
<1>10. ASSUME NEW X, X \subseteq Known23 PROVE AfterAttach(Way, r, s, X) \subseteq Known23'
  <2>1. Put(Name(r), [Contents(r) EXCEPT !.sig = Body(disk[s \o <<"sig">>])])
    BY <1>5, <1>6, <1>7, <1>8, ChangeIs
  <2> QED
    BY <1>3, <1>8, <1>10, <2>1, ChangeIs, AttachKnown
<1> QED
  BY <1>3, <1>4, <1>8, <1>9, <1>10, ChangeKeeps

LEMMA ShaKeeps ==
  ASSUME Sound, Sha
  PROVE  Sound'
<1>1. Step("sha") /\ ChangeFile(Arg(2) \o <<"sha">>, Contents(Arg(1)))
  BY DEF Sha
<1>2. todo # <<>> /\ Arg(1) = F(BrBct) /\ Arg(2) = BrBct
  BY <1>1, StepIs, LegalOf
<1>3. \A X : After(Way, Head(todo), X) = AfterSha(X)
  BY <1>1, StepIs, AfterOf
<1>4. ChangeFile(BrBct \o <<"sha">>, Contents(F(BrBct)))
  BY <1>1, <1>2
<1>5. Pure(Contents(F(BrBct)))
  BY BrContents DEF Sound
<1>6. \A X : X \subseteq Known23 => AfterSha(X) \subseteq Known23'
  BY <1>4, ChangeIs, ShaKnown
<1> QED
  BY <1>2, <1>3, <1>4, <1>5, <1>6, ChangeKeeps

LEMMA PutShaKeeps ==
  ASSUME Sound, PutSha
  PROVE  Sound'
<1>1. PICK c : c = disk[BrBct \o <<"sha">>]
  OBVIOUS
<1>2. Step("putsha")
  BY DEF PutSha
<1>3. todo # <<>> /\ Arg(1) = F(BrBct) /\ Arg(2) = BrBct
  BY <1>2, StepIs, LegalOf
<1>4. ChangeFile(BrBct, [Contents(F(BrBct)) EXCEPT !.sha = <<Body(c), c.sig>>])
  BY <1>1, <1>3, NameIs DEF PutSha
<1>5. \A X : After(Way, Head(todo), X) = AfterPutSha(X)
  BY <1>2, StepIs, AfterOf
<1>6. PICK v : v = <<Body(c), c.sig>>
  OBVIOUS
<1>7. PICK d : d = [Contents(F(BrBct)) EXCEPT !.sha = v]
  OBVIOUS
<1>8. Pure(d)
  BY <1>7, BrContents, PureField DEF Sound
<1>9. ChangeFile(BrBct, d)
  BY <1>4, <1>6, <1>7
<1>10. \A X : X \subseteq Known23 => AfterPutSha(X) \subseteq Known23'
  BY <1>1, <1>4, ChangeIs, PutShaKnown
<1> QED
  BY <1>3, <1>5, <1>8, <1>9, <1>10, ChangeKeeps

LEMMA DigestKeeps ==
  ASSUME Sound, Digest
  PROVE  Sound'
<1>1. Step("digest")
  BY DEF Digest
<1>2. todo # <<>> /\ Arg(1) = F(BrBct)
  BY <1>1, StepIs, LegalOf
<1>3. ChangeFile(BrBct, [Contents(F(BrBct)) EXCEPT !.mb1 = Contents(S("mb1")).is])
  BY <1>2, NameIs DEF Digest
<1>4. \A X : After(Way, Head(todo), X) = AfterDigest(X)
  BY <1>1, StepIs, AfterOf
<1>5. PICK v : v = Contents(S("mb1")).is
  OBVIOUS
<1>6. PICK d : d = [Contents(F(BrBct)) EXCEPT !.mb1 = v]
  OBVIOUS
<1>7. Pure(d)
  BY <1>6, BrContents, PureField DEF Sound
<1>8. ChangeFile(BrBct, d)
  BY <1>3, <1>5, <1>6
<1>9. \A X : X \subseteq Known23 => AfterDigest(X) \subseteq Known23'
  BY <1>3, ChangeIs, DigestKnown
<1> QED
  BY <1>2, <1>4, <1>7, <1>8, <1>9, ChangeKeeps

-----------------------------------------------------------------------------
(* Steps that leave the files alone.                                       *)

FilesStay == UNCHANGED <<opt, now, files>>

LEMMA StillKnown ==
  ASSUME FilesStay
  PROVE  Known23 \subseteq Known23' /\ Way' = Way
<1>1. Quietly /\ Way' = Way
  BY DEF FilesStay, files, Quietly, Way, asks
<1>2. \A f : Same(f)
  BY DEF FilesStay, files, Same
<1> QED
  BY <1>1, <1>2, StaysKnown

LEMMA IdleTaken ==
  ASSUME Sound, todo # <<>>, Head(todo)[1] \in Idle \cup {"except"}, Next1, FilesStay
  PROVE  Outlined'
<1>1. \A X : After(Way, Head(todo), X) \subseteq X
  BY AfterOf
<1> QED
  BY <1>1, StillKnown, Taken DEF Sound, Next1

\* Only the steps of the command and the device change.
Statuses == {"idle", "running", "done", "failed"}
HostKeeps == UNCHANGED <<opt, jobs, cmds, now, host>>

LEMMA HostSound ==
  ASSUME Sound, HostKeeps, status' \in Statuses, Board23', DOMAIN part' = Partitions, swaps' = swaps, Outlined'
  PROVE  Sound'
<1> USE DEF HostKeeps, host, files, Sound
<1>1. dev'.ram \in Ramcodes /\ dev'.stage \in Stages
  BY DEF Board23
<1>2. TypeOK'
  BY <1>1 DEF TypeOK, Statuses
<1>3. Told' /\ Clean'
  BY DEF Told, Clean
<1>4. NamesOk'
  BY DEF NamesOk, Naming
<1> QED
  BY <1>2, <1>3, <1>4

LEMMA DeviceStays ==
  ASSUME Sound, UNCHANGED device
  PROVE  Board23' /\ DOMAIN part' = Partitions /\ swaps' = swaps
BY DEF Sound, device, Board23, TypeOK

LEMMA RunStays ==
  ASSUME Sound, UNCHANGED <<run, host>>
  PROVE  HostKeeps /\ FilesStay /\ status' = status /\ status' \in Statuses
BY DEF run, host, HostKeeps, FilesStay, Statuses, Sound, TypeOK

\* What an exception leaves of a command.
LEMMA RaisedOutlined ==
  ASSUME Sound, todo # <<>>, Raised, FilesStay
  PROVE  Outlined'
<1>1. PICK w : w = Way /\ w = Way'
  BY StillKnown
<1>2. CASE Handlers = {}
  <2>1. todo' = <<<<"caught">>>>
    BY <1>2 DEF Raised
  <2>2. Leads(w, <<<<"caught">>>>, {}, {})
    BY ShortLeads
  <2>3. Leads(Way', todo', {}, {})
    BY <1>1, <2>1, <2>2
  <2> QED
    BY <2>3, Dropped
<1>3. CASE Handlers # {}
  <2>1. Leads(w, todo, Known23, {})
    BY <1>1 DEF Sound, Outlined
  <2>2. \E Z : todo \in Seq(Z)
    BY <2>1 DEF Leads
  <2>3. Len(todo) \in Nat
    BY <2>2
  <2>4. Handlers \subseteq Nat
    BY <2>3 DEF Handlers
  <2>5. \E i \in Handlers : \A j \in Handlers : i <= j
    BY <1>3, <2>4, LeastNat
  <2>6. PICK n : n = CHOOSE i \in Handlers : \A j \in Handlers : i <= j
    OBVIOUS
  <2>7. n \in Handlers
    BY <2>5, <2>6
  <2>8. todo' = todo[n][2] \o SubSeq(todo, n + 1, Len(todo))
    BY <1>3, <2>6 DEF Raised
  <2>9. n \in 1..Len(todo) /\ todo[n][1] = "except"
    BY <2>3, <2>7 DEF Handlers
  <2>10. \A U : After(w, todo[n], U) = {}
    BY <2>9, AfterOf
  <2>11. Legal(w, todo[n]) /\ Leads(w, SubSeq(todo, n + 1, Len(todo)), {}, {})
    BY <2>1, <2>9, <2>10, LeadsSuffix
  <2>12. todo[n][2] \in {<<>>, <<<<"chipinfo">>>>, <<Cvm>>}
    BY <2>9, <2>11, LegalTable
  <2>13. Leads(w, <<>>, {}, {})
    BY LeadsNone
  <2>14. Leads(w, <<<<"chipinfo">>>>, {}, {})
    <3>1. Takes(w, <<"chipinfo">>, {}, {})
      BY TakesFree DEF Free
    <3> QED
      BY <3>1, LeadsOne
  <2>15. Leads(w, <<Cvm>>, {}, {})
    <3>1. IsName(<<"cvm">>) /\ Signable(<<"cvm">>) /\ <<"cvm">> # <<>>
      BY OneName
    <3>2. Legal(w, Cvm)
      BY <3>1, LegalIs DEF Cvm
    <3>3. Need(w, Cvm) = {}
      BY NeedIs DEF Cvm
    <3>4. Takes(w, Cvm, {}, {})
      BY <3>2, <3>3, TakesNothing
    <3> QED
      BY <3>4, LeadsOne
  <2>16. Leads(w, todo[n][2], {}, {})
    BY <2>12, <2>13, <2>14, <2>15
  <2>17. PICK t : t = SubSeq(todo, n + 1, Len(todo))
    OBVIOUS
  <2>18. PICK h : h = todo[n][2]
    OBVIOUS
  <2>19. Leads(w, h \o t, {}, {})
    BY <2>11, <2>16, <2>17, <2>18, LeadsJoin
  <2>20. Leads(Way', todo', {}, {})
    BY <1>1, <2>8, <2>17, <2>18, <2>19
  <2> QED
    BY <2>20, Dropped
<1> QED
  BY <1>2, <1>3

-----------------------------------------------------------------------------
(* The actions that leave the files alone.                                 *)

LEMMA ToolKeeps ==
  ASSUME Sound, Tool
  PROVE  Sound'
<1>1. (Step("tool") \/ Step("except")) /\ Next1 /\ UNCHANGED <<run, host, device>>
  BY DEF Tool
<1>2. todo # <<>> /\ Head(todo)[1] \in Idle \cup {"except"}
  BY <1>1 DEF Step, Idle
<1>3. UNCHANGED <<run, host>> /\ UNCHANGED device
  BY <1>1
<1> QED
  BY <1>1, <1>2, <1>3, RunStays, DeviceStays, IdleTaken, HostSound

LEMMA RaisedKeeps ==
  ASSUME Sound, todo # <<>>, Raised, UNCHANGED <<run, host, device>>
  PROVE  Sound'
<1>1. UNCHANGED <<run, host>> /\ UNCHANGED device
  OBVIOUS
<1> QED
  BY <1>1, RunStays, DeviceStays, RaisedOutlined, HostSound

LEMMA FailureKeeps ==
  ASSUME Sound, Fails \/ Missing \/ Raise
  PROVE  Sound'
<1>1. todo # <<>> /\ Raised /\ UNCHANGED <<run, host, device>>
  BY DEF Fails, Missing, Raise, Step
<1> QED
  BY <1>1, RaisedKeeps

\* Nothing of the command is left.
LEMMA EndedKeeps ==
  ASSUME Sound, HostKeeps, UNCHANGED device, status' \in Statuses, todo' = <<>>
  PROVE  Sound'
<1>1. Leads(Way', <<>>, {}, {})
  <2>1. PICK w : w = Way'
    OBVIOUS
  <2>2. Leads(w, <<>>, {}, {})
    BY LeadsNone
  <2> QED
    BY <2>1, <2>2
<1>2. Outlined'
  BY <1>1, Dropped
<1> QED
  BY <1>2, DeviceStays, HostSound

LEMMA EndingKeeps ==
  ASSUME Sound, Crash \/ Caught \/ EndInvocation
  PROVE  Sound'
<1>1. HostKeeps /\ UNCHANGED device /\ todo' = <<>>
  BY DEF Crash, Caught, EndInvocation, HostKeeps
<1>2. status \in Statuses
  BY DEF Sound, TypeOK, Statuses
<1>3. status' \in Statuses
  BY <1>2 DEF Crash, Caught, EndInvocation, Statuses
<1> QED
  BY <1>1, <1>3, EndedKeeps

\* A step that may change the device.
LEMMA DeviceKeeps ==
  ASSUME Sound, todo # <<>>, Head(todo)[1] \in Idle, Next1, UNCHANGED <<run, host>>,
         Board23', DOMAIN part' = Partitions, swaps' = swaps
  PROVE  Sound'
BY RunStays, IdleTaken, HostSound

LEMMA BoardIs ==
  ASSUME Sound
  PROVE  /\ DOMAIN dev = {"stage", "starts", "ram"} /\ dev.ram \in Ramcodes
         /\ dev.stage \in Stages /\ dev.starts \in Stages /\ DOMAIN part = Partitions
         /\ dev \in [stage : Stages, starts : Stages, ram : Ramcodes]
BY DEF Sound, Board23, TypeOK

LEMMA SendKeeps ==
  ASSUME Sound, Send
  PROVE  Sound'
<1>1. Step("send") /\ Next1 /\ UNCHANGED <<run, host>> /\ part' = part /\ swaps' = swaps
  BY DEF Send
<1>2. todo # <<>> /\ Head(todo)[1] \in Idle
  BY <1>1, StepIs DEF Idle
<1>3. Arg(3) \in {"mb1", "mb2", "mb2applet"}
  <2>1. Head(todo) \in {SendRom, SendMb2(Way), SendApplet(Way)} /\ Arg(3) = Head(todo)[4]
    BY <1>1, StepIs, LegalTable
  <2> QED
    BY <2>1 DEF SendRom, SendMb2, SendApplet
<1>4. Board23'
  <2>1. \/ dev' = dev
        \/ dev' = [dev EXCEPT !.stage = IF Arg(3) = "mb1" THEN "mb1" ELSE "starting", !.starts = Arg(3)]
    BY <1>3 DEF Send, Loads
  <2>2. dev' \in [stage : Stages, starts : Stages, ram : Ramcodes]
    BY <1>3, <2>1, BoardIs DEF Stages
  <2> QED
    BY <2>2 DEF Board23
<1> QED
  BY <1>1, <1>2, <1>4, BoardIs, DeviceKeeps

\* Nothing calls --boot in an unsecured session, and nothing looks for the strap.
LEMMA NoBoot ==
  ASSUME Sound
  PROVE  ~Boot /\ ~TakeRamcode
<1>1. ~Step("boot") /\ ~Step("ramcode")
  BY StepIs, LegalTable
<1> QED
  BY <1>1 DEF Boot, TakeRamcode

LEMMA RebootKeeps ==
  ASSUME Sound, Reboot
  PROVE  Sound'
<1>1. Step("reboot") /\ Next1 /\ UNCHANGED <<run, host>> /\ part' = part /\ swaps' = swaps
  BY DEF Reboot
<1>2. todo # <<>> /\ Head(todo)[1] \in Idle
  BY <1>1, StepIs DEF Idle
<1>3. dev' = [dev EXCEPT !.stage = IF Arg(1) = "coldboot" THEN "os" ELSE "bootrom"]
  BY DEF Reboot
<1>4. dev' \in [stage : Stages, starts : Stages, ram : Ramcodes]
  BY <1>3, BoardIs DEF Stages
<1>5. Board23'
  BY <1>4 DEF Board23
<1> QED
  BY <1>1, <1>2, <1>5, BoardIs, DeviceKeeps

LEMMA PartitionsKeep ==
  ASSUME Sound, Create \/ Write \/ Erase
  PROVE  Sound'
<1>1. (Step("create") \/ Step("write") \/ Step("erase")) /\ Next1 /\ UNCHANGED <<run, host, dev, swaps>>
  BY DEF Create, Write, Erase, WritePart
<1>2. todo # <<>> /\ Head(todo)[1] \in Idle
  BY <1>1, StepIs DEF Idle
<1>3. DOMAIN part' = Partitions
  BY BoardIs DEF Create, Write, Erase, WritePart
<1>4. Board23'
  BY <1>1 DEF Sound, Board23
<1>5. UNCHANGED <<run, host>> /\ swaps' = swaps
  BY <1>1
<1> QED
  BY <1>1, <1>2, <1>3, <1>4, <1>5, DeviceKeeps

LEMMA TornKeeps ==
  ASSUME Sound, Torn
  PROVE  Sound'
<1>1. todo # <<>> /\ Raised /\ UNCHANGED <<run, host, dev, swaps>> /\ part' = [part EXCEPT ![Arg(1)] = Absent]
  BY DEF Torn, Step, WritePart
<1>2. DOMAIN part' = Partitions /\ Board23'
  BY <1>1, BoardIs DEF Sound, Board23
<1>3. UNCHANGED <<run, host>> /\ swaps' = swaps
  BY <1>1
<1> QED
  BY <1>1, <1>2, <1>3, RunStays, RaisedOutlined, HostSound

\* The device comes up by itself.
LEMMA ComesUpKeeps ==
  ASSUME Sound, ComesUp
  PROVE  Sound'
<1>1. UNCHANGED <<run, host>> /\ part' = part /\ swaps' = swaps /\ todo' = todo
  BY DEF ComesUp
<1>2. \E s \in {dev.starts, "hung"} : dev' = [dev EXCEPT !.stage = s]
  BY DEF ComesUp
<1>3. dev' \in [stage : Stages, starts : Stages, ram : Ramcodes]
  BY <1>2, BoardIs DEF Stages
<1>4. Board23'
  BY <1>3 DEF Board23
<1>5. HostKeeps /\ FilesStay /\ status' \in Statuses
  BY <1>1, RunStays
<1>6. Outlined'
  <2>1. PICK w : w = Way /\ w = Way'
    BY <1>5, StillKnown
  <2>2. PICK K1 : K1 = Known23' /\ Known23 \subseteq K1
    BY <1>5, StillKnown
  <2>3. Leads(w, todo, K1, {})
    BY <2>1, <2>2, LeadsFrom DEF Sound, Outlined
  <2> QED
    BY <1>1, <2>1, <2>2, <2>3 DEF Outlined
<1> QED
  BY <1>1, <1>4, <1>5, <1>6, BoardIs, HostSound

-----------------------------------------------------------------------------
(* Steps in whose place others come.                                       *)

LEMMA InsteadOutlined ==
  ASSUME Sound, todo # <<>>, FilesStay, NEW s, todo' = s \o Tail(todo),
         \A X : X \subseteq Known23 /\ Need(Way, Head(todo)) \subseteq X => Leads(Way, s, X, After(Way, Head(todo), X))
  PROVE  Outlined'
<1>1. PICK X0 \in SUBSET Facts :
             /\ X0 \subseteq Known23 /\ Legal(Way, Head(todo)) /\ Need(Way, Head(todo)) \subseteq X0
             /\ Leads(Way, Tail(todo), After(Way, Head(todo), X0), {})
  BY LeadsTail DEF Sound, Outlined
<1>2. PICK w : w = Way /\ w = Way'
  BY StillKnown
<1>3. PICK K1 : K1 = Known23' /\ Known23 \subseteq K1
  BY StillKnown
<1>4. PICK t : t = Tail(todo)
  OBVIOUS
<1>5. PICK Y : Y = After(Way, Head(todo), X0)
  OBVIOUS
<1>6. Leads(w, s, X0, Y) /\ Leads(w, t, Y, {})
  BY <1>1, <1>2, <1>4, <1>5
<1>7. Leads(w, s \o t, X0, {})
  BY <1>6, LeadsJoin
<1>8. Leads(w, s \o t, K1, {})
  BY <1>1, <1>3, <1>7, LeadsFrom
<1> QED
  BY <1>2, <1>3, <1>4, <1>8 DEF Outlined

LEMMA PollOnce ==
  ASSUME NEW w, NEW X, X \subseteq Facts, NEW stages, NEW n, NEW s \in {<<>>, T23!Raising}
  PROVE  Leads(w, <<<<"poll", stages, n, s>>>>, X, X) /\ Leads(w, s, X, X)
<1> DEFINE st == <<"poll", stages, n, s>>
<1>1. st[1] = "poll" /\ st[4] = s
  OBVIOUS
<1> HIDE DEF st
<1>2. Legal(w, st)
  BY <1>1 DEF Legal
<1>3. Need(w, st) = {}
  BY <1>1 DEF Need
<1>4. After(w, st, X) = X
  BY <1>1, AfterOf DEF Idle
<1>5. Takes(w, st, X, X)
  BY <1>2, <1>3, <1>4 DEF Takes
<1>6. Leads(w, <<st>>, X, X)
  BY <1>5, LeadsOne
<1>7. Leads(w, <<>>, X, X)
  BY LeadsNone
<1>8. Leads(w, T23!Raising, X, X)
  <2>1. T23!Raising = <<<<"raise">>>>
    BY DEF T23!Raising
  <2>2. Leads(w, <<<<"raise">>>>, X, X)
    BY TakesTool, LeadsOne
  <2> QED
    BY <2>1, <2>2
<1> QED
  BY <1>6, <1>7, <1>8 DEF st

LEMMA PollKeeps ==
  ASSUME Sound, Poll
  PROVE  Sound'
<1>1. Step("poll") /\ UNCHANGED <<run, host, device>>
  BY DEF Poll
<1>2. UNCHANGED <<run, host>> /\ UNCHANGED device
  BY <1>1
<1>3. /\ todo # <<>> /\ Head(todo)[1] = "poll" /\ Arg(3) = Head(todo)[4]
      /\ Arg(3) \in {<<>>, T23!Raising}
  BY <1>1, StepIs, LegalTable
<1>4. FilesStay
  BY <1>2, RunStays
<1>5. \A X : After(Way, Head(todo), X) = X
  BY <1>3, AfterOf DEF Idle
<1>6. ASSUME NEW s, todo' = s \o Tail(todo), \A X : X \subseteq Facts => Leads(Way, s, X, X)
      PROVE  Outlined'
  <2>1. Known23 \subseteq Facts
    BY DEF Known23
  <2> QED
    BY <1>3, <1>4, <1>5, <1>6, <2>1, InsteadOutlined
<1>7. Outlined'
  <2>1. CASE Next1
    BY <1>3, <1>4, <2>1, IdleTaken DEF Idle
  <2>2. CASE Instead(<<<<"poll", Arg(1), Arg(2) - 1, Arg(3)>>>>)
    <3>1. PICK a, n, s : a = Arg(1) /\ n = Arg(2) - 1 /\ s = Arg(3)
      OBVIOUS
    <3>2. PICK p : p = <<<<"poll", a, n, s>>>>
      OBVIOUS
    <3>3. todo' = p \o Tail(todo)
      BY <2>2, <3>1, <3>2 DEF Instead
    <3>4. \A X : X \subseteq Facts => Leads(Way, p, X, X)
      BY <1>3, <3>1, <3>2, PollOnce
    <3> QED
      BY <1>6, <3>3, <3>4
  <2>3. CASE Instead(Arg(3))
    <3>1. PICK s : s = Arg(3)
      OBVIOUS
    <3>2. todo' = s \o Tail(todo)
      BY <2>3, <3>1 DEF Instead
    <3>3. \A X : X \subseteq Facts => Leads(Way, s, X, X)
      BY <1>3, <3>1, PollOnce
    <3> QED
      BY <1>6, <3>2, <3>3
  <2> QED
    BY <2>1, <2>2, <2>3 DEF Poll
<1> QED
  BY <1>2, <1>7, RunStays, DeviceStays, HostSound

LEMMA IsGrounded ==
  ASSUME Sound, NEW X, X \subseteq Known23
  PROVE  Grounded(Way, X)
<1>1. Way.encrypt = opt.encrypt /\ Way.asks = asks
  BY DEF Way
<1>2. X \subseteq Facts /\ \A x \in X : Holds(x)
  BY DEF Known23
<1>3. LayoutNames /\ ValueNames
  BY DEF Sound, NamesOk, Naming, LayoutNames, ValueNames
<1>4. T23!Ramcode # "unsigned"
  <2>1. ramfile # "unsigned" \/ ramfile = NoRam
    BY RamcodesAssumption DEF Sound, TypeOK
  <2>2. opt.ramcode # "unsigned"
    BY RamcodesAssumption DEF Sound, TypeOK
  <2> QED
    BY <2>1, <2>2 DEF T23!Ramcode, NoRam, T23!NoRam
<1>5. <<"kept", "pt">> \in X => kept.pt # None
  BY <1>2 DEF Holds, KeptIs
<1>6. <<"val", "raw">> \in X => val.rawkerneldtb # None
  BY <1>2 DEF Holds
<1> QED
  BY <1>1, <1>2, <1>3, <1>4, <1>5, <1>6 DEF Grounded

LEMMA CallingKeeps ==
  ASSUME Sound, Calling, opt.chip = "0x23"
  PROVE  Sound'
<1>1. Step("call") /\ UNCHANGED <<run, host>> /\ UNCHANGED device
  BY DEF Calling
<1>2. PICK m, a : m = Arg(1) /\ a = Arg(2)
  OBVIOUS
<1>3. PICK st : st = Head(todo)
  OBVIOUS
<1>4. todo # <<>> /\ st[1] = "call" /\ st[2] = m /\ st[3] = a /\ LegalCall(m, a)
  BY <1>1, <1>2, <1>3, StepIs, LegalTable
<1>5. PICK s : s = T23!Method(m, a)
  OBVIOUS
<1>6. todo' = s \o Tail(todo)
  BY <1>2, <1>5 DEF Calling, Instead, Method
<1>7. ASSUME NEW X, X \subseteq Known23, Need(Way, st) \subseteq X
      PROVE  Leads(Way, s, X, After(Way, st, X))
  <2>1. Need(Way, <<"call", m, a>>) = Need(Way, st)
    BY <1>4 DEF Need
  <2>2. After(Way, st, X) = AfterCall(Way, m, a, X)
    BY <1>4, AfterOf
  <2>3. Grounded(Way, X)
    BY <1>7, IsGrounded
  <2>4. PICK w : w = Way
    OBVIOUS
  <2>5. Leads(w, T23!Method(m, a), X, AfterCall(w, m, a, X))
    BY <1>4, <1>7, <2>1, <2>3, <2>4, MethodLeads
  <2> QED
    BY <1>5, <2>2, <2>4, <2>5
<1>8. FilesStay
  BY <1>1, RunStays
<1>9. Outlined'
  BY <1>3, <1>4, <1>6, <1>7, <1>8, InsteadOutlined
<1> QED
  BY <1>1, <1>9, RunStays, DeviceStays, HostSound

-----------------------------------------------------------------------------
(* Steps that change the tables.                                           *)

LEMMA TablesKeep ==
  ASSUME Sound, todo # <<>>, Next1, UNCHANGED <<run, disk, ramfile, device>>,
         DOMAIN val' = Values, DOMAIN kept' = Keepers, list' = list, NamesOk', Way' = Way,
         \A X : X \subseteq Known23 => After(Way, Head(todo), X) \subseteq Known23'
  PROVE  Sound'
<1> USE DEF Sound, run, device
<1>1. TypeOK'
  BY DEF TypeOK, NamesOk, Naming
<1>2. Board23' /\ Told' /\ Clean'
  BY DEF Board23, Told, Clean
<1>3. Outlined'
  BY Taken DEF Next1
<1> QED
  BY <1>1, <1>2, <1>3

\* What else is known when nothing but an assignment is made.
LEMMA NothingWritten ==
  ASSUME UNCHANGED <<run, disk>>
  PROVE  Way' = Way /\ \A f : Same(f)
BY DEF run, Way, asks, Same

LEMMA SetKeeps ==
  ASSUME Sound, Set
  PROVE  Sound'
<1>1. PICK v, f : v = Arg(1) /\ f = Arg(2)
  OBVIOUS
<1>2. /\ Step("set") /\ Next1 /\ val' = [val EXCEPT ![v] = f]
      /\ UNCHANGED <<run, disk, kept, layout, pt, list, ramfile, device>>
  BY <1>1 DEF Set
<1>3. /\ todo # <<>>
      /\ \/ v \in {"rawkerneldtb", "kerneldtb"} /\ Named(f, "kernel_dtb")
         \/ v = "bldtb" /\ Named(f, "bldtb")
  BY <1>1, <1>2, StepIs, LegalTable
<1>4. \A X : After(Way, Head(todo), X) = AfterSet(v, X)
  BY <1>1, <1>2, StepIs, AfterOf
<1>5. DOMAIN val = Values
  BY DEF Sound, TypeOK
<1>6. NamesOk'
  <2>1. Named(val'.bldtb, "bldtb")
    BY <1>2, <1>3, <1>5 DEF Sound, NamesOk, Values
  <2>2. val'.kerneldtb # None => Named(val'.kerneldtb, "kernel_dtb")
    BY <1>2, <1>3, <1>5 DEF Sound, NamesOk, Values
  <2> QED
    BY <1>2, <2>1, <2>2 DEF Sound, NamesOk, Naming
<1>7. v = "rawkerneldtb" => val'.rawkerneldtb # None
  BY <1>2, <1>3, <1>5 DEF Values, Named, None
<1>8. v # "rawkerneldtb" => val'.rawkerneldtb = val.rawkerneldtb
  BY <1>2, <1>5 DEF Values
<1>9. Way' = Way /\ (\A f1 : Same(f1)) /\ (Heard' <=> Heard)
  BY <1>2, NothingWritten DEF Heard
<1>10. ASSUME NEW X, X \subseteq Known23 PROVE AfterSet(v, X) \subseteq Known23'
  <2>1. ASSUME NEW x \in X PROVE x \in Known23'
    <3>1. x \in Facts /\ Holds(x)
      BY <1>10, <2>1 DEF Known23
    <3>2. CASE x[1] = "val" /\ v = "rawkerneldtb"
      <4>1. Holds(x)'
        BY <1>7, <3>2 DEF Holds
      <4> QED
        BY <3>1, <4>1, NowKnown
    <3>3. CASE x[1] # "val" \/ v # "rawkerneldtb"
      <4>1. Holds(x)'
        BY <1>2, <1>8, <1>9, <3>1, <3>3, Stays
      <4> QED
        BY <3>1, <4>1, NowKnown
    <3> QED
      BY <3>2, <3>3
  <2>2. ASSUME v = "rawkerneldtb" PROVE <<"val", "raw">> \in Known23'
    <3>1. <<"val", "raw">> \in Facts
      BY DEF Facts
    <3>2. Holds(<<"val", "raw">>)'
      BY <1>7, <2>2 DEF Holds
    <3> QED
      BY <3>1, <3>2, NowKnown
  <2> QED
    BY <2>1, <2>2 DEF AfterSet, If
<1>11. DOMAIN val' = Values /\ DOMAIN kept' = Keepers /\ list' = list /\ UNCHANGED <<run, disk, ramfile, device>>
  BY <1>2, <1>5 DEF Sound, TypeOK
<1> QED
  BY <1>2, <1>3, <1>4, <1>6, <1>9, <1>10, <1>11, TablesKeep

LEMMA KeepKeeps ==
  ASSUME Sound, Keep
  PROVE  Sound'
<1>1. PICK k, f : k = Arg(1) /\ f = Arg(2)
  OBVIOUS
<1>2. /\ Step("keep") /\ Next1 /\ kept' = [kept EXCEPT ![k] = f]
      /\ UNCHANGED <<run, disk, val, layout, pt, list, ramfile, device>>
  BY <1>1 DEF Keep
<1>3. todo # <<>> /\ k \in Keepers \ {"pt", "unheard", "ramcode"}
  BY <1>1, <1>2, StepIs, LegalTable
<1>4. \A X : After(Way, Head(todo), X) = AfterKeep(Way, k, f, X)
  BY <1>1, <1>2, StepIs, AfterOf
<1>5. DOMAIN kept = Keepers
  BY DEF Sound, TypeOK
<1>6. kept'[k] = f /\ \A n \in Keepers : n # k => kept'[n] = kept[n]
  BY <1>2, <1>3, <1>5
<1>7. Heard' <=> Heard
  BY <1>3, <1>6 DEF Heard, Keepers
<1>8. Way' = Way /\ \A g : Same(g)
  BY <1>2, NothingWritten
<1>9. ASSUME NEW X, X \subseteq Known23 PROVE AfterKeep(Way, k, f, X) \subseteq Known23'
  <2>1. ASSUME NEW x \in X, x # <<"kept", k>> PROVE x \in Known23'
    <3>1. x \in Facts /\ Holds(x)
      BY <1>9, <2>1 DEF Known23
    <3>2. ASSUME x[1] = "kept" PROVE kept'[x[2]] = kept[x[2]]
      <4>1. x = <<"kept", x[2]>> /\ x[2] \in KeptNames
        BY <3>1, <3>2 DEF Facts
      <4>2. x[2] # k /\ x[2] \in Keepers
        BY <2>1, <4>1 DEF KeptNames, Keepers
      <4> QED
        BY <1>6, <4>2
    <3>3. Holds(x)'
      BY <1>2, <1>7, <1>8, <3>1, <3>2, Stays
    <3> QED
      BY <3>1, <3>3, NowKnown
  <2>2. ASSUME k \in KeptNames \ {"pt"}, f = Expected(Way, k) PROVE <<"kept", k>> \in Known23'
    <3>1. <<"kept", k>> \in Facts
      BY <2>2 DEF Facts
    <3>2. kept'[k] = Expected(Way', k)
      BY <1>6, <1>8, <2>2
    <3>3. KeptIs(k)'
      BY <2>2, <3>2 DEF KeptIs
    <3>4. Holds(<<"kept", k>>)'
      BY <3>3 DEF Holds
    <3> QED
      BY <3>1, <3>4, NowKnown
  <2> QED
    BY <2>1, <2>2 DEF AfterKeep, If
<1>10. NamesOk'
  BY <1>2 DEF Sound, NamesOk, Naming
<1>11. DOMAIN val' = Values /\ DOMAIN kept' = Keepers /\ list' = list /\ UNCHANGED <<run, disk, ramfile, device>>
  BY <1>2, <1>5 DEF Sound, TypeOK
<1> QED
  BY <1>2, <1>3, <1>4, <1>8, <1>9, <1>10, <1>11, TablesKeep

\* The tables of the layout.
LEMMA LayoutsKeep ==
  ASSUME Sound, SetLayout \/ Repoint
  PROVE  Sound'
<1>1. /\ Step("layout") \/ Step("repoint")
      /\ Next1 /\ UNCHANGED <<run, disk, val, kept, list, ramfile, device>>
  BY DEF SetLayout, Repoint
<1>2. todo # <<>> /\ Head(todo)[1] \in Idle
  BY <1>1, StepIs DEF Idle
<1>3. Naming(layout') /\ Naming(pt')
  <2>1. CASE SetLayout
    <3>1. PICK t, f : t = Arg(1) /\ f = Arg(2)
      OBVIOUS
    <3>2. Step("layout") /\ layout' = [layout EXCEPT ![t] = f] /\ pt' = pt
      BY <2>1, <3>1 DEF SetLayout
    <3>3. t \in Types /\ Named(f, t)
      BY <3>1, <3>2, StepIs, LegalTable
    <3>4. Naming(layout) /\ Naming(pt)
      BY DEF Sound, NamesOk
    <3> QED
      BY <3>2, <3>3, <3>4 DEF Naming
  <2>2. CASE Repoint
    BY <2>2 DEF Repoint, Sound, NamesOk
  <2> QED
    BY <2>1, <2>2
<1>4. NamesOk'
  BY <1>1, <1>3 DEF Sound, NamesOk, Naming
<1>5. Way' = Way /\ Quietly /\ \A f : Same(f)
  BY <1>1, NothingWritten DEF Quietly, run
<1>6. Known23 \subseteq Known23'
  BY <1>5, StaysKnown
<1>7. \A X : After(Way, Head(todo), X) = X
  BY <1>2, AfterOf
<1>8. DOMAIN val' = Values /\ DOMAIN kept' = Keepers /\ list' = list /\ UNCHANGED <<run, disk, ramfile, device>>
  BY <1>1 DEF Sound, TypeOK
<1> QED
  BY <1>1, <1>2, <1>4, <1>5, <1>6, <1>7, <1>8, TablesKeep

LEMMA ParsePtKeeps ==
  ASSUME Sound, ParsePt
  PROVE  Sound'
<1>1. /\ Step("pt") /\ Next1 /\ pt' = layout /\ kept' = [kept EXCEPT !.pt = <<"flash", "bin">>]
      /\ UNCHANGED <<run, disk, val, layout, list, ramfile, device>>
  BY DEF ParsePt
<1>2. todo # <<>> /\ \A X : After(Way, Head(todo), X) = X \cup {<<"kept", "pt">>}
  BY <1>1, StepIs, AfterOf
<1>3. DOMAIN kept = Keepers
  BY DEF Sound, TypeOK
<1>4. kept'.pt # None /\ \A n \in Keepers : n # "pt" => kept'[n] = kept[n]
  <2>1. kept'.pt = <<"flash", "bin">>
    BY <1>1, <1>3 DEF Keepers
  <2> QED
    BY <1>1, <1>3, <2>1 DEF None
<1>5. Heard' <=> Heard
  BY <1>4 DEF Heard, Keepers
<1>6. Way' = Way /\ \A g : Same(g)
  BY <1>1, NothingWritten
<1>7. <<"kept", "pt">> \in Known23'
  <2>1. <<"kept", "pt">> \in Facts
    BY DEF Facts, KeptNames
  <2>2. Holds(<<"kept", "pt">>)'
    BY <1>4 DEF Holds, KeptIs
  <2> QED
    BY <2>1, <2>2, NowKnown
<1>8. ASSUME NEW X, X \subseteq Known23, NEW x \in X, x # <<"kept", "pt">> PROVE x \in Known23'
  <2>1. x \in Facts /\ Holds(x)
    BY <1>8 DEF Known23
  <2>2. ASSUME x[1] = "kept" PROVE kept'[x[2]] = kept[x[2]]
    <3>1. x = <<"kept", x[2]>> /\ x[2] \in KeptNames
      BY <2>1, <2>2 DEF Facts
    <3>2. x[2] # "pt" /\ x[2] \in Keepers
      BY <1>8, <3>1 DEF KeptNames, Keepers
    <3> QED
      BY <1>4, <3>2
  <2>3. Holds(x)'
    BY <1>1, <1>5, <1>6, <2>1, <2>2, Stays
  <2> QED
    BY <2>1, <2>3, NowKnown
<1>9. NamesOk'
  BY <1>1 DEF Sound, NamesOk, Naming
<1>10. DOMAIN val' = Values /\ DOMAIN kept' = Keepers /\ list' = list /\ UNCHANGED <<run, disk, ramfile, device>>
  BY <1>1, <1>3 DEF Sound, TypeOK
<1>11. \A X : X \subseteq Known23 => After(Way, Head(todo), X) \subseteq Known23'
  BY <1>2, <1>7, <1>8
<1> QED
  BY <1>1, <1>2, <1>6, <1>9, <1>10, <1>11, TablesKeep

LEMMA AskKeeps ==
  ASSUME Sound, Ask
  PROVE  Sound'
<1>1. CASE /\ Next1 /\ kept' = [kept EXCEPT !.asked = <<"yes">>]
           /\ UNCHANGED <<run, disk, val, layout, pt, list, ramfile, device>>
  <2>1. todo # <<>> /\ \A X : After(Way, Head(todo), X) = X
    BY StepIs, AfterOf DEF Ask, Idle
  <2>2. DOMAIN kept = Keepers
    BY DEF Sound, TypeOK
  <2>3. \A n \in Keepers : n # "asked" => kept'[n] = kept[n]
    BY <1>1, <2>2
  <2>4. Heard' <=> Heard
    BY <2>3 DEF Heard, Keepers
  <2>5. Way' = Way /\ \A g : Same(g)
    BY <1>1, NothingWritten
  <2>6. ASSUME NEW X, X \subseteq Known23, NEW x \in X PROVE x \in Known23'
    <3>1. x \in Facts /\ Holds(x)
      BY <2>6 DEF Known23
    <3>2. ASSUME x[1] = "kept" PROVE kept'[x[2]] = kept[x[2]]
      <4>1. x[2] \in KeptNames
        BY <3>1, <3>2 DEF Facts
      <4>2. x[2] # "asked" /\ x[2] \in Keepers
        BY <4>1 DEF KeptNames, Keepers
      <4> QED
        BY <2>3, <4>2
    <3>3. Holds(x)'
      BY <1>1, <2>4, <2>5, <3>1, <3>2, Stays
    <3> QED
      BY <3>1, <3>3, NowKnown
  <2>7. NamesOk'
    BY <1>1 DEF Sound, NamesOk, Naming
  <2>8. DOMAIN val' = Values /\ DOMAIN kept' = Keepers /\ list' = list /\ UNCHANGED <<run, disk, ramfile, device>>
    BY <1>1, <2>2 DEF Sound, TypeOK
  <2>9. \A X : X \subseteq Known23 => After(Way, Head(todo), X) \subseteq Known23'
    BY <2>1, <2>6
  <2> QED
    BY <1>1, <2>1, <2>5, <2>7, <2>8, <2>9, TablesKeep
<1>2. CASE status' = "failed" /\ todo' = <<>> /\ UNCHANGED <<opt, jobs, cmds, now, host, device>>
  BY <1>2, EndedKeeps DEF HostKeeps, Statuses
<1> QED
  BY <1>1, <1>2 DEF Ask

\* A failure that goes unheard: what is known of files no longer counts.
LEMMA SignsNothingAfter ==
  ASSUME NEW w, NEW st, st[1] \in {"sign", "sha", "signlist"}, NEW X, X \subseteq Facts
  PROVE  After(w, st, X) \subseteq Facts /\ \A x \in After(w, st, X) : x[1] \in {"kept", "val"} => x \in X
<1>1. CASE st[1] = "sign"
  <2>1. After(w, st, X) = AfterSign(w, st[2], st[3], X)
    BY <1>1, AfterOf
  <2>2. {"sigfile"} \X Signers \subseteq Facts /\ Br({"sigfile"}) \subseteq Facts
    BY DEF Facts, Br, BrKinds
  <2>3. \A x \in ({"sigfile"} \X Signers) \cup Br({"sigfile"}) : x[1] \notin {"kept", "val"}
    BY DEF Br
  <2>4. AfterSign(w, st[2], st[3], X) \subseteq X \cup ({"sigfile"} \X Signers) \cup Br({"sigfile"})
    BY DEF AfterSign, Unwritten, Unsent, If
  <2> QED
    BY <2>1, <2>2, <2>3, <2>4
<1>2. CASE st[1] = "sha"
  <2>1. After(w, st, X) = AfterSha(X)
    BY <1>2, AfterOf
  <2>2. Br({"shafile"}) \subseteq Facts
    BY DEF Facts, Br, BrKinds
  <2>3. \A x \in Br({"shafile"}) : x[1] \notin {"kept", "val"}
    BY DEF Br
  <2>4. AfterSha(X) \subseteq X \cup Br({"shafile"})
    BY DEF AfterSha, Unwritten, If
  <2> QED
    BY <2>1, <2>2, <2>3, <2>4
<1>3. CASE st[1] = "signlist"
  <2>1. After(w, st, X) = AfterSignList(X)
    BY <1>3, AfterOf
  <2>2. <<"list", "signed">> \in Facts
    BY DEF Facts
  <2>3. AfterSignList(X) \subseteq X \cup {<<"list", "signed">>}
    BY DEF AfterSignList, If
  <2> QED
    BY <2>1, <2>2, <2>3
<1> QED
  BY <1>1, <1>2, <1>3

LEMMA SignsNothingKeeps ==
  ASSUME Sound, SignsNothing
  PROVE  Sound'
<1>1. /\ todo # <<>> /\ Head(todo)[1] \in {"sign", "sha", "signlist"} /\ Next1
      /\ kept' = [kept EXCEPT !.unheard = <<"yes">>]
      /\ UNCHANGED <<run, disk, val, layout, pt, list, ramfile, device>>
  BY DEF SignsNothing
<1>2. DOMAIN kept = Keepers
  BY DEF Sound, TypeOK
<1>3. \A n \in Keepers : n # "unheard" => kept'[n] = kept[n]
  BY <1>1, <1>2
<1>4. ~Heard'
  <2>1. kept'.unheard = <<"yes">>
    BY <1>1, <1>2 DEF Keepers
  <2> QED
    BY <2>1 DEF Heard, None
<1>5. Way' = Way /\ \A g : Same(g)
  BY <1>1, NothingWritten
<1>6. ASSUME NEW X, X \subseteq Known23, NEW x \in After(Way, Head(todo), X) PROVE x \in Known23'
  <2>1. X \subseteq Facts
    BY <1>6 DEF Known23
  <2>2. x \in Facts /\ (x[1] \in {"kept", "val"} => x \in X)
    BY <1>1, <1>6, <2>1, SignsNothingAfter
  <2>3. CASE x[1] \in {"kept", "val"}
    <3>1. Holds(x)
      BY <1>6, <2>2, <2>3 DEF Known23
    <3>2. ASSUME x[1] = "kept" PROVE kept'[x[2]] = kept[x[2]]
      <4>1. x[2] \in KeptNames
        BY <2>2, <3>2 DEF Facts
      <4>2. x[2] # "unheard" /\ x[2] \in Keepers
        BY <4>1 DEF KeptNames, Keepers
      <4> QED
        BY <1>3, <4>2
    <3>3. Holds(x)'
      BY <1>1, <1>4, <1>5, <2>2, <3>1, <3>2, Stays
    <3> QED
      BY <2>2, <3>3, NowKnown
  <2>4. CASE x[1] \notin {"kept", "val"}
    <3>1. x[1] \in {"list", "br", "header", "sigfile", "attached", "signed"}
      BY <2>2, <2>4 DEF Facts
    <3>2. Holds(x)'
      BY <1>4, <3>1 DEF Holds
    <3> QED
      BY <2>2, <3>2, NowKnown
  <2> QED
    BY <2>3, <2>4
<1>7. NamesOk'
  BY <1>1 DEF Sound, NamesOk, Naming
<1>8. DOMAIN val' = Values /\ DOMAIN kept' = Keepers /\ list' = list /\ UNCHANGED <<run, disk, ramfile, device>>
  BY <1>1, <1>2 DEF Sound, TypeOK
<1>9. \A X : X \subseteq Known23 => After(Way, Head(todo), X) \subseteq Known23'
  BY <1>6
<1> QED
  BY <1>1, <1>5, <1>7, <1>8, <1>9, TablesKeep

LEMMA ChipInfoKeeps ==
  ASSUME Sound, ChipInfo
  PROVE  Sound'
<1>1. Step("chipinfo") /\ Next1 /\ ramfile' = dev.ram /\ UNCHANGED <<run, files, device>>
  BY DEF ChipInfo
<1>2. todo # <<>> /\ Head(todo)[1] \in Idle
  BY <1>1, StepIs DEF Idle
<1>3. FilesStay
  BY <1>1 DEF FilesStay, run
<1>4. Outlined'
  BY <1>1, <1>2, <1>3, IdleTaken
<1>5. TypeOK'
  BY <1>1 DEF Sound, TypeOK, run, files, device
<1>6. Board23' /\ Told' /\ Clean' /\ NamesOk'
  BY <1>1 DEF Sound, Board23, Told, Clean, NamesOk, Naming, run, files, device
<1> QED
  BY <1>4, <1>5, <1>6 DEF Sound

-----------------------------------------------------------------------------
(* The list of images.                                                     *)

LEMMA BaseStays ==
  ASSUME UNCHANGED <<kept, val>>, NEW X, X \subseteq Known23
  PROVE  X \cap Base \subseteq Known23'
<1>1. ASSUME NEW x \in X \cap Base PROVE x \in Known23'
  <2>1. x \in Facts /\ Holds(x)
    BY <1>1 DEF Known23
  <2>2. x \in {<<"kept", "pt">>, <<"val", "raw">>}
    BY <1>1 DEF Base
  <2>3. ASSUME x = <<"kept", "pt">> PROVE Holds(x)'
    <3>1. x[1] = "kept" /\ x[2] = "pt"
      BY <2>3
    <3>2. kept.pt # None
      BY <2>1, <3>1 DEF Holds, KeptIs
    <3> QED
      BY <3>1, <3>2 DEF Holds, KeptIs
  <2>4. ASSUME x = <<"val", "raw">> PROVE Holds(x)'
    <3>1. x[1] = "val"
      BY <2>4
    <3>2. val.rawkerneldtb # None
      BY <2>1, <3>1 DEF Holds
    <3> QED
      BY <3>1, <3>2 DEF Holds
  <2> QED
    BY <2>1, <2>2, <2>3, <2>4, NowKnown
<1> QED
  BY <1>1

LEMMA ListImagesKeeps ==
  ASSUME Sound, ListImages
  PROVE  Sound'
<1>1. /\ Step("list") /\ Next1 /\ list' = [t \in Types |-> pt[t] \o <<"sigheader">>]
      /\ UNCHANGED <<run, val, kept, layout, pt, ramfile, device>>
  BY DEF ListImages
<1> DEFINE of(f) == CHOOSE u \in Types : list'[u] = f
           new == [f \in {list'[t] : t \in Types} |-> Text(Append(Contents(P(of(f))).is, "header"))]
<1>2. disk' = Written(new)
  BY DEF ListImages
<1>3. ASSUME NEW t \in Types PROVE Named(list'[t], t)
  <2>1. Named(pt[t], t)
    BY DEF Sound, NamesOk, Naming
  <2>2. PICK f : f = pt[t]
    OBVIOUS
  <2>3. Named(f \o <<"sigheader">>, t)
    BY <2>1, <2>2, Appended
  <2> QED
    BY <1>1, <2>2, <2>3
<1>4. ASSUME NEW t \in Types PROVE of(list'[t]) = t
  <2>1. \A u \in Types : list'[u] = list'[t] => u = t
    BY <1>3 DEF Named
  <2> QED
    BY <2>1
<1> HIDE DEF of
<1>5. ASSUME NEW t \in Types PROVE list'[t] \in DOMAIN new /\ new[list'[t]] = Text(Append(Contents(P(t)).is, "header"))
  BY <1>4
<1>6. ASSUME NEW t \in Types, t \in Plain
      PROVE  Pure(Text(Append(Contents(P(t)).is, "header"))) /\ Append(Contents(P(t)).is, "header") # <<>>
  <2>1. Name(P(t)) = pt[t]
    BY DEF Name, P
  <2>2. pt[t][1] = t
    BY DEF Sound, NamesOk, Naming, Named
  <2>3. Pure(Contents(P(t)))
    BY <1>6, <2>1, <2>2, PureContents DEF Sound
  <2>4. Signable(Append(Contents(P(t)).is, "header")) /\ Append(Contents(P(t)).is, "header") # <<>>
    BY <2>3, SignableAppend DEF Pure
  <2> QED
    BY <2>4, TextIs
<1>7. DOMAIN new = {list'[t] : t \in Types}
  OBVIOUS
<1> HIDE DEF new
<1>8. Clean' /\ DOMAIN disk \subseteq DOMAIN disk'
  <2>1. ASSUME NEW f \in DOMAIN new, f[1] \in Plain \cup {"br_bct"} PROVE Pure(new[f])
    <3>1. PICK t \in Types : f = list'[t]
      BY <1>7
    <3>2. f[1] = t
      BY <1>3, <3>1 DEF Named
    <3>3. t \in Plain
      BY <2>1, <3>2 DEF Types
    <3> QED
      BY <1>5, <1>6, <3>1, <3>3
  <2> QED
    BY <1>2, <2>1, CleanWritten DEF Sound
<1>9. ASSUME NEW t \in Types
      PROVE  list'[t] \in DOMAIN disk' /\ disk'[list'[t]] = Text(Append(Contents(P(t)).is, "header"))
  BY <1>2, <1>5, WrittenIs
<1>10. NamesOk'
  <2>1. Naming(list')
    BY <1>1, <1>3 DEF Naming
  <2> QED
    BY <1>1, <1>9, <2>1 DEF Sound, NamesOk, Naming
<1>11. TypeOK'
  <2>1. DOMAIN list' = Types /\ Sources \subseteq DOMAIN disk'
    BY <1>1, <1>8 DEF Sound, TypeOK
  <2> QED
    BY <1>1, <2>1 DEF Sound, TypeOK, run, device
<1>12. Board23' /\ Told'
  BY <1>1 DEF Sound, Board23, Told, run, device
<1>13. Way' = Way
  BY <1>1 DEF run, Way, asks
<1>14. <<"list", "made">> \in Known23'
  <2>1. <<"list", "made">> \in Facts
    BY DEF Facts
  <2>2. ASSUME NEW t \in {"mb1", "psc"} PROVE list'[t] \in DOMAIN disk' /\ disk'[list'[t]].is # <<>>
    <3>1. t \in Types /\ t \in Plain
      BY DEF Types, Plain
    <3> QED
      BY <1>6, <1>9, <3>1, TextIs
  <2>3. ListIs("made")'
    BY <2>2 DEF ListIs
  <2>4. Holds(<<"list", "made">>)'
    BY <2>3 DEF Holds
  <2> QED
    BY <2>1, <2>4, NowKnown
<1>15. todo # <<>> /\ \A X : After(Way, Head(todo), X) = (X \cap Base) \cup {<<"list", "made">>}
  BY <1>1, StepIs, AfterOf
<1>16. \A X : X \subseteq Known23 => After(Way, Head(todo), X) \subseteq Known23'
  BY <1>1, <1>14, <1>15, BaseStays
<1>17. Outlined'
  BY <1>1, <1>13, <1>15, <1>16, Taken DEF Sound, Next1
<1> QED
  BY <1>8, <1>10, <1>11, <1>12, <1>17 DEF Sound

LEMMA SignListKeeps ==
  ASSUME Sound, SignList
  PROVE  Sound'
<1>1. Step("signlist") /\ Next1 /\ RestStays
  BY DEF SignList, RestStays
<1> DEFINE new == [f \in {SignedList} \cup {list[t] : t \in Types} |->
                   IF f = SignedList THEN Text(SignedList) ELSE [disk[f] EXCEPT !.sig = Body(disk[f])]]
<1>2. disk' = Written(new)
  BY DEF SignList
<1>3. \A t \in Types : list[t][1] = t /\ list[t] \in DOMAIN disk
  BY DEF Sound, NamesOk, Naming, Named
<1>4. SignedList[1] = "images_list" /\ "images_list" \notin Types \cup Plain \cup {"br_bct"}
  BY DEF SignedList, Types, Plain, Signers
<1>5. /\ DOMAIN new = {SignedList} \cup {list[t] : t \in Types}
      /\ \A t \in Types : new[list[t]] = [disk[list[t]] EXCEPT !.sig = Body(disk[list[t]])]
  BY <1>3, <1>4
<1> HIDE DEF new
<1>6. ASSUME NEW t \in Types, t \in Plain PROVE Pure(disk[list[t]])
  BY <1>3, <1>6 DEF Sound, Clean
<1>7. ASSUME NEW f \in DOMAIN new, f[1] \in Plain \cup {"br_bct"} PROVE Pure(new[f])
  <2>1. f # SignedList
    BY <1>4, <1>7
  <2>2. PICK t \in Types : f = list[t]
    BY <1>5, <2>1
  <2>3. t \in Plain
    BY <1>3, <1>7, <2>2 DEF Types
  <2>4. PICK c, v : c = disk[list[t]] /\ v = Body(disk[list[t]])
    OBVIOUS
  <2>5. Pure([c EXCEPT !.sig = v])
    BY <1>6, <2>3, <2>4, PureField
  <2> QED
    BY <1>5, <2>2, <2>4, <2>5
<1>8. Clean' /\ DOMAIN disk \subseteq DOMAIN disk'
  BY <1>2, <1>7, CleanWritten DEF Sound
<1>9. Quietly /\ list' = list
  BY <1>1, RestQuiet DEF Quietly
<1>10. ASSUME NEW X, X \subseteq Known23, <<"list", "made">> \in X PROVE <<"list", "signed">> \in Known23'
  <2>1. Heard => ListIs("made")
    BY <1>10 DEF Known23, Holds
  <2>2. ASSUME Heard, NEW t \in {"mb1", "psc"}
        PROVE  list'[t] \in DOMAIN disk' /\ Signed(disk'[list'[t]])
    <3>1. t \in Types /\ t \in Plain
      BY DEF Types, Plain
    <3>2. disk[list[t]].is # <<>>
      BY <2>1, <2>2 DEF ListIs
    <3>3. list[t] \in DOMAIN disk' /\ disk'[list[t]] = [disk[list[t]] EXCEPT !.sig = Body(disk[list[t]])]
      <4>1. PICK f : f = list[t]
        OBVIOUS
      <4>2. f \in DOMAIN new
        BY <1>5, <3>1, <4>1
      <4>3. f \in DOMAIN disk' /\ disk'[f] = new[f]
        BY <1>2, <4>2, WrittenIs
      <4> QED
        BY <1>5, <3>1, <4>1, <4>3
    <3>4. PICK c : c = disk[list[t]]
      OBVIOUS
    <3>5. Signed([c EXCEPT !.sig = Body(c)])
      BY <1>6, <3>1, <3>2, <3>4, NowSigned
    <3> QED
      BY <1>9, <3>3, <3>4, <3>5
  <2>3. Heard' => Heard
    BY <1>9 DEF Quietly, Heard
  <2>4. Heard' => ListIs("signed")'
    BY <2>2, <2>3 DEF ListIs
  <2>5. Holds(<<"list", "signed">>)'
    BY <2>4 DEF Holds
  <2>6. <<"list", "signed">> \in Facts
    BY DEF Facts
  <2> QED
    BY <2>5, <2>6, NowKnown
<1>11. todo # <<>> /\ \A X : After(Way, Head(todo), X) = AfterSignList(X)
  BY <1>1, StepIs, AfterOf
<1>12. ASSUME NEW X, X \subseteq Known23 PROVE AfterSignList(X) \subseteq Known23'
  <2>1. X \cap Base \subseteq Known23'
    BY <1>9, <1>12, BaseStays DEF Quietly
  <2> QED
    BY <1>10, <1>12, <2>1 DEF AfterSignList, If
<1> QED
  BY <1>1, <1>8, <1>11, <1>12, FilesKeep

-----------------------------------------------------------------------------
(* Commands, invocations and sessions.                                     *)

LEMMA SeqTail ==
  ASSUME NEW s, IsSeq(s), s # <<>>
  PROVE  /\ IsSeq(Tail(s)) /\ 1 \in DOMAIN s /\ Head(s) = s[1]
         /\ \A n \in DOMAIN Tail(s) : n + 1 \in DOMAIN s /\ Tail(s)[n] = s[n + 1]
<1> DEFINE Z == {s[i] : i \in DOMAIN s}
<1>1. s \in Seq(Z)
  BY DEF IsSeq
<1> HIDE DEF Z
<1>2. Tail(s) \in Seq(Z)
  BY <1>1
<1>3. IsSeq(Tail(s))
  BY <1>2, IsSeqOf
<1>4. 1 \in DOMAIN s /\ Head(s) = s[1]
  BY <1>1
<1>5. \A n \in DOMAIN Tail(s) : n + 1 \in DOMAIN s /\ Tail(s)[n] = s[n + 1]
  BY <1>1
<1> QED
  BY <1>3, <1>4, <1>5

LEMMA NextLawful ==
  /\ \A cs : Lawful(cs) /\ cs # <<>> => LawfulCommand(Head(cs)) /\ Lawful(Tail(cs))
  /\ \A js : AllLawful(js) /\ js # <<>> => Lawful(Head(js)) /\ AllLawful(Tail(js))
  /\ Lawful(<<>>)
<1>1. \A cs : Lawful(cs) /\ cs # <<>> => LawfulCommand(Head(cs)) /\ Lawful(Tail(cs))
  BY SeqTail DEF Lawful
<1>2. \A js : AllLawful(js) /\ js # <<>> => Lawful(Head(js)) /\ AllLawful(Tail(js))
  BY SeqTail DEF AllLawful
<1>3. IsSeq(<<>>)
  BY IsSeqShort
<1>4. Lawful(<<>>)
  BY <1>3 DEF Lawful
<1> QED
  BY <1>1, <1>2, <1>4

LEMMA FreshOk ==
  /\ DOMAIN FreshValues = Values /\ DOMAIN NothingKept = Keepers /\ Naming(OwnFiles)
  /\ Named(FreshValues.bldtb, "bldtb") /\ FreshValues.kerneldtb = None
  /\ \A t \in Types : OwnFiles[t] \in Sources
<1>1. DOMAIN FreshValues = Values /\ FreshValues.kerneldtb = None /\ FreshValues.bldtb = <<"bldtb">>
  BY DEF FreshValues, Values
<1>2. Named(<<"bldtb">>, "bldtb")
  BY OneName
<1>3. ASSUME NEW t \in Types PROVE Named(<<t>>, t)
  <2>1. t # "unsigned"
    BY DEF Types
  <2> QED
    BY <2>1, OneName
<1>4. Naming(OwnFiles)
  BY <1>3 DEF Naming, OwnFiles
<1>5. \A t \in Types : OwnFiles[t] \in Sources
  BY SourcesAssumption DEF OwnFiles
<1> QED
  BY <1>1, <1>2, <1>4, <1>5 DEF NothingKept

LEMMA NoneLeads == ASSUME NEW w PROVE Leads(w, <<>>, {}, {})
BY LeadsNone

LEMMA EmptyOutlined ==
  ASSUME todo' = <<>>
  PROVE  Outlined'
<1>1. PICK w : w = Way'
  OBVIOUS
<1>2. Leads(Way', todo', {}, {})
  BY <1>1, NoneLeads
<1> QED
  BY <1>2, Dropped

LEMMA CommandKeeps ==
  ASSUME Sound, Command, opt.chip = "0x23", ~opt.secure
  PROVE  Sound'
<1>1. /\ cmds # <<>> /\ now' = Head(cmds) /\ cmds' = Tail(cmds) /\ val' = FreshValues /\ todo' = OneCmd(now')
      /\ UNCHANGED <<opt, jobs, status, disk, kept, layout, pt, list, ramfile, device>>
  BY DEF Command
<1>2. LawfulCommand(now') /\ Lawful(cmds')
  BY <1>1, NextLawful DEF Sound, Told
<1>3. PICK c : c = now'
  OBVIOUS
<1>4. PICK w : w = Way'
  OBVIOUS
<1>5. w.encrypt = opt.encrypt /\ w.asks = (c[1] \in {"dump", "readfuses"})
  BY <1>1, <1>3, <1>4 DEF Way, asks
<1>6. Leads(w, OneCmd(c), {}, {})
  BY <1>2, <1>3, <1>5, BoundsAssumption, OneCmdLeads
<1>7. Leads(Way', todo', {}, {})
  BY <1>1, <1>3, <1>4, <1>6
<1>8. Outlined'
  BY <1>7, Dropped
<1>9. TypeOK' /\ Board23'
  BY <1>1, FreshOk DEF Sound, TypeOK, Board23, device
<1>10. Told' /\ Clean'
  BY <1>1, <1>2 DEF Sound, Told, Clean
<1>11. NamesOk'
  BY <1>1, FreshOk DEF Sound, NamesOk, Naming
<1> QED
  BY <1>8, <1>9, <1>10, <1>11 DEF Sound

LEMMA StartKeeps ==
  ASSUME Sound, Start
  PROVE  Sound'
<1>1. /\ jobs # <<>> /\ jobs' = Tail(jobs) /\ cmds' = Head(jobs) /\ status' = "running" /\ todo' = <<>>
      /\ disk' = [f \in Sources |-> disk[f]] /\ val' = FreshValues /\ kept' = NothingKept
      /\ layout' = OwnFiles /\ pt' = OwnFiles /\ list' = OwnFiles /\ UNCHANGED <<opt, ramfile, device>>
  BY DEF Start
<1>2. Told'
  BY <1>1, NextLawful DEF Sound, Told
<1>3. Outlined'
  BY <1>1, EmptyOutlined
<1>4. TypeOK' /\ Board23'
  BY <1>1, FreshOk DEF Sound, TypeOK, Board23, device, Naming
<1>5. Clean'
  BY <1>1 DEF Sound, TypeOK, Clean
<1>6. NamesOk'
  BY <1>1, FreshOk DEF NamesOk, Naming
<1> QED
  BY <1>2, <1>3, <1>4, <1>5, <1>6 DEF Sound

LEMMA SourcesAre ==
  ASSUME ~opt.secure
  PROVE  DOMAIN SourceFiles = Sources /\ \A f \in Sources : Pure(SourceFiles[f])
<1>1. DOMAIN SourceFiles = Sources /\ \A f \in Sources : SourceFiles[f] = Text(f)
  BY DEF SourceFiles
<1>2. \A f \in Sources : Signable(f)
  BY SourcesAssumption
<1> QED
  BY <1>1, <1>2, TextIs

LEMMA SessionsLawful ==
  ASSUME opt \in Options, opt.chip = "0x23", ~opt.secure, NEW js \in Sessions[opt.use]
  PROVE  AllLawful(js)
BY SessionsAssumption

LEMMA AgainKeeps ==
  ASSUME Sound, Again, opt.chip = "0x23", ~opt.secure
  PROVE  Sound'
<1>1. /\ swaps < MaxSwaps[opt.use] /\ swaps' = swaps + 1
      /\ jobs' \in Sessions[opt.use] /\ cmds' = <<>> /\ status' = "idle" /\ todo' = <<>>
      /\ disk' = SourceFiles /\ val' = FreshValues /\ kept' = NothingKept
      /\ layout' = OwnFiles /\ pt' = OwnFiles /\ list' = OwnFiles /\ UNCHANGED <<opt, ramfile>>
  BY DEF Again
<1>2. /\ \/ dev' = dev
         \/ \E r \in Ramcodes : dev' = Board("bootrom", r)
      /\ DOMAIN part' = Partitions
  BY BoardIs DEF Again
<1>3. Board23'
  <2>1. dev' \in [stage : Stages, starts : Stages, ram : Ramcodes]
    BY <1>2, BoardIs DEF Board, Stages
  <2> QED
    BY <2>1 DEF Board23
<1>4. dev'.ram \in Ramcodes /\ dev'.stage \in Stages
  BY <1>3 DEF Board23
<1>5. Told'
  BY <1>1, NextLawful, SessionsLawful DEF Sound, Told, TypeOK
<1>6. Outlined'
  BY <1>1, EmptyOutlined
<1>7. swaps' \in 0..MaxSwaps[opt.use]
  <2>1. MaxSwaps[opt.use] \in Nat /\ swaps \in 0..MaxSwaps[opt.use]
    BY BoundsAssumption DEF Sound, TypeOK
  <2> QED
    BY <1>1, <2>1
<1>8. TypeOK'
  BY <1>1, <1>2, <1>4, <1>7, FreshOk, SourcesAre DEF Sound, TypeOK, Naming
<1>9. Clean'
  BY <1>1, SourcesAre DEF Clean
<1>10. NamesOk'
  BY <1>1, FreshOk, SourcesAre DEF NamesOk, Naming
<1> QED
  BY <1>3, <1>5, <1>6, <1>8, <1>9, <1>10 DEF Sound

LEMMA InitSound ==
  ASSUME Init, opt.chip = "0x23", ~opt.secure
  PROVE  Sound
<1>1. /\ opt \in Options /\ jobs \in Sessions[opt.use] /\ cmds = <<>> /\ status = "idle" /\ todo = <<>>
      /\ disk = SourceFiles /\ val = FreshValues /\ kept = NothingKept
      /\ layout = OwnFiles /\ pt = OwnFiles /\ list = OwnFiles /\ ramfile = NoRam
      /\ part = [p \in Partitions |-> Absent] /\ swaps = 0
  BY DEF Init
<1>2. PICK r \in Ramcodes : dev = Board("bootrom", r)
  BY DEF Init
<1>3. Board23
  BY <1>2 DEF Board, Board23, Stages
<1>4. dev.ram \in Ramcodes /\ dev.stage \in Stages
  BY <1>3 DEF Board23
<1>5. Told
  BY <1>1, NextLawful, SessionsLawful DEF Told
<1>6. Outlined
  <2>1. PICK w : w = Way
    OBVIOUS
  <2>2. PICK K1 : K1 = Known23
    OBVIOUS
  <2>3. Leads(w, <<>>, K1, {})
    BY NoneLeads, LeadsFrom
  <2> QED
    BY <1>1, <2>1, <2>2, <2>3 DEF Outlined
<1>7. TypeOK
  <2>1. 0 \in 0..MaxSwaps[opt.use]
    BY <1>1, BoundsAssumption
  <2> QED
    BY <1>1, <1>4, <2>1, FreshOk, SourcesAre DEF TypeOK, Naming
<1>8. Clean
  BY <1>1, SourcesAre DEF Clean
<1>9. NamesOk
  BY <1>1, FreshOk, SourcesAre DEF NamesOk, Naming
<1> QED
  BY <1>3, <1>5, <1>6, <1>7, <1>8, <1>9 DEF Sound

-----------------------------------------------------------------------------
(* Every step.                                                             *)

LEMMA OptionsStay ==
  ASSUME Next
  PROVE  opt' = opt
<1> USE DEF run
<1>1. CASE Start \/ Command \/ Ask \/ Calling \/ Caught \/ EndInvocation \/ ComesUp \/ Again
  BY <1>1 DEF Start, Command, Ask, Calling, Caught, EndInvocation, ComesUp, Again
<1>2. CASE Tool \/ Fails \/ Missing \/ Raise \/ Crash \/ SignsNothing
  BY <1>2 DEF Tool, Fails, Missing, Raise, Crash, SignsNothing
<1>3. CASE Make \/ Edit \/ Odm \/ Copy \/ Header \/ Join
  BY <1>3 DEF Make, Edit, Odm, Copy, Header, Join, ChangeFile
<1>4. CASE Attach \/ Sha \/ PutSha \/ Digest \/ Read
  BY <1>4 DEF Attach, Sha, PutSha, Digest, Read, ChangeFile
<1>5. CASE Rename \/ Sign \/ Set \/ Keep \/ SetLayout \/ ParsePt \/ ListImages \/ SignList \/ Repoint
  BY <1>5 DEF Rename, Sign, Set, Keep, SetLayout, ParsePt, ListImages, SignList, Repoint
<1>6. CASE Send \/ Boot \/ Poll \/ Reboot \/ ChipInfo \/ TakeRamcode
  BY <1>6 DEF Send, Boot, Poll, Reboot, ChipInfo, TakeRamcode
<1>7. CASE Create \/ Write \/ Torn \/ Erase
  BY <1>7 DEF Create, Write, Torn, Erase, WritePart
<1> QED
  BY <1>1, <1>2, <1>3, <1>4, <1>5, <1>6, <1>7 DEF Next, TakeStep

LEMMA NextSound ==
  ASSUME Sound, Next, opt.chip = "0x23", ~opt.secure
  PROVE  Sound'
<1>1. CASE Start \/ Command \/ Ask \/ Calling \/ Caught \/ EndInvocation \/ ComesUp \/ Again
  BY <1>1, StartKeeps, CommandKeeps, AskKeeps, CallingKeeps, EndingKeeps, ComesUpKeeps, AgainKeeps
<1>2. CASE Tool \/ Fails \/ Missing \/ Raise \/ Crash \/ SignsNothing
  BY <1>2, ToolKeeps, FailureKeeps, EndingKeeps, SignsNothingKeeps
<1>3. CASE Make \/ Edit \/ Odm \/ Copy \/ Header \/ Join
  BY <1>3, MakeKeeps, EditKeeps, OdmKeeps, CopyKeeps, HeaderKeeps, JoinKeeps
<1>4. CASE Attach \/ Sha \/ PutSha \/ Digest \/ Read
  BY <1>4, AttachKeeps, ShaKeeps, PutShaKeeps, DigestKeeps, ReadKeeps
<1>5. CASE Rename \/ Sign \/ Set \/ Keep \/ SetLayout \/ ParsePt \/ ListImages \/ SignList \/ Repoint
  BY <1>5, RenameKeeps, SignKeeps, SetKeeps, KeepKeeps, LayoutsKeep, ParsePtKeeps, ListImagesKeeps, SignListKeeps
<1>6. CASE Send \/ Boot \/ Poll \/ Reboot \/ ChipInfo \/ TakeRamcode
  BY <1>6, SendKeeps, NoBoot, PollKeeps, RebootKeeps, ChipInfoKeeps
<1>7. CASE Create \/ Write \/ Torn \/ Erase
  BY <1>7, PartitionsKeep, TornKeeps
<1> QED
  BY <1>1, <1>2, <1>3, <1>4, <1>5, <1>6, <1>7 DEF Next, TakeStep

LEMMA StutterSound ==
  ASSUME Sound, UNCHANGED vars
  PROVE  Sound'
<1>1. UNCHANGED <<run, host>> /\ UNCHANGED device /\ todo' = todo
  BY DEF vars
<1>2. HostKeeps /\ FilesStay /\ status' \in Statuses
  BY <1>1, RunStays
<1>3. Outlined'
  <2>1. PICK w : w = Way /\ w = Way'
    BY <1>2, StillKnown
  <2>2. PICK K1 : K1 = Known23' /\ Known23 \subseteq K1
    BY <1>2, StillKnown
  <2>3. Leads(w, todo, K1, {})
    BY <2>1, <2>2, LeadsFrom DEF Sound, Outlined
  <2> QED
    BY <1>1, <2>1, <2>2, <2>3 DEF Outlined
<1> QED
  BY <1>1, <1>2, <1>3, DeviceStays, HostSound

-----------------------------------------------------------------------------
(* What is sent.                                                           *)

\* What a known fact says of files, while all failures are heard.
LEMMA KnownSigned ==
  ASSUME Heard
  PROVE  /\ \A h : <<"signed", h>> \in Known23 => Signed(Contents(F(ResultOf(Way, h))))
         /\ <<"kept", "mb1_bct">> \in Known23 => kept["mb1_bct"] = ResultOf(Way, "mb1_bct")
         /\ <<"kept", "membct_rcm">> \in Known23 => kept["membct_rcm"] = ResultOf(Way, "mem_rcm")
         /\ <<"kept", "bct">> \in Known23 => kept["bct"] = BrBct
         /\ <<"list", "signed">> \in Known23 => Signed(Contents(S("mb1"))) /\ Signed(Contents(S("psc")))
         /\ <<"br", "good">> \in Known23 => BrBct \in DOMAIN disk /\ Good(BrBct)
<1>1. ASSUME NEW h, <<"signed", h>> \in Known23 PROVE Signed(Contents(F(ResultOf(Way, h))))
  <2>1. IsSigned(ResultOf(Way, h))
    BY <1>1 DEF Known23, Holds
  <2> QED
    BY <2>1, NameIs DEF IsSigned, Contents, Exists
<1>2. \A k : <<"kept", k>> \in Known23 => KeptIs(k)
  BY DEF Known23, Holds
<1>3. <<"kept", "mb1_bct">> \in Known23 => kept["mb1_bct"] = ResultOf(Way, "mb1_bct")
  BY <1>2 DEF KeptIs, Expected
<1>4. <<"kept", "membct_rcm">> \in Known23 => kept["membct_rcm"] = ResultOf(Way, "mem_rcm")
  BY <1>2 DEF KeptIs, Expected
<1>5. <<"kept", "bct">> \in Known23 => kept["bct"] = BrBct
  BY <1>2 DEF KeptIs, Expected
<1>6. ASSUME <<"list", "signed">> \in Known23 PROVE Signed(Contents(S("mb1"))) /\ Signed(Contents(S("psc")))
  <2>1. ListIs("signed")
    BY <1>6 DEF Known23, Holds
  <2>2. \A t \in {"mb1", "psc"} : list[t] \in DOMAIN disk /\ Signed(disk[list[t]])
    BY <2>1 DEF ListIs
  <2> QED
    BY <2>2, NameIs DEF Contents, Exists
<1>7. ASSUME <<"br", "good">> \in Known23 PROVE BrBct \in DOMAIN disk /\ Good(BrBct)
  <2>1. BrIs("good")
    BY <1>7 DEF Known23, Holds
  <2>2. Good(BrBct)
    BY <2>1 DEF BrIs
  <2> QED
    BY <2>2 DEF Good, IsSigned
<1> QED
  BY <1>1, <1>3, <1>4, <1>5, <1>6, <1>7

LEMMA SentSigned ==
  ASSUME Sound
  PROVE  SentIsSigned
<1>1. SUFFICES ASSUME Heard, Step("send") PROVE Acceptable(Arg(1), Arg(2))
  BY DEF SentIsSigned
<1>2. /\ Head(todo) \in {SendRom, SendMb2(Way), SendApplet(Way)} /\ Need(Way, Head(todo)) \subseteq Known23
      /\ Arg(1) = Head(todo)[2] /\ Arg(2) = Head(todo)[3]
  BY <1>1, StepIs, LegalTable
<1>3. \A k, f : kept[k] = f => Contents(K(k)) = Contents(F(f))
  BY NameIs DEF Contents
<1>4. CASE Head(todo) = SendRom
  <2>1. NeedRom \subseteq Known23
    BY <1>2, <1>4, SendsDiffer
  <2>2. Signed(Contents(S("mb1"))) /\ Signed(Contents(S("psc")))
    BY <1>1, <2>1, KnownSigned DEF NeedRom
  <2>3. kept["bct"] = BrBct /\ BrBct \in DOMAIN disk /\ Good(BrBct)
    BY <1>1, <2>1, KnownSigned DEF NeedRom, KeepBct
  <2>4. Contents(K("bct")) = disk[BrBct]
    BY <2>3, NameIs DEF Contents, Exists
  <2>5. BootromAccepts(Contents(K("bct")), Contents(S("mb1")))
    BY <2>3, <2>4 DEF Good, IsSigned, NamesMb1, BootromAccepts
  <2>6. Signed(Contents(K("mb1_bct")))
    <3>1. <<"kept", "mb1_bct">> \in Known23 /\ <<"signed", "mb1_bct">> \in Known23
      BY <2>1 DEF NeedRom, Mb1Bct
    <3> QED
      BY <1>1, <1>3, <3>1, KnownSigned
  <2>7. Arg(1) = "bootrom" /\ Arg(2) = <<K("bct"), S("mb1"), S("psc"), K("mb1_bct")>>
    BY <1>2, <1>4 DEF SendRom
  <2>8. Signed(Contents(K("bct")))
    BY <2>5 DEF BootromAccepts
  <2>9. PICK a, b, c, d : a = K("bct") /\ b = S("mb1") /\ c = S("psc") /\ d = K("mb1_bct")
    OBVIOUS
  <2>10. PICK fs : fs = <<a, b, c, d>>
    OBVIOUS
  <2>11. DOMAIN fs = 1..4 /\ fs[1] = a /\ fs[2] = b /\ fs[3] = c /\ fs[4] = d
    BY <2>10
  <2>12. \A i \in DOMAIN fs : Signed(Contents(fs[i]))
    BY <2>2, <2>6, <2>8, <2>9, <2>11
  <2>13. Acceptable("bootrom", fs)
    BY <2>5, <2>9, <2>11, <2>12 DEF Acceptable
  <2> QED
    BY <2>7, <2>9, <2>10, <2>13
<1>5. CASE Head(todo) = SendMb2(Way)
  <2>1. MemBct \cup ({"signed"} \X InBlob23) \subseteq Known23
    BY <1>2, <1>5, SendsDiffer
  <2>2. Signed(Contents(K("membct_rcm")))
    <3>1. <<"kept", "membct_rcm">> \in Known23 /\ <<"signed", "mem_rcm">> \in Known23
      BY <2>1 DEF MemBct
    <3> QED
      BY <1>1, <1>3, <3>1, KnownSigned
  <2>3. \A h \in InBlob23 : Signed(Contents(F(ResultOf(Way, h))))
    <3>1. \A h \in InBlob23 : <<"signed", h>> \in Known23
      BY <2>1
    <3> QED
      BY <1>1, <3>1, KnownSigned
  <2>4. PICK a, b, c, d, e : /\ a = K("membct_rcm") /\ b = F(ResultOf(Way, "bl")) /\ c = F(ResultOf(Way, "mb2"))
                             /\ d = F(ResultOf(Way, "dce")) /\ e = F(ResultOf(Way, "bpmp_dtb"))
    OBVIOUS
  <2>5. Arg(1) = "mb1" /\ Arg(2) = <<a, b, c, d, e>>
    BY <1>2, <1>5, <2>4 DEF SendMb2
  <2>6. Signed(Contents(a)) /\ Signed(Contents(b)) /\ Signed(Contents(c)) /\ Signed(Contents(d)) /\ Signed(Contents(e))
    BY <2>2, <2>3, <2>4 DEF InBlob23
  <2>7. PICK fs : fs = <<a, b, c, d, e>>
    OBVIOUS
  <2>8. DOMAIN fs = 1..5 /\ fs[1] = a /\ fs[2] = b /\ fs[3] = c /\ fs[4] = d /\ fs[5] = e
    BY <2>7
  <2>9. \A i \in DOMAIN fs : Signed(Contents(fs[i]))
    BY <2>6, <2>8
  <2>10. Acceptable("mb1", fs)
    BY <2>9 DEF Acceptable
  <2> QED
    BY <2>5, <2>7, <2>10
<1>6. CASE Head(todo) = SendApplet(Way)
  <2>1. <<"signed", "applet">> \in Known23
    BY <1>2, <1>6, SendsDiffer
  <2>2. PICK a : a = F(ResultOf(Way, "applet"))
    OBVIOUS
  <2>3. Signed(Contents(a))
    BY <1>1, <2>1, <2>2, KnownSigned
  <2>4. Arg(1) = "mb1" /\ Arg(2) = <<a>>
    BY <1>2, <1>6, <2>2 DEF SendApplet
  <2>5. \A i \in DOMAIN <<a>> : Signed(Contents(<<a>>[i]))
    BY <2>3
  <2>6. Acceptable("mb1", <<a>>)
    BY <2>5 DEF Acceptable
  <2> QED
    BY <2>4, <2>6
<1> QED
  BY <1>2, <1>4, <1>5, <1>6

-----------------------------------------------------------------------------
(* The theorems.                                                           *)

\* The state of a session is sound before and after every step: the files
\* have names and contents that agree with the options, everything known of
\* them is so, and the rest of the session has an outline that starts from
\* what is known.  Of the steps of every command of tegraflash_internal.py, for
\* an unsecured T234.
THEOREM TegraflashInvariant == Spec => []IInv
<1>1. Init => IInv
  BY InitSound DEF IInv, Covered
<1>2. IInv /\ [Next]_vars => IInv'
  <2>1. ASSUME IInv, Next PROVE IInv'
    <3>1. opt' = opt
      BY <2>1, OptionsStay
    <3>2. ASSUME Covered' PROVE Sound'
      <4>1. opt.chip = "0x23" /\ ~opt.secure
        BY <3>1, <3>2 DEF Covered
      <4>2. Sound
        BY <2>1, <4>1 DEF IInv, Covered
      <4> QED
        BY <2>1, <4>1, <4>2, NextSound
    <3> QED
      BY <3>2 DEF IInv
  <2>2. ASSUME IInv, UNCHANGED vars PROVE IInv'
    <3>1. opt' = opt
      BY <2>2 DEF vars, run
    <3>2. ASSUME Covered' PROVE Sound'
      <4>1. Covered
        BY <3>1, <3>2 DEF Covered
      <4>2. Sound
        BY <2>2, <4>1 DEF IInv
      <4> QED
        BY <2>2, <4>2, StutterSound
    <3> QED
      BY <3>2 DEF IInv
  <2> QED
    BY <2>1, <2>2
<1> QED
  BY <1>1, <1>2, PTL DEF Spec

\* Whatever the sequence of commands in tegraflash.py's --cmd, and whether or
\* not the device answers, the program's tables keep their entries, the device is
\* in a stage it has, and no image of flash.sh's disappears from the directory.
THEOREM TegraflashTypes == Spec => [](Covered => TypeOK)
<1>1. IInv => (Covered => TypeOK)
  BY DEF IInv, Sound
<1> QED
  BY <1>1, TegraflashInvariant, PTL

\* An unsecured T234 is sent nothing that its boot ROM or MB1 would refuse: each
\* file has a signature over what it holds at that moment, and the BR-BCT has the
\* hash of the MB1 sent with it and a SHA over its own signature, whatever was run
\* before in whatever order, and whatever failed and was heard (send_to_bootrom(),
\* send_to_bootloader(), boot_mb2_applet()).
THEOREM OnlySignedIsSent == Spec => [](Covered => SentIsSigned)
<1>1. IInv => (Covered => SentIsSigned)
  BY SentSigned DEF IInv, Sound
<1> QED
  BY <1>1, TegraflashInvariant, PTL
=============================================================================
