--------------------------- MODULE BpmpTrimProofs ---------------------------
(***************************************************************************)
(* Proofs about BpmpTrim: a tree whose tables are what the functions take  *)
(* for granted comes out of the cutting of lines with exactly the table of *)
(* the RAM strap, whatever its nodes, and any other tree comes out as it   *)
(* was or as one that dtc refuses.                                         *)
(***************************************************************************)
EXTENDS BpmpTrim, RecursionLemmas

-----------------------------------------------------------------------------
(* Picked(t, K), line by line.                                             *)

Pieces(t, K) == [i \in DOMAIN t |-> IF i \in K THEN <<t[i]>> ELSE <<>>]
\* What is picked of the first p lines.
PickedTo(t, K, p) == Picked(SubSeq(t, 1, p), K)
PickedRound(t, K, p) ==
    PickedTo(t, K, p) = IF p \in K THEN Append(PickedTo(t, K, p - 1), t[p]) ELSE PickedTo(t, K, p - 1)

LEMMA PiecesType ==
  ASSUME NEW X, NEW t \in Seq(X), NEW K
  PROVE  Pieces(t, K) \in Seq(Seq(X)) /\ Len(Pieces(t, K)) = Len(t)
<1>1. Len(t) \in Nat /\ DOMAIN t = 1..Len(t)
  OBVIOUS
<1>2. ASSUME NEW i \in 1..Len(t) PROVE (IF i \in K THEN <<t[i]>> ELSE <<>>) \in Seq(X)
  <2>1. t[i] \in X
    OBVIOUS
  <2> QED
    BY <2>1
<1> QED
  BY <1>1, <1>2 DEF Pieces

\* A line of the tree is picked after those before it.
LEMMA PickedRounds ==
  ASSUME NEW X, NEW t \in Seq(X), NEW K
  PROVE  /\ PickedTo(t, K, 0) = <<>>
         /\ PickedTo(t, K, Len(t)) = Picked(t, K)
         /\ \A p \in 0..Len(t) : PickedTo(t, K, p) \in Seq(X)
         /\ \A p \in 1..Len(t) : PickedRound(t, K, p)
<1> DEFINE s == Pieces(t, K)
           n == Len(t)
<1>1. n \in Nat /\ DOMAIN t = 1..n /\ s \in Seq(Seq(X)) /\ Len(s) = n
  BY PiecesType
<1>2. ASSUME NEW p \in 0..n PROVE PickedTo(t, K, p) = FlattenSeq(SubSeq(s, 1, p))
  <2>1. Pieces(SubSeq(t, 1, p), K) = SubSeq(s, 1, p)
    <3>1. SubSeq(t, 1, p) \in Seq(X) /\ Len(SubSeq(t, 1, p)) = p /\ \A i \in 1..p : SubSeq(t, 1, p)[i] = t[i]
      OBVIOUS
    <3> DEFINE a == Pieces(SubSeq(t, 1, p), K)
               b == SubSeq(s, 1, p)
    <3>2. a \in Seq(Seq(X)) /\ Len(a) = p
      BY <3>1, PiecesType
    <3>3. b \in Seq(Seq(X)) /\ Len(b) = p /\ \A i \in 1..p : b[i] = s[i]
      <4> HIDE DEF s
      <4> QED
        BY <1>1
    <3>4. ASSUME NEW i \in 1..p PROVE a[i] = b[i]
      <4>1. i \in 1..n /\ i \in DOMAIN SubSeq(t, 1, p)
        BY <1>1, <3>1
      <4>2. a[i] = IF i \in K THEN <<t[i]>> ELSE <<>>
        BY <3>1, <4>1 DEF Pieces
      <4>3. s[i] = IF i \in K THEN <<t[i]>> ELSE <<>>
        BY <1>1, <4>1 DEF Pieces
      <4> QED
        BY <4>2, <4>3, <3>3
    <3> HIDE DEF a, b
    <3>5. a = b
      BY <3>2, <3>3, <3>4, SeqEqual
    <3> QED
      BY <3>5 DEF a, b
  <2> QED
    BY <2>1 DEF PickedTo, Picked, Pieces
<1>3. ASSUME NEW p \in 1..n PROVE s[p] = IF p \in K THEN <<t[p]>> ELSE <<>>
  BY <1>1 DEF Pieces
<1> HIDE DEF s
<1>4. /\ FlattenSeq(SubSeq(s, 1, 0)) = <<>>
      /\ \A m \in 0..n : FlattenSeq(SubSeq(s, 1, m)) \in Seq(X)
      /\ \A m \in 1..n : FlattenSeq(SubSeq(s, 1, m)) = FlattenSeq(SubSeq(s, 1, m - 1)) \o s[m]
  BY <1>1, FlattenPrefix
<1>5. ASSUME NEW p \in 1..n
      PROVE  PickedTo(t, K, p) = IF p \in K THEN Append(PickedTo(t, K, p - 1), t[p]) ELSE PickedTo(t, K, p - 1)
  <2>1. p \in 0..n /\ p - 1 \in 0..n
    BY <1>1
  <2>2. PickedTo(t, K, p) = PickedTo(t, K, p - 1) \o s[p] /\ PickedTo(t, K, p - 1) \in Seq(X)
    BY <1>2, <1>4, <2>1
  <2>3. CASE p \in K
    <3> DEFINE a == PickedTo(t, K, p - 1)
    <3>1. a \in Seq(X) /\ s[p] = <<t[p]>> /\ PickedTo(t, K, p) = a \o s[p]
      BY <1>3, <2>2, <2>3
    <3> HIDE DEF a
    <3>2. a \o <<t[p]>> = Append(a, t[p])
      BY <3>1, t[p] \in X
    <3> QED
      BY <2>3, <3>1, <3>2 DEF a
  <2>4. CASE p \notin K
    <3> DEFINE a == PickedTo(t, K, p - 1)
    <3>1. a \in Seq(X) /\ s[p] = <<>> /\ PickedTo(t, K, p) = a \o s[p]
      BY <1>3, <2>2, <2>4
    <3> HIDE DEF a
    <3>2. a \o <<>> = a
      BY <3>1, ConcatEmptySeq
    <3> QED
      BY <2>4, <3>1, <3>2 DEF a
  <2> QED
    BY <2>3, <2>4
<1>6. PickedTo(t, K, 0) = <<>> /\ \A p \in 0..n : PickedTo(t, K, p) \in Seq(X)
  BY <1>1, <1>2, <1>4
<1>7. PickedTo(t, K, n) = Picked(t, K)
  BY SubSeqFull DEF PickedTo
<1> QED
  BY <1>5, <1>6, <1>7 DEF PickedRound

LEMMA PickedType ==
  ASSUME NEW X, NEW t \in Seq(X), NEW K
  PROVE  Picked(t, K) \in Seq(X)
BY PickedRounds, Len(t) \in 0..Len(t)

\* Only places that the sequence has matter.
LEMMA PickedSame ==
  ASSUME NEW t, NEW K, NEW L, \A i \in DOMAIN t : i \in K <=> i \in L
  PROVE  Picked(t, K) = Picked(t, L)
<1>1. Pieces(t, K) = Pieces(t, L)
  BY DEF Pieces
<1> QED
  BY <1>1 DEF Picked, Pieces

\* A loop that appends the lines of K makes Picked(t, K).
LEMMA PickedIsLast ==
  ASSUME NEW X, NEW t \in Seq(X), NEW K, NEW f,
         f[0] = <<>>,
         \A p \in 1..Len(t) : f[p] = IF p \in K THEN Append(f[p-1], t[p]) ELSE f[p-1]
  PROVE  \A p \in 0..Len(t) : f[p] = PickedTo(t, K, p)
<1> DEFINE S == {p \in 0..Len(t) : f[p] = PickedTo(t, K, p)}
<1>1. Len(t) \in Nat /\ 0 \in S
  BY PickedRounds
<1>2. ASSUME NEW p \in 0 .. Len(t) - 1, p \in S PROVE p + 1 \in S
  <2>1. p + 1 \in 1..Len(t) /\ p + 1 \in 0..Len(t) /\ (p + 1) - 1 = p
    BY <1>1
  <2>2. f[p + 1] = IF p + 1 \in K THEN Append(f[(p + 1) - 1], t[p + 1]) ELSE f[(p + 1) - 1]
    BY <2>1
  <2>3. PickedTo(t, K, p + 1) = IF p + 1 \in K THEN Append(PickedTo(t, K, (p + 1) - 1), t[p + 1])
                                               ELSE PickedTo(t, K, (p + 1) - 1)
    <3>1. PickedRound(t, K, p + 1)
      BY <2>1, PickedRounds
    <3> QED
      BY <3>1 DEF PickedRound
  <2>4. f[p] = PickedTo(t, K, p)
    BY <1>2
  <2> QED
    BY <2>1, <2>2, <2>3, <2>4
<1> HIDE DEF S
<1>3. \A p \in 0..Len(t) : p \in S
  BY <1>1, <1>2, UpToInduction
<1> QED
  BY <1>3 DEF S

\* The text without its blank lines, line by line.
LEMMA NoBlanksAppend ==
  ASSUME NEW u \in Seq(Lines), NEW x \in Lines
  PROVE  NoBlanks(Append(u, x)) = IF x.kind = "blank" THEN NoBlanks(u) ELSE Append(NoBlanks(u), x)
<1> DEFINE s == Append(u, x)
           n == Len(s)
           K == {i \in DOMAIN s : s[i].kind # "blank"}
           L == {i \in DOMAIN u : u[i].kind # "blank"}
<1>1. s \in Seq(Lines) /\ n = Len(u) + 1 /\ Len(u) \in Nat /\ s[n] = x /\ SubSeq(s, 1, n - 1) = u /\ n \in 1..n
  <2>1. s \in Seq(Lines) /\ n = Len(u) + 1 /\ Len(u) \in Nat /\ s[n] = x /\ n \in 1..n
    OBVIOUS
  <2>2. SubSeq(s, 1, n - 1) \in Seq(Lines) /\ Len(SubSeq(s, 1, n - 1)) = Len(u)
    BY <2>1
  <2>3. \A i \in 1..Len(u) : SubSeq(s, 1, n - 1)[i] = u[i]
    BY <2>1
  <2> HIDE DEF s, n
  <2> QED
    BY <2>1, <2>2, <2>3, SeqEqual
<1>2. \A i \in DOMAIN u : i \in K <=> i \in L
  <2>1. ASSUME NEW i \in DOMAIN u PROVE i \in DOMAIN s /\ s[i] = u[i]
    OBVIOUS
  <2> QED
    BY <2>1
<1>3. n \in K <=> x.kind # "blank"
  BY <1>1
<1>4. NoBlanks(s) = Picked(s, K) /\ NoBlanks(u) = Picked(u, L)
  BY DEF NoBlanks
<1> HIDE DEF s, n, K, L
<1>5. Picked(u, K) = Picked(u, L)
  BY <1>2, PickedSame
<1>6. Picked(s, K) = IF n \in K THEN Append(Picked(u, K), x) ELSE Picked(u, K)
  <2>1. PickedTo(s, K, n) = Picked(s, K) /\ PickedTo(s, K, n - 1) = Picked(u, K)
    BY <1>1, PickedRounds DEF PickedTo, n
  <2>2. PickedTo(s, K, n) = IF n \in K THEN Append(PickedTo(s, K, n - 1), s[n]) ELSE PickedTo(s, K, n - 1)
    <3>1. PickedRound(s, K, n)
      BY <1>1, PickedRounds DEF n
    <3> QED
      BY <3>1 DEF PickedRound
  <2> QED
    BY <1>1, <2>1, <2>2
<1> QED
  BY <1>3, <1>4, <1>5, <1>6 DEF s

LEMMA NoBlanksType ==
  ASSUME NEW t \in Seq(Lines)
  PROVE  NoBlanks(t) \in Seq(Lines)
BY PickedType DEF NoBlanks

LEMMA NoBlanksHasNone ==
  ASSUME NEW t \in Seq(Lines)
  PROVE  \A i \in DOMAIN NoBlanks(t) : NoBlanks(t)[i].kind # "blank"
<1> DEFINE K == {i \in DOMAIN t : t[i].kind # "blank"}
           s == Pieces(t, K)
           Full == {l \in Lines : l.kind # "blank"}
<1>1. DOMAIN t = 1..Len(t) /\ Len(t) \in Nat
  OBVIOUS
<1>2. \A i \in 1..Len(t) : (IF i \in K THEN <<t[i]>> ELSE <<>>) \in Seq(Full)
  <2>1. ASSUME NEW i \in 1..Len(t), i \in K PROVE <<t[i]>> \in Seq(Full)
    <3>1. t[i] \in Full
      BY <2>1
    <3> HIDE DEF Full
    <3> QED
      BY <3>1
  <2>2. <<>> \in Seq(Full)
    OBVIOUS
  <2> HIDE DEF K, Full
  <2> QED
    BY <2>1, <2>2
<1>3. s \in Seq(Seq(Full))
  <2> HIDE DEF K, Full
  <2> QED
    BY <1>1, <1>2 DEF Pieces
<1>4. NoBlanks(t) = FlattenSeq(s)
  BY DEF NoBlanks, Picked, Pieces
<1> HIDE DEF s, Full
<1>5. NoBlanks(t) \in Seq(Full)
  BY <1>3, <1>4, FlattenType
<1> QED
  BY <1>5 DEF Full

-----------------------------------------------------------------------------
(* Depth(t, i), line by line.                                              *)

DepthRound(t, i) == Depth(t, i) = Depth(t, i - 1) + Change(t[i])

LEMMA ChangeType ==
  \A l : Change(l) \in {-1, 0, 1} /\ (Change(l) = -1 => l.kind = "close") /\ (Change(l) = 1 <=> l.kind \in Opens)
BY DEF Change, Opens

LEMMA DepthRounds ==
  ASSUME NEW t \in Seq(Lines)
  PROVE  /\ Depth(t, 0) = 0
         /\ \A i \in 0..Len(t) : Depth(t, i) \in Int
         /\ \A i \in 1..Len(t) : DepthRound(t, i)
<1> DEFINE n == Len(t)
           step == [i \in 1..n |-> [m \in Int |-> m + Change(t[i])]]
           Rounds(g) == [k \in 0..n |-> IF k = 0 THEN 0 ELSE g[k-1] + Change(t[k])]
           h == CHOOSE g : g = Rounds(g)
<1>1. n \in Nat
  OBVIOUS
<1>2. Loops(n, Int, 0, step) # {}
  <2>1. step \in [1..n -> [Int -> Int]]
    <3>1. ASSUME NEW i \in 1..n, NEW m \in Int PROVE m + Change(t[i]) \in Int
      <4>1. Change(t[i]) \in Int
        BY ChangeType
      <4> QED
        BY <4>1
    <3> QED
      BY <3>1
  <2> HIDE DEF n, step
  <2> QED
    BY <1>1, <2>1, 0 \in Int, LoopDefined
<1>3. PICK f \in [0..n -> Int] : f[0] = 0 /\ \A i \in 1..n : f[i] = step[i][f[i-1]]
  <2> HIDE DEF n, step
  <2> QED
    BY <1>2 DEF Loops
<1>4. ASSUME NEW i \in 1..n PROVE f[i] = f[i-1] + Change(t[i])
  <2>1. f[i-1] \in Int
    BY <1>1, i - 1 \in 0..n
  <2> QED
    BY <1>3, <2>1
<1>5. f = Rounds(f)
  <2>1. ASSUME NEW k \in 0..n PROVE f[k] = IF k = 0 THEN 0 ELSE f[k-1] + Change(t[k])
    <3>1. CASE k = 0
      BY <1>3, <3>1
    <3>2. CASE k # 0
      BY <1>1, <1>4, <3>2, k \in 1..n
    <3> QED
      BY <3>1, <3>2
  <2> QED
    BY <2>1
<1> HIDE DEF Rounds
<1>6. h = Rounds(h)
  BY <1>5
<1>7. \A i : Depth(t, i) = h[i]
  BY DEF Depth, Rounds
<1> HIDE DEF h
<1>8. h[0] = 0 /\ \A i \in 1..n : h[i] = h[i-1] + Change(t[i])
  <2>1. \A k \in 0..n : h[k] = IF k = 0 THEN 0 ELSE h[k-1] + Change(t[k])
    BY <1>6 DEF Rounds
  <2> QED
    BY <1>1, <2>1, 0 \in 0..n, \A i \in 1..n : i \in 0..n /\ i # 0
<1> DEFINE S == {i \in 0..n : h[i] \in Int}
<1>9. 0 \in S
  BY <1>1, <1>8
<1>10. ASSUME NEW i \in 0 .. n - 1, i \in S PROVE i + 1 \in S
  <2>1. i + 1 \in 1..n /\ i + 1 \in 0..n /\ (i + 1) - 1 = i
    BY <1>1
  <2>2. h[i + 1] = h[i] + Change(t[i + 1])
    BY <1>8, <2>1
  <2>3. Change(t[i + 1]) \in Int /\ h[i] \in Int
    BY <1>10, ChangeType
  <2> QED
    BY <2>1, <2>2, <2>3
<1> HIDE DEF S
<1>11. \A i \in 0..n : i \in S
  BY <1>1, <1>9, <1>10, UpToInduction
<1> QED
  BY <1>7, <1>8, <1>11 DEF S, DepthRound

\* Only the lines so far matter.
LEMMA DepthPrefix ==
  ASSUME NEW s \in Seq(Lines), NEW u \in Seq(Lines), NEW k \in Nat, k <= Len(s), k <= Len(u),
         \A i \in 1..k : s[i] = u[i]
  PROVE  \A i \in 0..k : Depth(s, i) = Depth(u, i)
<1> DEFINE S == {i \in 0..k : Depth(s, i) = Depth(u, i)}
<1>1. Len(s) \in Nat /\ Len(u) \in Nat
  OBVIOUS
<1>2. 0 \in S
  BY DepthRounds
<1>3. ASSUME NEW i \in 0 .. k - 1, i \in S PROVE i + 1 \in S
  <2>1. i + 1 \in 1..k /\ i + 1 \in 0..k /\ (i + 1) - 1 = i /\ i + 1 \in 1..Len(s) /\ i + 1 \in 1..Len(u)
    BY <1>1
  <2>2. DepthRound(s, i + 1) /\ DepthRound(u, i + 1)
    BY <2>1, DepthRounds
  <2> QED
    BY <1>3, <2>1, <2>2 DEF DepthRound
<1> HIDE DEF S
<1>4. \A i \in 0..k : i \in S
  BY <1>2, <1>3, UpToInduction
<1> QED
  BY <1>4 DEF S

\* The depth at the end of a text.
Net(u) == Depth(u, Len(u))

LEMMA NetAppend ==
  ASSUME NEW u \in Seq(Lines), NEW x \in Lines
  PROVE  Net(u) \in Int /\ Net(Append(u, x)) = Net(u) + Change(x)
<1> DEFINE s == Append(u, x)
           n == Len(u)
<1>1. s \in Seq(Lines) /\ n \in Nat /\ Len(s) = n + 1 /\ s[n + 1] = x /\ \A i \in 1..n : s[i] = u[i]
  OBVIOUS
<1> HIDE DEF s, n
<1>2. Depth(s, n) = Depth(u, n)
  BY <1>1, DepthPrefix DEF n
<1>3. DepthRound(s, n + 1)
  BY <1>1, DepthRounds
<1>4. Depth(s, n + 1) = Depth(s, n) + Change(x)
  BY <1>1, <1>3, (n + 1) - 1 = n DEF DepthRound
<1>5. Depth(u, n) \in Int
  BY <1>1, DepthRounds DEF n
<1> QED
  BY <1>1, <1>2, <1>4, <1>5 DEF Net, s, n

LEMMA NetNothing == Net(<<>>) = 0
<1>1. <<>> \in Seq(Lines) /\ Len(<<>>) = 0
  OBVIOUS
<1> QED
  BY <1>1, DepthRounds DEF Net

-----------------------------------------------------------------------------
(* Where the lines of a tree stand in its text.                            *)

Width(d, n) == IF n > 1 /\ d[n].kind \in Opens THEN 2 ELSE 1
\* Line n of the tree d is line pos[n] of the text t, after a blank line if it
\* begins a node.
PlacedAt(d, t, pos, n) ==
    /\ pos[n] = pos[n - 1] + Width(d, n)
    /\ t[pos[n]] = d[n]
    /\ Width(d, n) = 2 => t[pos[n] - 1] = Blank
Placed(d, t, pos) ==
    /\ pos \in [0..Len(d) -> Nat] /\ pos[0] = 0 /\ pos[Len(d)] = Len(t)
    /\ \A n \in 1..Len(d) : PlacedAt(d, t, pos, n)

LEMMA BlankLine == Blank \in Lines /\ Blank.kind = "blank" /\ Change(Blank) = 0
<1>1. Blank \in Lines
  BY <<>> \in Seq(Texts) DEF Blank, Line, Lines
<1> QED
  BY <1>1 DEF Blank, Line, Change, Opens

LEMMA DecompiledPlaced ==
  ASSUME NEW d \in Seq(Lines)
  PROVE  Decompiled(d) \in Seq(Lines) /\ \E pos : Placed(d, Decompiled(d), pos)
<1> DEFINE s == [i \in DOMAIN d |-> IF i > 1 /\ d[i].kind \in Opens THEN <<Blank, d[i]>> ELSE <<d[i]>>]
           n == Len(d)
           F(m) == FlattenSeq(SubSeq(s, 1, m))
           pos == [m \in 0..n |-> Len(F(m))]
           t == FlattenSeq(s)
<1>1. n \in Nat /\ DOMAIN d = 1..n
  OBVIOUS
<1>2. ASSUME NEW m \in 1..n
      PROVE  /\ s[m] \in Seq(Lines) /\ Len(s[m]) = Width(d, m) /\ s[m][Width(d, m)] = d[m]
             /\ Width(d, m) = 2 => s[m][1] = Blank
             /\ Width(d, m) \in {1, 2}
  <2>1. d[m] \in Lines /\ Blank \in Lines
    BY BlankLine
  <2>2. CASE m > 1 /\ d[m].kind \in Opens
    <3>1. s[m] = <<Blank, d[m]>> /\ Width(d, m) = 2
      BY <1>1, <2>2 DEF Width
    <3>2. s[m] \in Seq(Lines)
      <4> HIDE DEF s
      <4> QED
        BY <2>1, <3>1
    <3>3. Len(s[m]) = 2 /\ s[m][1] = Blank /\ s[m][2] = d[m]
      <4> HIDE DEF s
      <4> QED
        BY <3>1
    <3> HIDE DEF s
    <3> QED
      BY <3>1, <3>2, <3>3
  <2>3. CASE ~(m > 1 /\ d[m].kind \in Opens)
    <3>1. s[m] = <<d[m]>> /\ Width(d, m) = 1
      BY <1>1, <2>3 DEF Width
    <3> HIDE DEF s
    <3>2. s[m] \in Seq(Lines) /\ Len(s[m]) = 1 /\ s[m][1] = d[m]
      BY <2>1, <3>1
    <3> QED
      BY <3>1, <3>2
  <2> QED
    BY <2>2, <2>3
<1>3. s \in Seq(Seq(Lines)) /\ Len(s) = n
  <2>1. s \in [1..n -> Seq(Lines)]
    BY <1>1, <1>2
  <2> HIDE DEF s
  <2>2. s \in Seq(Seq(Lines))
    BY <1>1, <2>1
  <2> QED
    BY <1>1, <2>1, <2>2
<1>4. Decompiled(d) = t
  BY DEF Decompiled
<1> HIDE DEF s
<1>5. /\ F(0) = <<>> /\ F(n) = t
      /\ \A m \in 0..n : F(m) \in Seq(Lines)
      /\ \A m \in 1..n : F(m) = F(m - 1) \o s[m]
  BY <1>3, FlattenPrefix
<1>6. ASSUME NEW m \in 1..n PROVE PlacedAt(d, t, pos, m)
  <2>1. m \in 0..n /\ m - 1 \in 0..n
    BY <1>1
  <2>2. F(m) = F(m - 1) \o s[m] /\ F(m - 1) \in Seq(Lines) /\ s[m] \in Seq(Lines) /\ F(m) \in Seq(Lines)
    BY <1>2, <1>5, <2>1
  <2>3. pos[m] = Len(F(m)) /\ pos[m - 1] = Len(F(m - 1))
    BY <2>1
  <2>4. Len(F(m)) = Len(F(m - 1)) + Len(s[m]) /\ Len(F(m - 1)) \in Nat
    <3> HIDE DEF F
    <3> QED
      BY <2>2, ConcatProperties
  <2>5. Width(d, m) \in 1..Len(s[m])
    BY <1>2
  <2>6. \A k \in 1..Len(s[m]) : t[Len(F(m - 1)) + k] = s[m][k]
    BY <1>3, FlattenAt
  <2> HIDE DEF t, F, pos
  <2>7. t[pos[m]] = d[m]
    <3>1. pos[m] = Len(F(m - 1)) + Width(d, m)
      BY <1>2, <2>3, <2>4
    <3>2. t[Len(F(m - 1)) + Width(d, m)] = s[m][Width(d, m)]
      BY <2>5, <2>6
    <3> QED
      BY <1>2, <3>1, <3>2
  <2>8. ASSUME Width(d, m) = 2 PROVE t[pos[m] - 1] = Blank
    <3>1. 1 \in 1..Len(s[m]) /\ pos[m] - 1 = Len(F(m - 1)) + 1
      <4>1. Len(s[m]) = 2 /\ pos[m] = Len(F(m - 1)) + 2 /\ Len(F(m - 1)) \in Nat
        BY <1>2, <2>3, <2>4, <2>8
      <4> QED
        BY <4>1
    <3>2. t[Len(F(m - 1)) + 1] = s[m][1]
      BY <2>6, <3>1
    <3> QED
      BY <1>2, <2>8, <3>1, <3>2
  <2> QED
    BY <1>2, <2>3, <2>4, <2>7, <2>8 DEF PlacedAt
<1>7. pos \in [0..n -> Nat] /\ pos[0] = 0 /\ pos[n] = Len(t)
  <2>1. ASSUME NEW m \in 0..n PROVE Len(F(m)) \in Nat
    <3>1. F(m) \in Seq(Lines)
      BY <1>5
    <3> QED
      BY <3>1
  <2> QED
    BY <1>1, <1>5, <2>1
<1>8. t \in Seq(Lines)
  BY <1>1, <1>5
<1> HIDE DEF pos, t
<1>9. Placed(d, t, pos)
  BY <1>6, <1>7 DEF Placed
<1> QED
  BY <1>4, <1>8, <1>9

LEMMA PlacedNext ==
  ASSUME NEW d \in Seq(Lines), NEW t, NEW pos, Placed(d, t, pos), NEW n \in 1..Len(d)
  PROVE  /\ pos[n] \in Nat /\ pos[n - 1] \in Nat /\ Width(d, n) \in {1, 2}
         /\ pos[n] = pos[n - 1] + Width(d, n)
         /\ t[pos[n]] = d[n]
         /\ Width(d, n) = 2 => t[pos[n] - 1] = Blank
<1>1. n \in 0..Len(d) /\ n - 1 \in 0..Len(d)
  OBVIOUS
<1> QED
  BY <1>1 DEF Placed, PlacedAt, Width

\* Their order is that of the tree.
LEMMA PlacedOrder ==
  ASSUME NEW d \in Seq(Lines), NEW t, NEW pos, Placed(d, t, pos)
  PROVE  /\ \A m, n \in 0..Len(d) : m < n => pos[m] + Width(d, n) <= pos[n]
         /\ \A m, n \in 0..Len(d) : m <= n <=> pos[m] <= pos[n]
         /\ \A m \in 1..Len(d) : pos[m] \in 1..Len(t)
<1> DEFINE N == Len(d)
<1>1. N \in Nat /\ pos \in [0..N -> Nat] /\ pos[0] = 0 /\ pos[N] = Len(t)
  BY DEF Placed
<1>2. ASSUME NEW n \in 1..N PROVE pos[n] = pos[n - 1] + Width(d, n) /\ Width(d, n) \in {1, 2}
  BY PlacedNext
<1>3. ASSUME NEW m \in 0..N PROVE \A k \in 0 .. N - m : pos[m] + k <= pos[m + k]
  <2> DEFINE S == {k \in 0 .. N - m : pos[m] + k <= pos[m + k]}
  <2>1. N - m \in Nat /\ 0 \in S
    BY <1>1, m + 0 = m, pos[m] \in Nat
  <2>2. ASSUME NEW k \in 0 .. (N - m) - 1, k \in S PROVE k + 1 \in S
    <3>1. m + (k + 1) \in 1..N /\ (m + (k + 1)) - 1 = m + k /\ k + 1 \in 0 .. N - m /\ m + k \in 0..N
      BY <1>1
    <3>2. pos[m + (k + 1)] = pos[m + k] + Width(d, m + (k + 1)) /\ Width(d, m + (k + 1)) \in {1, 2}
      BY <1>2, <3>1
    <3>3. pos[m] + k <= pos[m + k] /\ pos[m] \in Nat /\ pos[m + k] \in Nat
      BY <1>1, <2>2, <3>1
    <3>4. pos[m] + (k + 1) <= pos[m + (k + 1)]
      BY SMTT(30), <3>2, <3>3
    <3> QED
      BY <3>1, <3>4
  <2> HIDE DEF S
  <2>3. \A k \in 0 .. N - m : k \in S
    BY <2>1, <2>2, UpToInduction
  <2> QED
    BY <2>3 DEF S
<1>4. ASSUME NEW m \in 0..N, NEW n \in 0..N, m <= n PROVE pos[m] <= pos[n]
  <2>1. n - m \in 0 .. N - m /\ m + (n - m) = n
    BY <1>1, <1>4
  <2>2. pos[m] + (n - m) <= pos[n]
    BY <1>3, <2>1
  <2> QED
    BY <1>1, <2>1, <2>2
<1>5. ASSUME NEW m \in 0..N, NEW n \in 0..N, m < n PROVE pos[m] + Width(d, n) <= pos[n] /\ pos[m] < pos[n]
  <2>1. n \in 1..N /\ n - 1 \in 0..N /\ m <= n - 1
    BY <1>1, <1>5
  <2>2. pos[m] <= pos[n - 1]
    BY <1>4, <2>1
  <2>3. pos[n] = pos[n - 1] + Width(d, n) /\ Width(d, n) \in {1, 2}
    BY <1>2, <2>1
  <2>4. pos[m] \in Nat /\ pos[n - 1] \in Nat
    BY <1>1, <2>1
  <2> QED
    BY SMTT(30), <2>2, <2>3, <2>4
<1>6. ASSUME NEW m \in 0..N, NEW n \in 0..N PROVE m <= n <=> pos[m] <= pos[n]
  <2>1. m <= n \/ n < m
    BY <1>1
  <2>2. pos[m] \in Nat /\ pos[n] \in Nat
    BY <1>1
  <2> QED
    BY <1>4, <1>5, <2>1, <2>2
<1>7. ASSUME NEW m \in 1..N PROVE pos[m] \in 1..Len(t)
  <2>1. m \in 0..N /\ 0 \in 0..N /\ N \in 0..N /\ 0 < m /\ m <= N
    BY <1>1
  <2>2. pos[0] < pos[m] /\ pos[m] <= pos[N]
    BY <1>4, <1>5, <2>1
  <2> QED
    BY <1>1, <2>1, <2>2
<1> QED
  BY <1>5, <1>6, <1>7

\* Every line of the text is one of the tree, or the blank one before it.
LEMMA PlacedEvery ==
  ASSUME NEW d \in Seq(Lines), NEW t, NEW pos, Placed(d, t, pos), NEW p \in 1..Len(t)
  PROVE  \E n \in 1..Len(d) : p = pos[n] \/ (Width(d, n) = 2 /\ p = pos[n] - 1)
<1> DEFINE N == Len(d)
           S == {n \in 0..N : p <= pos[n]}
<1>1. N \in Nat /\ pos \in [0..N -> Nat] /\ pos[0] = 0 /\ pos[N] = Len(t)
  BY DEF Placed
<1>2. S \subseteq Nat /\ N \in S
  BY <1>1
<1>3. PICK n \in S : \A m \in S : n <= m
  BY <1>2, LeastNat
<1>4. n \in 1..N /\ n - 1 \in 0..N
  BY <1>1, <1>3
<1>5. pos[n - 1] < p
  <2>1. n - 1 \notin S
    BY <1>3, <1>4
  <2> QED
    BY <1>1, <1>4, <2>1
<1>6. p <= pos[n] /\ pos[n] = pos[n - 1] + Width(d, n) /\ Width(d, n) \in {1, 2} /\ pos[n - 1] \in Nat
  BY <1>3, <1>4, PlacedNext
<1>7. p = pos[n] \/ (Width(d, n) = 2 /\ p = pos[n] - 1)
  <2>1. CASE Width(d, n) = 1
    BY <1>5, <1>6, <2>1
  <2>2. CASE Width(d, n) = 2
    BY <1>5, <1>6, <2>2
  <2> QED
    BY <1>6, <2>1, <2>2
<1> QED
  BY <1>4, <1>7

\* As many nodes are open.
LEMMA PlacedDepth ==
  ASSUME NEW d \in Seq(Lines), NEW t \in Seq(Lines), NEW pos, Placed(d, t, pos)
  PROVE  \A n \in 0..Len(d) : Depth(t, pos[n]) = Depth(d, n)
<1> DEFINE N == Len(d)
           S == {n \in 0..N : Depth(t, pos[n]) = Depth(d, n)}
<1>1. N \in Nat /\ pos \in [0..N -> Nat] /\ pos[0] = 0 /\ pos[N] = Len(t)
  BY DEF Placed
<1>2. 0 \in S
  BY <1>1, DepthRounds
<1>3. ASSUME NEW n \in 0 .. N - 1, n \in S PROVE n + 1 \in S
  <2>1. n + 1 \in 1..N /\ n + 1 \in 0..N /\ (n + 1) - 1 = n
    BY <1>1
  <2>2. /\ pos[n + 1] \in Nat /\ pos[n] \in Nat /\ Width(d, n + 1) \in {1, 2}
        /\ pos[n + 1] = pos[n] + Width(d, n + 1)
        /\ t[pos[n + 1]] = d[n + 1]
        /\ Width(d, n + 1) = 2 => t[pos[n + 1] - 1] = Blank
    <3>1. /\ pos[n + 1] \in Nat /\ pos[(n + 1) - 1] \in Nat /\ Width(d, n + 1) \in {1, 2}
          /\ pos[n + 1] = pos[(n + 1) - 1] + Width(d, n + 1)
          /\ t[pos[n + 1]] = d[n + 1]
          /\ Width(d, n + 1) = 2 => t[pos[n + 1] - 1] = Blank
      BY <2>1, PlacedNext
    <3> QED
      BY <2>1, <3>1
  <2>3. pos[n + 1] \in 1..Len(t)
    BY <2>1, PlacedOrder
  <2>4. Depth(t, pos[n + 1]) = Depth(t, pos[n + 1] - 1) + Change(d[n + 1])
    <3>1. DepthRound(t, pos[n + 1])
      BY <2>3, DepthRounds
    <3> QED
      BY <2>2, <3>1 DEF DepthRound
  <2>5. Depth(t, pos[n + 1] - 1) = Depth(t, pos[n])
    <3>1. CASE Width(d, n + 1) = 1
      BY <2>2, <3>1, (pos[n] + 1) - 1 = pos[n]
    <3>2. CASE Width(d, n + 1) = 2
      <4> DEFINE p == pos[n + 1] - 1
      <4>1. p \in 1..Len(t) /\ p - 1 = pos[n] /\ pos[n] \in 0..Len(t)
        BY <2>2, <2>3, <3>2
      <4>2. DepthRound(t, p)
        BY <4>1, DepthRounds
      <4>3. Depth(t, p) = Depth(t, pos[n]) + 0 /\ Depth(t, pos[n]) \in Int
        BY <2>2, <3>2, <4>1, <4>2, BlankLine, DepthRounds DEF DepthRound
      <4> QED
        BY <4>3
    <3> QED
      BY <2>2, <3>1, <3>2
  <2>6. DepthRound(d, n + 1)
    BY <2>1, DepthRounds
  <2> QED
    BY <1>3, <2>1, <2>4, <2>5, <2>6 DEF DepthRound
<1> HIDE DEF S
<1>4. \A n \in 0..N : n \in S
  BY <1>1, <1>2, <1>3, UpToInduction
<1> QED
  BY <1>4 DEF S

-----------------------------------------------------------------------------
(* A tree, and where its tables end.                                       *)

\* What dtc makes.
TreeOK(d) == d \in Seq(Lines) /\ WellFormed(d) /\ \A i \in DOMAIN d : d[i].kind # "blank"

\* A table ends with a line that closes it and the lines up to there are in it; it
\* is not the last line, and the line after it begins a node or ends the tree.
EndsAt(d, i, j) ==
    /\ j \in i + 1 .. Len(d) - 1
    /\ Depth(d, j) = 1 /\ d[j].kind = "close"
    /\ \A k \in i..j - 1 : Depth(d, k) >= 2
    /\ d[j + 1].kind \in Opens \/ j + 1 = Len(d)

LEMMA LastOfTable ==
  ASSUME NEW d, TreeOK(d), NEW i \in Tables(d), Depth(d, i) = 2
  PROVE  EndsAt(d, i, LastOf(d, i))
<1> DEFINE N == Len(d)
           S == {j \in i..N : Depth(d, j) < 2}
           j == LastOf(d, i)
<1>1. /\ d \in Seq(Lines) /\ N \in Nat /\ DOMAIN d = 1..N /\ i \in 1..N
      /\ \A k \in 0..N : Depth(d, k) \in Int
  BY DepthRounds DEF TreeOK, Tables
<1>2. \A k \in 1..N : DepthRound(d, k)
  BY SMTT(30), <1>1, DepthRounds
<1>3. \A k \in 1..N : IF k = N THEN Depth(d, k) = 0 ELSE Depth(d, k) > 0
  BY <1>1 DEF TreeOK, WellFormed
<1>4. N \in S /\ S \subseteq Nat
  <2>1. N \in 1..N /\ N \in i..N
    BY <1>1
  <2>2. Depth(d, N) = 0
    BY <1>3, <2>1
  <2> QED
    BY <1>1, <2>1, <2>2
<1>5. PICK l \in S : \A k \in S : l <= k
  BY <1>4, LeastNat
<1>6. l \in i + 1 .. N /\ l - 1 \in i..N /\ l - 1 \notin S
  <2>1. l # i
    BY <1>5
  <2>2. l \in i..N
    BY <1>5
  <2> QED
    BY <1>1, <1>5, <2>1, <2>2
<1>7. Depth(d, l) = 1 /\ Change(d[l]) = -1
  <2>1. Depth(d, l) = Depth(d, l - 1) + Change(d[l]) /\ Change(d[l]) \in {-1, 0, 1}
    BY <1>1, <1>2, <1>6, l \in 1..N, ChangeType DEF DepthRound
  <2>2. Depth(d, l - 1) \in Int /\ ~(Depth(d, l - 1) < 2) /\ Depth(d, l) < 2 /\ Depth(d, l) \in Int
    BY <1>1, <1>5, <1>6
  <2> QED
    BY <2>1, <2>2
<1>8. \A k \in i..l - 1 : Depth(d, k) >= 2
  <2>1. ASSUME NEW k \in i..l - 1 PROVE Depth(d, k) >= 2
    <3>1. k \in i..N /\ k < l /\ k \in 0..N /\ l \in Nat
      BY <1>1, <1>6
    <3>2. k \notin S
      BY <1>5, <3>1
    <3> QED
      BY <1>1, <3>1, <3>2
  <2> QED
    BY <2>1
<1> DEFINE IsLast(x) == /\ Depth(d, x) = Depth(d, i) - 1
                        /\ \A k \in i..x - 1 : Depth(d, k) >= Depth(d, i)
<1>9. l \in i..N /\ IsLast(l)
  BY <1>1, <1>6, <1>7, <1>8
<1>10. j \in i..N /\ IsLast(j)
  <2>1. j = CHOOSE x \in i..N : IsLast(x)
    BY DEF LastOf
  <2> HIDE DEF j, IsLast
  <2> QED
    BY <1>9, <2>1
<1>11. j = l
  <2> HIDE DEF j
  <2>1. j \in i..N /\ Depth(d, j) = 1 /\ \A k \in i..j - 1 : Depth(d, k) >= 2
    BY <1>10
  <2>2. l <= j
    BY <1>5, <2>1, j \in S
  <2>3. ~(l < j)
    <3>1. l < j => l \in i..j - 1
      BY <1>1, <1>6, <2>1
    <3>2. ~(Depth(d, l) >= 2)
      BY <1>7
    <3> QED
      BY <2>1, <3>1, <3>2
  <2> QED
    BY <1>1, <1>6, <2>1, <2>2, <2>3
<1> HIDE DEF j
<1>12. l # N
  BY <1>1, <1>3, <1>7
<1>13. d[l].kind = "close" /\ l \in 1 .. N - 1 /\ l \in i + 1 .. N - 1
  BY <1>1, <1>6, <1>7, <1>12, ChangeType
<1>14. d[l + 1].kind \in Opens \/ l + 1 = N
  <2>1. d[l + 1].kind \in Opens \cup {"close"}
    BY <1>1, <1>13 DEF TreeOK, WellFormed
  <2>2. CASE d[l + 1].kind = "close"
    <3>1. l + 1 \in 1..N /\ (l + 1) - 1 = l
      BY <1>1, <1>13
    <3>2. Depth(d, l + 1) = Depth(d, l) + Change(d[l + 1])
      BY <1>2, <3>1 DEF DepthRound
    <3>3. Change(d[l + 1]) = -1
      BY <2>2 DEF Change, Opens
    <3> QED
      BY <1>3, <1>7, <3>1, <3>2, <3>3
  <2> QED
    BY <2>1, <2>2
<1>15. EndsAt(d, i, l)
  <2> HIDE DEF S, IsLast
  <2> QED
    BY <1>7, <1>8, <1>13, <1>14 DEF EndsAt
<1> QED
  BY <1>11, <1>15 DEF j

-----------------------------------------------------------------------------
(* The scan of the text for its tables.                                    *)

ScanStates == [count : Int, begins : Seq(Nat), ends : Seq(Nat)]
NotScanned == [count |-> -1, begins |-> <<>>, ends |-> <<>>]
ScanRound(t, f, i) == f[i] = Counted(f[i - 1], i, t[i])

LEMMA CountedType ==
  ASSUME NEW p \in ScanStates, NEW i \in Nat, NEW l
  PROVE  Counted(p, i, l) \in ScanStates
<1>1. p.count \in Int /\ p.begins \in Seq(Nat) /\ p.ends \in Seq(Nat)
  BY DEF ScanStates
<1> DEFINE odd == (Len(p.begins) + Len(p.ends)) % 2 = 1
           n == p.count + Change(l)
           bs == IF l.kind = "table" THEN Append(p.begins, i) ELSE p.begins
           es == IF l.kind # "table" /\ n = 0 /\ odd THEN Append(p.ends, i + 1) ELSE p.ends
<1>2. n \in Int /\ bs \in Seq(Nat)
  BY SMTT(30), <1>1, ChangeType
<1>3. es \in Seq(Nat)
  <2> HIDE DEF n, odd
  <2> QED
    BY <1>1, i + 1 \in Nat
<1>4. Counted(p, i, l) = [count |-> n, begins |-> bs, ends |-> es]
  BY DEF Counted
<1> HIDE DEF n, bs, es
<1> QED
  BY <1>2, <1>3, <1>4 DEF ScanStates

LEMMA PositionsRounds ==
  ASSUME NEW t \in Seq(Lines)
  PROVE  \E f \in [0..Len(t) -> ScanStates] :
            /\ f[0] = NotScanned
            /\ \A i \in 1..Len(t) : ScanRound(t, f, i)
            /\ Positions(t) = f[Len(t)]
<1> DEFINE n == Len(t)
           step == [i \in 1..n |-> [p \in ScanStates |-> Counted(p, i, t[i])]]
           Rounds(g) == [i \in 0..n |-> IF i = 0 THEN NotScanned ELSE Counted(g[i-1], i, t[i])]
           h == CHOOSE g : g = Rounds(g)
<1>1. n \in Nat /\ NotScanned \in ScanStates
  BY <<>> \in Seq(Nat) DEF NotScanned, ScanStates
<1>2. Loops(n, ScanStates, NotScanned, step) # {}
  <2>1. step \in [1..n -> [ScanStates -> ScanStates]]
    <3>1. ASSUME NEW i \in 1..n, NEW p \in ScanStates PROVE Counted(p, i, t[i]) \in ScanStates
      BY CountedType, i \in Nat
    <3> QED
      BY <3>1
  <2> HIDE DEF n, step
  <2> QED
    BY <1>1, <2>1, LoopDefined
<1>3. PICK f \in [0..n -> ScanStates] : f[0] = NotScanned /\ \A i \in 1..n : f[i] = step[i][f[i-1]]
  <2> HIDE DEF n, step
  <2> QED
    BY <1>2 DEF Loops
<1>4. ASSUME NEW i \in 1..n PROVE f[i] = Counted(f[i-1], i, t[i])
  <2>1. f[i-1] \in ScanStates
    BY <1>1, i - 1 \in 0..n
  <2> QED
    BY <1>3, <2>1
<1>5. f = Rounds(f)
  <2>1. ASSUME NEW k \in 0..n PROVE f[k] = IF k = 0 THEN NotScanned ELSE Counted(f[k-1], k, t[k])
    <3>1. CASE k = 0
      BY <1>3, <3>1
    <3>2. CASE k # 0
      BY <1>1, <1>4, <3>2, k \in 1..n
    <3> QED
      BY <3>1, <3>2
  <2> QED
    BY <2>1
<1> HIDE DEF Rounds
<1>6. h = Rounds(h)
  BY <1>5
<1>7. Positions(t) = h[n]
  BY DEF Positions, Rounds, NotScanned
<1> HIDE DEF h
<1>8. \A k \in 0..n : h[k] = IF k = 0 THEN NotScanned ELSE Counted(h[k-1], k, t[k])
  BY <1>6 DEF Rounds
<1> DEFINE S == {i \in 0..n : h[i] = f[i]}
<1>9. 0 \in S
  BY <1>1, <1>3, <1>8, 0 \in 0..n
<1>10. ASSUME NEW i \in 0 .. n - 1, i \in S PROVE i + 1 \in S
  <2>1. i + 1 \in 1..n /\ i + 1 \in 0..n /\ (i + 1) - 1 = i /\ i + 1 # 0
    BY <1>1
  <2>2. h[i + 1] = Counted(h[i], i + 1, t[i + 1])
    BY <1>8, <2>1
  <2>3. f[i + 1] = Counted(f[i], i + 1, t[i + 1])
    BY <1>4, <2>1
  <2> QED
    BY <1>10, <2>1, <2>2, <2>3
<1> HIDE DEF S
<1>11. \A i \in 0..n : i \in S
  BY <1>1, <1>9, <1>10, UpToInduction
<1>12. Positions(t) = f[n]
  BY <1>1, <1>7, <1>11 DEF S
<1>13. \A i \in 1..n : ScanRound(t, f, i)
  BY <1>4 DEF ScanRound
<1> QED
  BY <1>3, <1>12, <1>13

\* The lines from b to e are of one table of the text.
Span(t, b, e) ==
    /\ b \in 1..Len(t) /\ t[b].kind = "table"
    /\ e \in b + 1 .. Len(t) /\ Depth(t, e) = 1
    /\ \A k \in b..e - 1 : Depth(t, k) >= 2

LEMMA SpanUnique ==
  ASSUME NEW t \in Seq(Lines), NEW b, NEW e, NEW f, Span(t, b, e), Span(t, b, f)
  PROVE  e = f
<1>1. b \in Nat /\ e \in Nat /\ f \in Nat /\ b < e /\ b < f
  BY Len(t) \in Nat DEF Span
<1>2. ~(e < f)
  <2>1. e < f => e \in b..f - 1
    BY <1>1
  <2> QED
    BY <2>1 DEF Span
<1>3. ~(f < e)
  <2>1. f < e => f \in b..e - 1
    BY <1>1
  <2> QED
    BY <2>1 DEF Span
<1> QED
  BY <1>1, <1>2, <1>3

\* What is known of the scan after line p: the tables so far, the ends of all of
\* them but of the one that is open.
Closed(q) == Len(q.begins) = Len(q.ends)
Open(t, q, p) ==
    /\ Len(q.begins) = Len(q.ends) + 1
    /\ q.begins[Len(q.begins)] <= p
    /\ \A k \in q.begins[Len(q.begins)] .. p : Depth(t, k) >= 2
ScanInv(t, q, p) ==
    /\ q.count = Depth(t, p) - 1
    /\ \A x \in 1..Len(q.begins) : q.begins[x] \in 1..p /\ t[q.begins[x]].kind = "table"
    /\ \A b \in 1..p : t[b].kind = "table" => \E x \in 1..Len(q.begins) : q.begins[x] = b
    /\ \A x \in 1..Len(q.ends) : Span(t, q.begins[x], q.ends[x] - 1)
    /\ Closed(q) \/ Open(t, q, p)

LEMMA Parity ==
  ASSUME NEW q \in ScanStates
  PROVE  /\ Closed(q) => (Len(q.begins) + Len(q.ends)) % 2 # 1
         /\ Len(q.begins) = Len(q.ends) + 1 => (Len(q.begins) + Len(q.ends)) % 2 = 1
<1> DEFINE a == Len(q.begins)
           b == Len(q.ends)
<1>1. a \in Nat /\ b \in Nat
  <2>1. q.begins \in Seq(Nat) /\ q.ends \in Seq(Nat)
    BY DEF ScanStates
  <2> QED
    BY <2>1
<1> HIDE DEF a, b
<1>2. a = b => (a + b) % 2 # 1
  BY <1>1
<1>3. a = b + 1 => (a + b) % 2 = 1
  BY <1>1
<1> QED
  BY <1>2, <1>3 DEF a, b, Closed

LEMMA ScanStep ==
  ASSUME NEW t \in Seq(Lines), NEW p \in 0 .. Len(t) - 1, NEW q \in ScanStates, ScanInv(t, q, p),
         \A b \in 1..Len(t) : t[b].kind = "table" => Depth(t, b) = 2
  PROVE  ScanInv(t, Counted(q, p + 1, t[p + 1]), p + 1)
<1> DEFINE l == t[p + 1]
           r == Counted(q, p + 1, l)
           B == Len(q.begins)
           E == Len(q.ends)
<1>1. /\ p + 1 \in 1..Len(t) /\ p \in 0..Len(t) /\ (p + 1) - 1 = p /\ p \in Nat /\ Len(t) \in Nat
      /\ q.begins \in Seq(Nat) /\ q.ends \in Seq(Nat) /\ B \in Nat /\ E \in Nat
  <2>1. q.begins \in Seq(Nat) /\ q.ends \in Seq(Nat)
    BY DEF ScanStates
  <2> QED
    BY <2>1
<1>2. Depth(t, p + 1) = Depth(t, p) + Change(l) /\ Depth(t, p) \in Int /\ Change(l) \in {-1, 0, 1}
  <2>1. DepthRound(t, p + 1) /\ Depth(t, p) \in Int
    BY <1>1, DepthRounds
  <2> QED
    BY <1>1, <2>1, ChangeType DEF DepthRound
<1>3. /\ q.count = Depth(t, p) - 1
      /\ \A x \in 1..B : q.begins[x] \in 1..p /\ t[q.begins[x]].kind = "table"
      /\ \A b \in 1..p : t[b].kind = "table" => \E x \in 1..B : q.begins[x] = b
      /\ \A x \in 1..E : Span(t, q.begins[x], q.ends[x] - 1)
      /\ Closed(q) \/ Open(t, q, p)
  BY DEF ScanInv
<1>4. /\ r.count = q.count + Change(l)
      /\ r.begins = IF l.kind = "table" THEN Append(q.begins, p + 1) ELSE q.begins
      /\ r.ends = IF l.kind # "table" /\ q.count + Change(l) = 0 /\ (B + E) % 2 = 1
                  THEN Append(q.ends, p + 2) ELSE q.ends
  BY <1>1, (p + 1) + 1 = p + 2 DEF Counted
<1> HIDE DEF l, r
<1>5. r.count = Depth(t, p + 1) - 1
  BY <1>2, <1>3, <1>4
<1>6. CASE l.kind = "table"
  <2>1. Depth(t, p + 1) = 2 /\ Depth(t, p) = 1
    <3>1. Depth(t, p + 1) = 2
      BY <1>1, <1>6 DEF l
    <3>2. Change(l) = 1
      BY <1>6 DEF Change, Opens
    <3> QED
      BY <1>2, <3>1, <3>2
  <2>2. Closed(q)
    <3>1. ASSUME Open(t, q, p) PROVE FALSE
      <4>1. B \in 1..B
        BY <1>1, <3>1 DEF Open
      <4>2. q.begins[B] \in 1..p
        BY <1>3, <4>1
      <4>3. p \in q.begins[B] .. p
        BY <1>1, <4>2
      <4>4. Depth(t, p) >= 2
        BY <3>1, <4>3 DEF Open
      <4> QED
        BY <2>1, <4>4
    <3> QED
      BY <1>3, <3>1
  <2>3. /\ r.begins = Append(q.begins, p + 1) /\ r.ends = q.ends
        /\ Len(r.begins) = B + 1 /\ r.begins[B + 1] = p + 1
        /\ \A x \in 1..B : r.begins[x] = q.begins[x]
    <3>1. r.begins = Append(q.begins, p + 1) /\ r.ends = q.ends
      BY <1>4, <1>6
    <3> QED
      BY <1>1, <3>1
  <2>4. \A x \in 1..B + 1 : r.begins[x] \in 1..p + 1 /\ t[r.begins[x]].kind = "table"
    <3>1. ASSUME NEW x \in 1..B + 1 PROVE r.begins[x] \in 1..p + 1 /\ t[r.begins[x]].kind = "table"
      <4>1. CASE x = B + 1
        BY <1>1, <1>6, <2>3, <4>1 DEF l
      <4>2. CASE x # B + 1
        <5>1. x \in 1..B
          BY <1>1, <4>2
        <5>2. q.begins[x] \in 1..p /\ t[q.begins[x]].kind = "table" /\ r.begins[x] = q.begins[x]
          BY <1>3, <2>3, <5>1
        <5> QED
          BY SMTT(30), <1>1, <5>2
      <4> QED
        BY <4>1, <4>2
    <3> QED
      BY <3>1
  <2>5. ASSUME NEW b \in 1..p + 1, t[b].kind = "table" PROVE \E x \in 1..B + 1 : r.begins[x] = b
    <3>1. CASE b = p + 1
      BY <1>1, <2>3, <3>1, B + 1 \in 1..B + 1
    <3>2. CASE b # p + 1
      <4>1. b \in 1..p
        BY <1>1, <3>2
      <4>2. PICK x \in 1..B : q.begins[x] = b
        BY <1>3, <2>5, <4>1
      <4> QED
        BY <1>1, <2>3, <4>2, x \in 1..B + 1
    <3> QED
      BY <3>1, <3>2
  <2>6. \A x \in 1..E : Span(t, r.begins[x], r.ends[x] - 1)
    BY <1>3, <2>2, <2>3 DEF Closed
  <2>7. Open(t, r, p + 1)
    <3>1. Len(r.begins) = Len(r.ends) + 1 /\ r.begins[Len(r.begins)] = p + 1
      BY <2>2, <2>3 DEF Closed
    <3>2. \A k \in p + 1 .. p + 1 : Depth(t, k) >= 2
      BY <1>1, <2>1
    <3> QED
      BY <1>1, <3>1, <3>2 DEF Open
  <2>8. Len(r.ends) = E
    BY <2>3
  <2> QED
    BY <1>5, <2>3, <2>4, <2>5, <2>6, <2>7, <2>8 DEF ScanInv, r, l
<1>7. CASE l.kind # "table"
  <2>1. r.begins = q.begins /\ Len(r.begins) = B
    BY <1>4, <1>7
  <2>2. \A x \in 1..B : r.begins[x] \in 1..p + 1 /\ t[r.begins[x]].kind = "table"
    BY SMTT(30), <1>1, <1>3, <2>1
  <2>3. ASSUME NEW b \in 1..p + 1, t[b].kind = "table" PROVE \E x \in 1..B : r.begins[x] = b
    <3>1. b # p + 1
      BY <1>7, <2>3 DEF l
    <3>2. b \in 1..p
      BY <1>1, <3>1
    <3> QED
      BY <1>3, <2>1, <2>3, <3>2
  <2>4. CASE Closed(q)
    <3>1. r.ends = q.ends
      BY <1>4, <2>4, Parity
    <3>2. Closed(r)
      BY <2>1, <2>4, <3>1 DEF Closed
    <3> QED
      BY <1>3, <1>5, <2>1, <2>2, <2>3, <3>1, <3>2 DEF ScanInv, r, l
  <2>5. CASE Open(t, q, p)
    <3> DEFINE b == q.begins[B]
    <3>1. B = E + 1 /\ B \in 1..B /\ b \in 1..p /\ t[b].kind = "table" /\ \A k \in b..p : Depth(t, k) >= 2
      <4>1. B = E + 1 /\ \A k \in b..p : Depth(t, k) >= 2
        BY <2>5 DEF Open
      <4>2. B \in 1..B
        BY <1>1, <4>1
      <4> QED
        BY <1>3, <4>1, <4>2
    <3>2. (B + E) % 2 = 1
      BY <3>1, Parity
    <3>3. CASE q.count + Change(l) = 0
      <4>1. Depth(t, p + 1) = 1
        BY <1>2, <1>3, <3>3
      <4>2. r.ends = Append(q.ends, p + 2)
        BY <1>4, <1>7, <3>2, <3>3
      <4>3. Len(r.ends) = E + 1 /\ r.ends[E + 1] = p + 2 /\ \A x \in 1..E : r.ends[x] = q.ends[x]
        BY <1>1, <4>2
      <4>4. Span(t, b, p + 1)
        <5>1. b \in 1..Len(t) /\ p + 1 \in b + 1 .. Len(t)
          <6>1. b \in 1..p /\ p \in Nat /\ Len(t) \in Nat /\ p + 1 \in 1..Len(t)
            BY <1>1, <3>1
          <6> HIDE DEF b
          <6> QED
            BY <6>1
        <5>2. \A k \in b .. (p + 1) - 1 : Depth(t, k) >= 2
          <6>1. (p + 1) - 1 = p
            BY <1>1
          <6> QED
            BY <3>1, <6>1
        <5> QED
          BY <3>1, <4>1, <5>1, <5>2 DEF Span
      <4>5. ASSUME NEW x \in 1..E + 1 PROVE Span(t, r.begins[x], r.ends[x] - 1)
        <5>1. CASE x = E + 1
          <6>1. r.begins[x] = b /\ r.ends[x] - 1 = p + 1
            BY SMTT(30), <1>1, <2>1, <3>1, <4>3, <5>1
          <6> QED
            BY <4>4, <6>1
        <5>2. CASE x # E + 1
          <6>1. x \in 1..E
            BY <1>1, <5>2
          <6> QED
            BY <1>3, <2>1, <4>3, <6>1
        <5> QED
          BY <5>1, <5>2
      <4>6. Closed(r)
        BY <2>1, <3>1, <4>3 DEF Closed
      <4> QED
        BY <1>5, <2>1, <2>2, <2>3, <4>3, <4>5, <4>6 DEF ScanInv, r, l
    <3>4. CASE q.count + Change(l) # 0
      <4>1. r.ends = q.ends
        BY <1>4, <3>4
      <4>2. Depth(t, p + 1) >= 2
        <5>1. p \in b..p
          BY <1>1, <3>1
        <5>2. Depth(t, p) >= 2
          BY <3>1, <5>1
        <5> QED
          BY <1>2, <1>3, <3>4, <5>2
      <4>3. \A k \in b .. p + 1 : Depth(t, k) >= 2
        <5>1. ASSUME NEW k \in b .. p + 1 PROVE Depth(t, k) >= 2
          <6>1. k = p + 1 \/ k \in b..p
            BY <1>1, <3>1
          <6> QED
            BY <3>1, <4>2, <6>1
        <5> QED
          BY <5>1
      <4>4. Open(t, r, p + 1)
        BY SMTT(30), <1>1, <2>1, <3>1, <4>1, <4>3 DEF Open
      <4> QED
        BY <1>3, <1>5, <2>1, <2>2, <2>3, <4>1, <4>4 DEF ScanInv, r, l
    <3> QED
      BY <3>3, <3>4
  <2> QED
    BY <1>3, <2>4, <2>5
<1> QED
  BY <1>6, <1>7

\* What it finds: each table of the text, and where that one ends.
Found(t, q) ==
    /\ q.begins \in Seq(Nat) /\ q.ends \in Seq(Nat) /\ Closed(q)
    /\ \A x \in 1..Len(q.begins) : Span(t, q.begins[x], q.ends[x] - 1)
    /\ \A b \in 1..Len(t) : t[b].kind = "table" => \E x \in 1..Len(q.begins) : q.begins[x] = b

LEMMA ScanFinds ==
  ASSUME NEW t \in Seq(Lines), t # <<>>, Depth(t, Len(t)) = 0,
         \A b \in 1..Len(t) : t[b].kind = "table" => Depth(t, b) = 2
  PROVE  Found(t, Positions(t))
<1> DEFINE n == Len(t)
<1>1. n \in Nat /\ n \in 1..n
  OBVIOUS
<1>2. PICK f \in [0..n -> ScanStates] :
        f[0] = NotScanned /\ (\A i \in 1..n : ScanRound(t, f, i)) /\ Positions(t) = f[n]
  BY PositionsRounds
<1> DEFINE S == {p \in 0..n : ScanInv(t, f[p], p)}
<1>3. 0 \in S
  <2>1. Depth(t, 0) = 0
    BY DepthRounds
  <2>2. f[0].count = -1 /\ f[0].begins = <<>> /\ f[0].ends = <<>> /\ Len(<<>>) = 0
    BY <1>2 DEF NotScanned
  <2>3. ScanInv(t, f[0], 0)
    BY <2>1, <2>2 DEF ScanInv, Closed
  <2> QED
    BY <1>1, <2>3
<1>4. ASSUME NEW p \in 0 .. n - 1, p \in S PROVE p + 1 \in S
  <2>1. p + 1 \in 1..n /\ p \in 0..n /\ p + 1 \in 0..n /\ (p + 1) - 1 = p
    BY <1>1
  <2>2. f[p + 1] = Counted(f[p], p + 1, t[p + 1])
    <3>1. ScanRound(t, f, p + 1)
      BY <1>2, <2>1
    <3> QED
      BY <2>1, <3>1 DEF ScanRound
  <2>3. f[p] \in ScanStates /\ ScanInv(t, f[p], p)
    BY <1>4, <2>1
  <2>4. ScanInv(t, Counted(f[p], p + 1, t[p + 1]), p + 1)
    BY <2>3, ScanStep
  <2> QED
    BY <2>1, <2>2, <2>4
<1> HIDE DEF S
<1>5. \A p \in 0..n : p \in S
  BY <1>1, <1>3, <1>4, UpToInduction
<1> DEFINE q == Positions(t)
<1>6. q \in ScanStates /\ ScanInv(t, q, n)
  BY <1>1, <1>2, <1>5 DEF S
<1> HIDE DEF q
<1>7. q.begins \in Seq(Nat) /\ q.ends \in Seq(Nat)
  BY <1>6 DEF ScanStates
<1>8. ~Open(t, q, n)
  <2>1. ASSUME Open(t, q, n) PROVE FALSE
    <3> DEFINE B == Len(q.begins)
    <3>1. B \in Nat /\ Len(q.ends) \in Nat /\ B = Len(q.ends) + 1
      BY <1>7, <2>1 DEF Open
    <3>2. q.begins[B] \in 1..n
      BY <1>6, <3>1, B \in 1..B DEF ScanInv
    <3>3. n \in q.begins[B] .. n
      BY <1>1, <3>2
    <3>4. Depth(t, n) >= 2
      BY <2>1, <3>3 DEF Open
    <3> QED
      BY <3>4
  <2> QED
    BY <2>1
<1>9. Closed(q)
  BY <1>6, <1>8 DEF ScanInv
<1> QED
  BY <1>6, <1>7, <1>9 DEF Found, ScanInv, Closed, q

-----------------------------------------------------------------------------
(* The tables of the tree in its text.                                     *)

LEMMA DepthOfBlank ==
  ASSUME NEW d \in Seq(Lines), NEW t \in Seq(Lines), NEW pos, Placed(d, t, pos), NEW n \in 1..Len(d),
         Width(d, n) = 2
  PROVE  pos[n] - 1 \in 1..Len(t) /\ Depth(t, pos[n] - 1) = Depth(d, n - 1)
<1>1. n - 1 \in 0..Len(d) /\ n \in 0..Len(d)
  OBVIOUS
<1>2. pos[n] = pos[n - 1] + 2 /\ pos[n] \in Nat /\ pos[n - 1] \in Nat /\ t[pos[n] - 1] = Blank
  BY PlacedNext
<1>3. pos[n] \in 1..Len(t)
  BY PlacedOrder
<1> DEFINE p == pos[n] - 1
<1>4. p \in 1..Len(t) /\ p - 1 = pos[n - 1] /\ pos[n - 1] \in 0..Len(t)
  BY SMTT(30), <1>2, <1>3
<1>5. Depth(t, p) = Depth(t, pos[n - 1]) + 0 /\ Depth(t, pos[n - 1]) \in Int
  <2>1. DepthRound(t, p) /\ Depth(t, pos[n - 1]) \in Int
    BY <1>4, DepthRounds
  <2> QED
    BY <1>2, <1>4, <2>1, BlankLine DEF DepthRound
<1>6. Depth(t, pos[n - 1]) = Depth(d, n - 1)
  BY <1>1, PlacedDepth
<1> QED
  BY <1>4, <1>5, <1>6

LEMMA SpanOfTable ==
  ASSUME NEW d, TreeOK(d), NEW t \in Seq(Lines), NEW pos, Placed(d, t, pos),
         NEW i \in Tables(d), NEW j, EndsAt(d, i, j)
  PROVE  Span(t, pos[i], pos[j])
<1>1. d \in Seq(Lines) /\ i \in 1..Len(d) /\ d[i].kind = "table" /\ Len(d) \in Nat /\ Len(t) \in Nat
  BY DEF TreeOK, Tables
<1>2. j \in 1..Len(d) /\ i < j /\ Depth(d, j) = 1 /\ \A k \in i..j - 1 : Depth(d, k) >= 2
  BY <1>1 DEF EndsAt
<1>3. /\ pos[i] \in 1..Len(t) /\ pos[j] \in 1..Len(t) /\ pos[i] < pos[j]
      /\ \A m, n \in 0..Len(d) : m <= n <=> pos[m] <= pos[n]
      /\ \A m \in 0..Len(d) : pos[m] \in Nat
  <2>1. pos[i] \in 1..Len(t) /\ pos[j] \in 1..Len(t)
    BY <1>1, <1>2, PlacedOrder
  <2>2. \A m, n \in 0..Len(d) : m <= n <=> pos[m] <= pos[n]
    BY <1>1, PlacedOrder
  <2>3. ~(pos[j] <= pos[i])
    BY <1>1, <1>2, <2>2, i \in 0..Len(d), j \in 0..Len(d)
  <2> QED
    BY <2>1, <2>2, <2>3 DEF Placed
<1>4. t[pos[i]].kind = "table"
  BY <1>1, PlacedNext
<1>5. Depth(t, pos[j]) = 1
  BY <1>1, <1>2, j \in 0..Len(d), PlacedDepth
<1>6. ASSUME NEW k \in pos[i] .. pos[j] - 1 PROVE Depth(t, k) >= 2
  <2>1. k \in 1..Len(t) /\ pos[i] <= k /\ k < pos[j]
    BY <1>3
  <2>2. PICK n \in 1..Len(d) : k = pos[n] \/ (Width(d, n) = 2 /\ k = pos[n] - 1)
    BY <1>1, <2>1, PlacedEvery
  <2>3. n \in 0..Len(d) /\ n - 1 \in 0..Len(d) /\ i \in 0..Len(d) /\ j \in 0..Len(d)
    BY <1>1, <1>2
  <2>4. CASE k = pos[n]
    <3>1. i <= n /\ ~(j <= n)
      <4>1. pos[i] <= pos[n] /\ ~(pos[j] <= pos[n])
        BY <1>3, <2>1, <2>3, <2>4
      <4> QED
        BY <1>3, <2>3, <4>1
    <3>2. n \in i..j - 1
      BY <1>1, <1>2, <3>1
    <3>3. Depth(t, pos[n]) = Depth(d, n)
      BY <1>1, <2>3, PlacedDepth
    <3> QED
      BY <1>2, <2>4, <3>2, <3>3
  <2>5. CASE Width(d, n) = 2 /\ k = pos[n] - 1
    <3>1. pos[n] = pos[n - 1] + 2 /\ pos[n] \in Nat /\ pos[n - 1] \in Nat
      BY <1>1, <2>5, PlacedNext
    <3>2. ~(pos[n] <= pos[i]) /\ pos[n] <= pos[j]
      <4>1. pos[i] \in Nat /\ pos[j] \in Nat
        BY <1>3
      <4> QED
        <5>1. pos[i] <= pos[n] - 1 /\ pos[n] - 1 < pos[j] /\ pos[n] \in Nat
          BY <2>1, <2>5, <3>1
        <5>2. \A a, b, c \in Nat : a <= b - 1 /\ b - 1 < c => ~(b <= a) /\ b <= c
          OBVIOUS
        <5> QED
          BY <4>1, <5>1, <5>2
    <3>3. ~(n <= i) /\ n <= j
      BY <1>3, <2>3, <3>2
    <3>4. n - 1 \in i..j - 1
      BY <1>1, <1>2, <3>3
    <3>5. Depth(t, k) = Depth(d, n - 1)
      BY <1>1, <2>5, DepthOfBlank
    <3> QED
      BY <1>2, <3>4, <3>5
  <2> QED
    BY <2>2, <2>4, <2>5
<1> QED
  BY <1>3, <1>4, <1>5, <1>6 DEF Span

-----------------------------------------------------------------------------
(* The lines with the handles of the tables.                               *)

\* One place picks one line.
LEMMA PickedOne ==
  ASSUME NEW X, NEW t \in Seq(X), NEW k \in 1..Len(t)
  PROVE  Picked(t, {k}) = <<t[k]>>
<1> DEFINE f == [p \in 0..Len(t) |-> IF p < k THEN <<>> ELSE <<t[k]>>]
<1>1. Len(t) \in Nat /\ 0 < k
  OBVIOUS
<1>2. f[0] = <<>>
  BY <1>1
<1>3. ASSUME NEW p \in 1..Len(t) PROVE f[p] = IF p \in {k} THEN Append(f[p-1], t[p]) ELSE f[p-1]
  <2>1. p - 1 \in 0..Len(t) /\ p \in 0..Len(t)
    BY <1>1
  <2>2. CASE p < k
    <3>1. f[p] = <<>> /\ f[p-1] = <<>> /\ p \notin {k}
      BY <2>1, <2>2
    <3> QED
      BY <3>1
  <2>3. CASE p = k
    <3>1. f[p] = <<t[p]>> /\ f[p-1] = <<>> /\ p \in {k}
      BY <2>1, <2>3
    <3>2. Append(<<>>, t[p]) = <<t[p]>>
      OBVIOUS
    <3> HIDE DEF f
    <3> QED
      BY <3>1, <3>2
  <2>4. CASE p > k
    <3>1. f[p] = <<t[k]>> /\ f[p-1] = <<t[k]>> /\ p \notin {k}
      BY <2>1, <2>4
    <3> QED
      BY <3>1
  <2> QED
    BY <2>2, <2>3, <2>4
<1>4. f[Len(t)] = <<t[k]>>
  BY <1>1
<1> HIDE DEF f
<1>5. \A p \in 0..Len(t) : f[p] = PickedTo(t, {k}, p)
  BY <1>2, <1>3, PickedIsLast
<1>6. PickedTo(t, {k}, Len(t)) = Picked(t, {k})
  BY PickedRounds
<1> QED
  BY <1>1, <1>4, <1>5, <1>6, Len(t) \in 0..Len(t)

\* Sequences of one element each give the sequence of those elements.
LEMMA FlattenOnes ==
  ASSUME NEW X, NEW a \in Seq(X), NEW s \in Seq(Seq(X)), Len(s) = Len(a),
         \A i \in 1..Len(a) : s[i] = <<a[i]>>
  PROVE  FlattenSeq(s) = a
<1> DEFINE f == [i \in 0..Len(a) |-> SubSeq(a, 1, i)]
<1>1. Len(a) \in Nat
  OBVIOUS
<1>2. f \in [0..Len(a) -> Seq(X)]
  <2>1. ASSUME NEW i \in 0..Len(a) PROVE SubSeq(a, 1, i) \in Seq(X)
    OBVIOUS
  <2> QED
    BY <2>1
<1>3. f[0] = <<>>
  <2>1. SubSeq(a, 1, 0) = <<>>
    BY SubSeqEmpty
  <2> QED
    BY <1>1, <2>1
<1>4. ASSUME NEW i \in 1..Len(a) PROVE f[i] = f[i-1] \o s[i]
  <2>1. SubSeq(a, 1, i) = SubSeq(a, 1, i - 1) \o <<a[i]>>
    <3>1. 1 \in 1..Len(a) /\ i \in 1..Len(a)
      BY <1>1
    <3> QED
      BY <3>1, SubSeqRecursiveSecond
  <2>2. f[i] = SubSeq(a, 1, i) /\ f[i-1] = SubSeq(a, 1, i - 1)
    BY SMTT(30), <1>1
  <2> QED
    BY <2>1, <2>2
<1>5. f[Len(a)] = a
  BY <1>1, SubSeqFull
<1> HIDE DEF f
<1>6. f[Len(s)] = FlattenSeq(s)
  <2>1. f \in [0..Len(s) -> Seq(X)] /\ \A i \in 1..Len(s) : f[i] = f[i-1] \o s[i]
    BY <1>2, <1>4
  <2> QED
    BY <1>3, <2>1, FlattenIsLast
<1> QED
  BY <1>5, <1>6

\* Plain(d, r) of the tables alone.
PlainTables(d) == \A i \in Tables(d) : Depth(d, i) = 2 /\ \E h \in DOMAIN d : HandlesIn(d, i) = {h}

LEMMA TextLine ==
  ASSUME NEW d, TreeOK(d), NEW t \in Seq(Lines), NEW pos, Placed(d, t, pos), NEW p \in 1..Len(t),
         t[p].kind # "blank"
  PROVE  \E n \in 1..Len(d) : p = pos[n] /\ t[p] = d[n]
<1>1. d \in Seq(Lines)
  BY DEF TreeOK
<1>2. PICK n \in 1..Len(d) : p = pos[n] \/ (Width(d, n) = 2 /\ p = pos[n] - 1)
  BY <1>1, PlacedEvery
<1>3. t[pos[n]] = d[n] /\ (Width(d, n) = 2 => t[pos[n] - 1] = Blank)
  BY <1>1, PlacedNext
<1>4. p = pos[n]
  BY <1>2, <1>3, BlankLine
<1> QED
  BY <1>3, <1>4

\* The scan of the text of a tree with such tables finds them.
TableAt(d, pos, i, b, e) == i \in Tables(d) /\ b = pos[i] /\ e = pos[LastOf(d, i)] + 1
AllTablesAt(d, pos, q) ==
    /\ q.begins \in Seq(Nat) /\ q.ends \in Seq(Nat) /\ Closed(q)
    /\ \A x \in 1..Len(q.begins) : \E i \in Tables(d) : TableAt(d, pos, i, q.begins[x], q.ends[x])
    /\ \A i \in Tables(d) : \E x \in 1..Len(q.begins) : TableAt(d, pos, i, q.begins[x], q.ends[x])

LEMMA ScanFindsTables ==
  ASSUME NEW d, TreeOK(d), PlainTables(d), NEW t \in Seq(Lines), NEW pos, Placed(d, t, pos)
  PROVE  AllTablesAt(d, pos, Positions(t))
<1> DEFINE q == Positions(t)
<1>1. d \in Seq(Lines) /\ Len(d) \in Nat /\ DOMAIN d = 1..Len(d) /\ d # <<>>
  BY DEF TreeOK, WellFormed, NoText
<1>2. Len(d) \in 1..Len(d) /\ Len(d) \in 0..Len(d)
  BY <1>1
<1>3. t # <<>> /\ Depth(t, Len(t)) = 0
  <2>1. pos[Len(d)] = Len(t) /\ pos[Len(d)] \in 1..Len(t)
    BY <1>1, <1>2, PlacedOrder DEF Placed
  <2>2. Depth(d, Len(d)) = 0
    BY <1>1, <1>2 DEF TreeOK, WellFormed
  <2>3. Depth(t, Len(t)) = 0
    BY <1>1, <1>2, <2>1, <2>2, PlacedDepth
  <2> QED
    BY <2>1, <2>3
<1>4. ASSUME NEW b \in 1..Len(t), t[b].kind = "table" PROVE \E i \in Tables(d) : b = pos[i] /\ Depth(t, b) = 2
  <2>1. PICK i \in 1..Len(d) : b = pos[i] /\ t[b] = d[i]
    BY <1>4, TextLine
  <2>2. i \in Tables(d) /\ i \in 0..Len(d)
    BY <1>1, <1>4, <2>1 DEF Tables
  <2>3. Depth(t, b) = Depth(d, i)
    BY <1>1, <2>1, <2>2, PlacedDepth
  <2> QED
    BY <2>1, <2>2, <2>3 DEF PlainTables
<1>5. Found(t, q)
  BY <1>3, <1>4, ScanFinds
<1> HIDE DEF q
<1>6. q.begins \in Seq(Nat) /\ q.ends \in Seq(Nat) /\ Closed(q)
  BY <1>5 DEF Found
<1>7. ASSUME NEW x \in 1..Len(q.begins), NEW i \in Tables(d), q.begins[x] = pos[i]
      PROVE  TableAt(d, pos, i, q.begins[x], q.ends[x])
  <2> DEFINE j == LastOf(d, i)
  <2>1. EndsAt(d, i, j)
    BY LastOfTable DEF PlainTables
  <2>2. Span(t, pos[i], pos[j])
    BY <2>1, SpanOfTable
  <2>3. Span(t, pos[i], q.ends[x] - 1)
    BY <1>5, <1>7 DEF Found
  <2>4. pos[j] = q.ends[x] - 1
    BY <2>2, <2>3, SpanUnique
  <2>5. q.ends[x] \in Nat
    BY <1>6 DEF Closed
  <2> QED
    BY <1>7, <2>4, <2>5 DEF TableAt
<1>8. ASSUME NEW x \in 1..Len(q.begins) PROVE \E i \in Tables(d) : TableAt(d, pos, i, q.begins[x], q.ends[x])
  <2>1. q.begins[x] \in 1..Len(t) /\ t[q.begins[x]].kind = "table"
    BY <1>5 DEF Found, Span
  <2>2. PICK i \in Tables(d) : q.begins[x] = pos[i]
    BY <1>4, <2>1
  <2> QED
    BY <1>7, <2>2
<1>9. ASSUME NEW i \in Tables(d)
      PROVE  \E x \in 1..Len(q.begins) : TableAt(d, pos, i, q.begins[x], q.ends[x])
  <2>1. i \in 1..Len(d) /\ d[i].kind = "table"
    BY <1>1 DEF Tables
  <2>2. pos[i] \in 1..Len(t) /\ t[pos[i]].kind = "table"
    BY <1>1, <2>1, PlacedOrder, PlacedNext
  <2>3. PICK x \in 1..Len(q.begins) : q.begins[x] = pos[i]
    BY <1>5, <2>2 DEF Found
  <2> QED
    BY <1>7, <2>3
<1> QED
  BY <1>6, <1>8, <1>9 DEF AllTablesAt, q

\* One line with a handle for each of them.
EntryAt(d, pos, x) ==
    \E i \in Tables(d), h \in DOMAIN d :
        TableAt(d, pos, i, w.begins[x], w.ends[x]) /\ HandlesIn(d, i) = {h} /\ AllPhandles[x] = d[h]

LEMMA PhandlesOfTable ==
  ASSUME NEW d, TreeOK(d), PlainTables(d), w.lines \in Seq(Lines), NEW pos, Placed(d, w.lines, pos),
         NEW x, NEW i, TableAt(d, pos, i, w.begins[x], w.ends[x]), NEW h \in DOMAIN d, HandlesIn(d, i) = {h}
  PROVE  Phandles(x) = <<d[h]>>
<1> DEFINE t == w.lines
           j == LastOf(d, i)
           K == {n \in w.begins[x] .. w.ends[x] - 1 : t[n].kind = "phandle"}
<1>1. d \in Seq(Lines) /\ Len(d) \in Nat /\ DOMAIN d = 1..Len(d) /\ Len(t) \in Nat /\ h \in 1..Len(d)
  BY DEF TreeOK
<1>2. i \in Tables(d) /\ i \in 1..Len(d) /\ w.begins[x] = pos[i] /\ w.ends[x] = pos[j] + 1
  BY <1>1 DEF TableAt, Tables
<1>3. EndsAt(d, i, j)
  BY <1>2, LastOfTable DEF PlainTables
<1>4. j \in 1..Len(d) /\ i < j /\ h \in i..j /\ d[h].kind = "phandle"
  <2>1. j \in 1..Len(d) /\ i < j
    BY <1>1, <1>2, <1>3 DEF EndsAt
  <2>2. h \in HandlesIn(d, i)
    OBVIOUS
  <2> QED
    BY <2>1, <2>2 DEF HandlesIn
<1>5. /\ \A m, n \in 0..Len(d) : m <= n <=> pos[m] <= pos[n]
      /\ \A m \in 1..Len(d) : pos[m] \in 1..Len(t)
  BY <1>1, PlacedOrder
<1>6. (w.ends[x] - 1) = pos[j]
  BY <1>1, <1>2, <1>4, <1>5
<1>7. K = {pos[h]}
  <2>1. pos[h] \in K
    <3>1. pos[i] <= pos[h] /\ pos[h] <= pos[j]
      BY <1>1, <1>2, <1>4, <1>5, i \in 0..Len(d), h \in 0..Len(d), j \in 0..Len(d)
    <3>2. t[pos[h]] = d[h]
      BY <1>1, PlacedNext
    <3>3. pos[h] \in pos[i] .. pos[j]
      BY <1>1, <1>2, <1>4, <1>5, <3>1
    <3> QED
      BY <1>2, <1>4, <1>6, <3>2, <3>3
  <2>2. ASSUME NEW n \in K PROVE n = pos[h]
    <3>1. n \in pos[i] .. pos[j] /\ t[n].kind = "phandle"
      BY <1>2, <1>6
    <3>2. n \in 1..Len(t)
      BY <1>1, <1>2, <1>4, <1>5, <3>1
    <3>3. PICK m \in 1..Len(d) : n = pos[m] /\ t[n] = d[m]
      BY <3>1, <3>2, TextLine
    <3>4. pos[i] <= pos[m] /\ pos[m] <= pos[j]
      BY <3>1, <3>3
    <3>5. i <= m /\ m <= j
      BY <1>1, <1>2, <1>4, <1>5, <3>4, i \in 0..Len(d), m \in 0..Len(d), j \in 0..Len(d)
    <3>6. m \in HandlesIn(d, i)
      BY <1>1, <1>2, <1>4, <3>1, <3>3, <3>5 DEF HandlesIn
    <3> QED
      BY <3>3, <3>6
  <2> QED
    BY <2>1, <2>2
<1>8. Picked(t, {pos[h]}) = <<t[pos[h]]>>
  <2> HIDE DEF t
  <2>1. pos[h] \in 1..Len(t) /\ t \in Seq(Lines)
    BY <1>1, <1>5 DEF t
  <2> QED
    BY <2>1, PickedOne
<1>9. Phandles(x) = Picked(t, K)
  BY DEF Phandles
<1>10. t[pos[h]] = d[h]
  BY <1>1, PlacedNext
<1> QED
  BY <1>7, <1>8, <1>9, <1>10

LEMMA OneEntryEach ==
  ASSUME NEW d, TreeOK(d), PlainTables(d), w.lines \in Seq(Lines), NEW pos, Placed(d, w.lines, pos),
         w.begins = Positions(w.lines).begins, w.ends = Positions(w.lines).ends
  PROVE  /\ AllPhandles \in Seq(Lines) /\ Len(AllPhandles) = Len(w.begins) /\ w.begins \in Seq(Nat)
         /\ \A x \in 1..Len(w.begins) : EntryAt(d, pos, x)
         /\ \A i \in Tables(d) : \E x \in 1..Len(w.begins) : TableAt(d, pos, i, w.begins[x], w.ends[x])
<1> DEFINE n == Len(w.begins)
           s == [x \in DOMAIN w.begins |-> Phandles(x)]
           a == [x \in 1..n |-> Phandles(x)[1]]
<1>1. AllTablesAt(d, pos, Positions(w.lines))
  BY ScanFindsTables
<1>2. /\ w.begins \in Seq(Nat) /\ n \in Nat /\ DOMAIN w.begins = 1..n
      /\ \A x \in 1..n : \E i \in Tables(d) : TableAt(d, pos, i, w.begins[x], w.ends[x])
      /\ \A i \in Tables(d) : \E x \in 1..n : TableAt(d, pos, i, w.begins[x], w.ends[x])
  BY <1>1 DEF AllTablesAt
<1>3. ASSUME NEW x \in 1..n
      PROVE  \E i \in Tables(d), h \in DOMAIN d :
                 /\ TableAt(d, pos, i, w.begins[x], w.ends[x]) /\ HandlesIn(d, i) = {h}
                 /\ Phandles(x) = <<d[h]>> /\ d[h] \in Lines
  <2>1. PICK i \in Tables(d) : TableAt(d, pos, i, w.begins[x], w.ends[x])
    BY <1>2
  <2>2. PICK h \in DOMAIN d : HandlesIn(d, i) = {h}
    BY DEF PlainTables
  <2>3. Phandles(x) = <<d[h]>>
    BY <2>1, <2>2, PhandlesOfTable
  <2>4. d[h] \in Lines
    <3>1. d \in Seq(Lines)
      BY DEF TreeOK
    <3> QED
      BY <3>1
  <2> QED
    BY <2>1, <2>2, <2>3, <2>4
<1>4. ASSUME NEW x \in 1..n PROVE Phandles(x) = <<a[x]>> /\ a[x] \in Lines
  <2>1. PICK i \in Tables(d), h \in DOMAIN d : Phandles(x) = <<d[h]>> /\ d[h] \in Lines
    BY <1>3
  <2>2. a[x] = d[h]
    BY <2>1
  <2> QED
    BY <2>1, <2>2
<1>5. a \in Seq(Lines) /\ Len(a) = n
  <2>1. a \in [1..n -> Lines]
    BY <1>4
  <2> HIDE DEF a, n
  <2>2. a \in Seq(Lines)
    BY <1>2, <2>1
  <2> QED
    BY <1>2, <2>1, <2>2
<1>6. s \in Seq(Seq(Lines)) /\ Len(s) = Len(a) /\ \A x \in 1..Len(a) : s[x] = <<a[x]>>
  <2>1. ASSUME NEW x \in 1..n PROVE s[x] = <<a[x]>> /\ s[x] \in Seq(Lines)
    <3>1. s[x] = Phandles(x)
      BY <1>2
    <3>2. Phandles(x) = <<a[x]>> /\ a[x] \in Lines
      BY <1>4
    <3> HIDE DEF s, a
    <3>3. <<a[x]>> \in Seq(Lines)
      BY <3>2
    <3> QED
      BY <3>1, <3>2, <3>3
  <2>2. s \in [1..n -> Seq(Lines)]
    BY <1>2, <2>1
  <2> HIDE DEF s, a, n
  <2>3. s \in Seq(Seq(Lines)) /\ Len(s) = n
    BY <1>2, <2>2
  <2> QED
    BY <1>5, <2>1, <2>3
<1>7. AllPhandles = FlattenSeq(s)
  BY DEF AllPhandles
<1> HIDE DEF s, a
<1>8. AllPhandles = a
  BY <1>5, <1>6, <1>7, FlattenOnes
<1>9. ASSUME NEW x \in 1..n PROVE EntryAt(d, pos, x)
  <2>1. PICK i \in Tables(d), h \in DOMAIN d :
                 /\ TableAt(d, pos, i, w.begins[x], w.ends[x]) /\ HandlesIn(d, i) = {h}
                 /\ Phandles(x) = <<d[h]>>
    BY <1>3
  <2>2. a[x] = d[h]
    <3>1. <<d[h]>> = <<a[x]>>
      BY <1>4, <2>1
    <3> QED
      BY <3>1
  <2> QED
    BY <1>8, <2>1, <2>2 DEF EntryAt
<1> QED
  BY <1>2, <1>5, <1>8, <1>9

-----------------------------------------------------------------------------
(* The handles in the line of the straps.                                  *)

Round(ids, k, now) == IF w.straps[k] = Chosen THEN now ELSE [i \in DOMAIN ids |-> Substituted(w.straps[k], now[i])]
ChosenRound(ids, f, k) == f[k] = Round(ids, k, f[k - 1])

LEMMA SubstitutedType ==
  ASSUME NEW h, NEW id \in Texts
  PROVE  Substituted(h, id) \in Texts
<1>1. Zero \in Texts /\ Mangled \in Texts
  BY DEF Texts
<1>2. Substituted(h, id) \in {Zero, Mangled, id}
  BY Zenon DEF Substituted
<1> QED
  BY <1>1, <1>2

LEMMA RoundType ==
  ASSUME NEW ids \in Seq(Texts), NEW k, NEW now \in [1..Len(ids) -> Texts]
  PROVE  Round(ids, k, now) \in [1..Len(ids) -> Texts]
<1>1. DOMAIN ids = 1..Len(ids)
  OBVIOUS
<1>2. ASSUME NEW i \in 1..Len(ids) PROVE Substituted(w.straps[k], now[i]) \in Texts
  BY SubstitutedType
<1>3. [i \in DOMAIN ids |-> Substituted(w.straps[k], now[i])] \in [1..Len(ids) -> Texts]
  BY <1>1, <1>2
<1> QED
  BY <1>3 DEF Round

LEMMA OnlyChosenRounds ==
  ASSUME NEW ids \in Seq(Texts), w.straps \in Seq(Texts)
  PROVE  \E f \in [0..Len(w.straps) -> [1..Len(ids) -> Texts]] :
            /\ f[0] = ids
            /\ \A k \in 1..Len(w.straps) : ChosenRound(ids, f, k)
            /\ OnlyChosen(ids) = f[Len(w.straps)]
<1> DEFINE n == Len(w.straps)
           T == [1..Len(ids) -> Texts]
           step == [k \in 1..n |-> [now \in T |-> Round(ids, k, now)]]
           Rounds(g) == [k \in 0..n |-> IF k = 0 THEN ids ELSE Round(ids, k, g[k-1])]
           h == CHOOSE g : g = Rounds(g)
<1>1. n \in Nat /\ ids \in T
  OBVIOUS
<1>2. Loops(n, T, ids, step) # {}
  <2>1. step \in [1..n -> [T -> T]]
    <3>1. ASSUME NEW k \in 1..n, NEW now \in T PROVE Round(ids, k, now) \in T
      BY RoundType
    <3> HIDE DEF T
    <3> QED
      BY <3>1
  <2> HIDE DEF n, step, T
  <2> QED
    BY <1>1, <2>1, LoopDefined
<1>3. PICK f \in [0..n -> T] : f[0] = ids /\ \A k \in 1..n : f[k] = step[k][f[k-1]]
  <2> HIDE DEF n, step, T
  <2> QED
    BY <1>2 DEF Loops
<1>4. ASSUME NEW k \in 1..n PROVE f[k] = Round(ids, k, f[k-1])
  <2>1. f[k-1] \in T
    BY <1>1, k - 1 \in 0..n
  <2> HIDE DEF T
  <2> QED
    BY <1>3, <2>1
<1>5. f = Rounds(f)
  <2>1. ASSUME NEW k \in 0..n PROVE f[k] = IF k = 0 THEN ids ELSE Round(ids, k, f[k-1])
    <3>1. CASE k = 0
      BY <1>3, <3>1
    <3>2. CASE k # 0
      BY <1>1, <1>4, <3>2, k \in 1..n
    <3> QED
      BY <3>1, <3>2
  <2> HIDE DEF T
  <2> QED
    BY <2>1
<1> HIDE DEF T, Rounds
<1>6. h = Rounds(h)
  BY <1>5
<1>7. OnlyChosen(ids) = h[n]
  <2>1. \A g : Rounds(g) = [k \in 0..n |-> IF k = 0 THEN ids
                                         ELSE IF w.straps[k] = Chosen THEN g[k-1]
                                         ELSE [i \in DOMAIN ids |-> Substituted(w.straps[k], g[k-1][i])]]
    BY DEF Rounds, Round
  <2> QED
    BY <2>1, Zenon DEF OnlyChosen
<1> HIDE DEF h
<1>8. \A k \in 0..n : h[k] = IF k = 0 THEN ids ELSE Round(ids, k, h[k-1])
  BY <1>6 DEF Rounds
<1> DEFINE S == {k \in 0..n : h[k] = f[k]}
<1>9. 0 \in S
  BY <1>1, <1>3, <1>8, 0 \in 0..n
<1>10. ASSUME NEW k \in 0 .. n - 1, k \in S PROVE k + 1 \in S
  <2>1. k + 1 \in 1..n /\ k + 1 \in 0..n /\ (k + 1) - 1 = k /\ k + 1 # 0
    BY <1>1
  <2>2. h[k + 1] = Round(ids, k + 1, h[k])
    BY <1>8, <2>1
  <2>3. f[k + 1] = Round(ids, k + 1, f[k])
    BY <1>4, <2>1
  <2> QED
    BY <1>10, <2>1, <2>2, <2>3
<1> HIDE DEF S
<1>11. \A k \in 0..n : k \in S
  BY <1>1, <1>9, <1>10, UpToInduction
<1>12. OnlyChosen(ids) = f[n]
  BY <1>1, <1>7, <1>11 DEF S
<1>13. \A k \in 1..n : ChosenRound(ids, f, k)
  BY <1>4 DEF ChosenRound
<1> QED
  BY <1>3, <1>12, <1>13 DEF T

LEMMA OnlyChosenType ==
  ASSUME NEW ids \in Seq(Texts), w.straps \in Seq(Texts)
  PROVE  OnlyChosen(ids) \in Seq(Texts)
<1>1. OnlyChosen(ids) \in [1..Len(ids) -> Texts]
  BY OnlyChosenRounds, Len(w.straps) \in 0..Len(w.straps)
<1> QED
  BY <1>1, Len(ids) \in Nat

\* A handle is replaced once it has been its turn, and no other is.
LEMMA OnlyChosenIs ==
  ASSUME w.straps \in Seq(Texts), \A h, k \in Range(w.straps) : <<h, k>> \notin Begins
  PROVE  OnlyChosen(w.straps) = [i \in DOMAIN w.straps |-> IF w.straps[i] = Chosen THEN Chosen ELSE Zero]
<1> DEFINE ids == w.straps
           n == Len(ids)
           Gone(i, k) == ids[i] # Chosen /\ \E j \in 1..k : ids[j] = ids[i]
           Now(k) == [i \in 1..n |-> IF Gone(i, k) THEN Zero ELSE ids[i]]
<1>1. n \in Nat /\ DOMAIN ids = 1..n /\ \A i \in 1..n : ids[i] \in Range(w.straps)
  BY DEF Range
<1>2. PICK f \in [0..n -> [1..n -> Texts]] :
        f[0] = ids /\ (\A k \in 1..n : ChosenRound(ids, f, k)) /\ OnlyChosen(ids) = f[n]
  BY OnlyChosenRounds
<1> DEFINE S == {k \in 0..n : f[k] = Now(k)}
<1>3. 0 \in S
  <2>1. \A i \in 1..n : ~Gone(i, 0)
    OBVIOUS
  <2>2. Now(0) = [i \in 1..n |-> ids[i]]
    BY <2>1
  <2>3. ids = [i \in 1..n |-> ids[i]]
    <3>1. ids \in [1..n -> Texts]
      BY <1>1
    <3> HIDE DEF ids, n
    <3> QED
      BY <3>1
  <2> QED
    BY <1>1, <1>2, <2>2, <2>3
<1>4. ASSUME NEW k \in 0 .. n - 1, k \in S PROVE k + 1 \in S
  <2> DEFINE s == ids[k + 1]
  <2>1. k + 1 \in 1..n /\ k + 1 \in 0..n /\ (k + 1) - 1 = k /\ k \in 0..n
    BY <1>1
  <2>2. f[k + 1] = Round(ids, k + 1, f[k]) /\ f[k] = Now(k)
    <3>1. ChosenRound(ids, f, k + 1)
      BY <1>2, <2>1
    <3> QED
      BY <1>4, <2>1, <3>1 DEF ChosenRound
  <2>3. \A i \in 1..n : Gone(i, k + 1) <=> Gone(i, k) \/ (ids[i] # Chosen /\ s = ids[i])
    <3>1. \A j : j \in 1 .. k + 1 <=> j \in 1..k \/ j = k + 1
      BY <2>1
    <3> QED
      BY <3>1
  <2> HIDE DEF Gone
  <2>4. CASE s = Chosen
    <3>1. \A i \in 1..n : Gone(i, k + 1) <=> Gone(i, k)
      BY <2>3, <2>4
    <3>2. Now(k + 1) = Now(k)
      BY <3>1
    <3>3. f[k + 1] = f[k]
      BY <2>2, <2>4 DEF Round
    <3> QED
      BY <2>1, <2>2, <3>2, <3>3
  <2>5. CASE s # Chosen
    <3>1. f[k + 1] = [i \in 1..n |-> Substituted(s, f[k][i])]
      BY <1>1, <2>2, <2>5 DEF Round
    <3>2. ASSUME NEW i \in 1..n
          PROVE  Substituted(s, Now(k)[i]) = IF Gone(i, k + 1) THEN Zero ELSE ids[i]
      <4>1. Now(k)[i] = IF Gone(i, k) THEN Zero ELSE ids[i]
        OBVIOUS
      <4>2. <<s, ids[i]>> \notin Begins
        BY <1>1, <2>1
      <4>3. <<s, Zero>> \notin Begins
        <5>1. <<s, Zero>>[2] = Zero
          OBVIOUS
        <5> QED
          BY <5>1, BeginsAssumption
      <4> HIDE DEF Now, s
      <4>4. CASE Gone(i, k)
        BY <2>3, <4>1, <4>3, <4>4 DEF Substituted
      <4>5. CASE ~Gone(i, k) /\ s = ids[i]
        BY <2>3, <2>5, <4>1, <4>5 DEF Substituted
      <4>6. CASE ~Gone(i, k) /\ s # ids[i]
        BY <2>3, <4>1, <4>2, <4>6 DEF Substituted
      <4> QED
        BY <4>4, <4>5, <4>6
    <3>3. f[k + 1] = Now(k + 1)
      <4>1. \A i \in 1..n : Substituted(s, f[k][i]) = IF Gone(i, k + 1) THEN Zero ELSE ids[i]
        <5> HIDE DEF Now
        <5> QED
          BY <2>2, <3>2
      <4> HIDE DEF s
      <4>2. f[k + 1] = [i \in 1..n |-> IF Gone(i, k + 1) THEN Zero ELSE ids[i]]
        BY <3>1, <4>1
      <4> QED
        BY <4>2
    <3> QED
      BY <2>1, <3>3
  <2> QED
    BY <2>4, <2>5
<1>5. f[n] = Now(n)
  <2> HIDE DEF S
  <2>1. \A k \in 0..n : k \in S
    BY <1>1, <1>3, <1>4, UpToInduction
  <2>2. n \in 0..n
    BY <1>1
  <2>3. n \in S
    BY <2>1, <2>2
  <2> HIDE DEF Now
  <2> QED
    BY <2>3 DEF S
<1>6. \A i \in 1..n : Gone(i, n) <=> ids[i] # Chosen
  OBVIOUS
<1>7. Now(n) = [i \in 1..n |-> IF ids[i] = Chosen THEN Chosen ELSE Zero]
  <2> HIDE DEF Gone
  <2> QED
    BY <1>6
<1> QED
  BY <1>1, <1>2, <1>5, <1>7

-----------------------------------------------------------------------------
(* Cutting lines from the text cuts them from the tree.                    *)

\* A line of the tree replaced by one of its kind is replaced in the text.
LEMMA PlacedEdit ==
  ASSUME NEW d \in Seq(Lines), NEW t \in Seq(Lines), NEW pos, Placed(d, t, pos),
         NEW k \in 1..Len(d), NEW l \in Lines, l.kind = d[k].kind
  PROVE  /\ [d EXCEPT ![k] = l] \in Seq(Lines) /\ [t EXCEPT ![pos[k]] = l] \in Seq(Lines)
         /\ Placed([d EXCEPT ![k] = l], [t EXCEPT ![pos[k]] = l], pos)
<1> DEFINE e == [d EXCEPT ![k] = l]
           u == [t EXCEPT ![pos[k]] = l]
<1>1. pos[k] \in 1..Len(t)
  BY PlacedOrder
<1>2. /\ e \in Seq(Lines) /\ Len(e) = Len(d) /\ \A n \in 1..Len(d) : e[n] = IF n = k THEN l ELSE d[n]
      /\ u \in Seq(Lines) /\ Len(u) = Len(t) /\ \A p \in 1..Len(t) : u[p] = IF p = pos[k] THEN l ELSE t[p]
  BY <1>1, ExceptSeq
<1> HIDE DEF e, u
<1>3. ASSUME NEW n \in 1..Len(d) PROVE PlacedAt(e, u, pos, n)
  <2>1. /\ pos[n] \in Nat /\ pos[n - 1] \in Nat /\ Width(d, n) \in {1, 2}
        /\ pos[n] = pos[n - 1] + Width(d, n) /\ t[pos[n]] = d[n]
        /\ Width(d, n) = 2 => t[pos[n] - 1] = Blank
    BY SMTT(30), PlacedNext
  <2>2. Width(e, n) = Width(d, n)
    <3>1. e[n].kind = d[n].kind
      BY <1>2
    <3> QED
      BY <3>1 DEF Width
  <2>3. n \in 0..Len(d) /\ n - 1 \in 0..Len(d) /\ k \in 0..Len(d)
    OBVIOUS
  <2>4. pos[n] = pos[k] <=> n = k
    <3>1. n <= k <=> pos[n] <= pos[k]
      BY <2>3, PlacedOrder
    <3>2. k <= n <=> pos[k] <= pos[n]
      BY <2>3, PlacedOrder
    <3> QED
      BY <1>1, <2>1, <3>1, <3>2
  <2>5. u[pos[n]] = e[n]
    <3>1. pos[n] \in 1..Len(t)
      BY PlacedOrder
    <3> QED
      BY <1>2, <2>1, <2>4, <3>1
  <2>6. ASSUME Width(d, n) = 2 PROVE u[pos[n] - 1] = Blank
    <3>1. pos[n] - 1 \in 1..Len(t)
      BY <2>6, DepthOfBlank
    <3>2. pos[n] - 1 # pos[k]
      <4>1. k <= n - 1 <=> pos[k] <= pos[n - 1]
        BY <2>3, PlacedOrder
      <4>2. n <= k <=> pos[n] <= pos[k]
        BY <2>3, PlacedOrder
      <4>3. pos[k] \in Nat /\ (k <= n - 1 \/ n <= k)
        BY <1>1
      <4> QED
        BY <2>1, <2>6, <4>1, <4>2, <4>3
    <3> QED
      BY <1>2, <2>1, <2>6, <3>1, <3>2
  <2> QED
    BY <2>1, <2>2, <2>5, <2>6 DEF PlacedAt
<1>4. Placed(e, u, pos)
  BY <1>2, <1>3 DEF Placed
<1> QED
  BY <1>2, <1>4 DEF e, u

\* What is picked of the text, without blank lines, is what is picked of the tree.
PlacesIn(d, pos, K) == {n \in 1..Len(d) : pos[n] \in K}

LEMMA CutOfTree ==
  ASSUME NEW d \in Seq(Lines), \A n \in 1..Len(d) : d[n].kind # "blank",
         NEW t \in Seq(Lines), NEW pos, Placed(d, t, pos), NEW K
  PROVE  NoBlanks(Picked(t, K)) = Picked(d, PlacesIn(d, pos, K))
<1> DEFINE N == Len(d)
           P(p) == PickedTo(t, K, p)
           L == PlacesIn(d, pos, K)
           Q(n) == PickedTo(d, L, n)
           S == {n \in 0..N : NoBlanks(P(pos[n])) = Q(n)}
<1>1. N \in Nat /\ pos \in [0..N -> Nat] /\ pos[0] = 0 /\ pos[N] = Len(t)
  BY DEF Placed
<1>2. NoBlanks(<<>>) = <<>>
  <2>1. <<>> \in Seq(Lines) /\ Len(<<>>) = 0
    OBVIOUS
  <2>2. \A J : Picked(<<>>, J) = <<>>
    <3>1. ASSUME NEW J PROVE Picked(<<>>, J) = <<>>
      <4>1. PickedTo(<<>>, J, 0) = <<>> /\ PickedTo(<<>>, J, Len(<<>>)) = Picked(<<>>, J)
        BY <2>1, PickedRounds
      <4> QED
        BY <2>1, <4>1
    <3> QED
      BY <3>1
  <2> QED
    BY <2>2 DEF NoBlanks
<1>3. P(0) = <<>> /\ Q(0) = <<>> /\ P(Len(t)) = Picked(t, K) /\ Q(N) = Picked(d, L)
  BY PickedRounds
<1>4. \A p \in 0..Len(t) : P(p) \in Seq(Lines)
  BY PickedRounds
<1>5. ASSUME NEW p \in 1..Len(t) PROVE P(p) = IF p \in K THEN Append(P(p - 1), t[p]) ELSE P(p - 1)
  <2>1. PickedRound(t, K, p)
    BY PickedRounds
  <2> QED
    BY <2>1 DEF PickedRound
<1>6. ASSUME NEW n \in 1..N PROVE Q(n) = IF n \in L THEN Append(Q(n - 1), d[n]) ELSE Q(n - 1)
  <2>1. PickedRound(d, L, n)
    BY PickedRounds
  <2> QED
    BY <2>1 DEF PickedRound
<1>7. \A n \in 1..N : n \in L <=> pos[n] \in K
  BY DEF PlacesIn
<1> HIDE DEF P, Q, L
<1>8. 0 \in S
  BY <1>1, <1>2, <1>3
<1>9. ASSUME NEW n \in 0 .. N - 1, n \in S PROVE n + 1 \in S
  <2> DEFINE m == n + 1
             p == pos[m]
  <2>1. m \in 1..N /\ m \in 0..N /\ m - 1 = n
    BY <1>1
  <2>2. /\ p \in 1..Len(t) /\ pos[n] \in Nat /\ Width(d, m) \in {1, 2}
        /\ p = pos[n] + Width(d, m) /\ t[p] = d[m]
        /\ Width(d, m) = 2 => t[p - 1] = Blank
    <3>1. p \in 1..Len(t)
      BY <2>1, PlacedOrder
    <3>2. /\ pos[m - 1] \in Nat /\ Width(d, m) \in {1, 2}
          /\ p = pos[m - 1] + Width(d, m) /\ t[p] = d[m]
          /\ Width(d, m) = 2 => t[p - 1] = Blank
      BY <2>1, PlacedNext
    <3> QED
      BY <2>1, <3>1, <3>2
  <2>3. d[m] \in Lines /\ d[m].kind # "blank"
    BY <2>1
  <2>4. NoBlanks(P(p - 1)) = Q(n) /\ P(p - 1) \in Seq(Lines)
    <3>1. CASE Width(d, m) = 1
      <4>1. p - 1 = pos[n]
        BY <2>2, <3>1
      <4>2. p - 1 \in 0..Len(t)
        BY <2>2
      <4> QED
        BY <1>4, <1>9, <4>1, <4>2
    <3>2. CASE Width(d, m) = 2
      <4>1. p - 1 \in 1..Len(t) /\ (p - 1) - 1 = pos[n] /\ p - 1 \in 0..Len(t) /\ pos[n] \in 0..Len(t)
        BY SMTT(30), <2>2, <3>2
      <4>2. P(p - 1) = IF p - 1 \in K THEN Append(P(pos[n]), Blank) ELSE P(pos[n])
        <5>1. P(p - 1) = IF p - 1 \in K THEN Append(P((p - 1) - 1), t[p - 1]) ELSE P((p - 1) - 1)
          BY <1>5, <4>1
        <5> QED
          BY <2>2, <3>2, <4>1, <5>1
      <4>3. P(pos[n]) \in Seq(Lines) /\ NoBlanks(P(pos[n])) = Q(n)
        BY <1>4, <1>9, <4>1
      <4>4. NoBlanks(Append(P(pos[n]), Blank)) = NoBlanks(P(pos[n]))
        BY <4>3, BlankLine, NoBlanksAppend
      <4>5. P(p - 1) \in Seq(Lines)
        BY <1>4, <4>1
      <4> QED
        BY <4>2, <4>3, <4>4, <4>5
    <3> QED
      BY <2>2, <3>1, <3>2
  <2>5. NoBlanks(Append(P(p - 1), d[m])) = Append(NoBlanks(P(p - 1)), d[m])
    BY <2>3, <2>4, NoBlanksAppend
  <2>6. P(p) = IF p \in K THEN Append(P(p - 1), d[m]) ELSE P(p - 1)
    <3>1. P(p) = IF p \in K THEN Append(P(p - 1), t[p]) ELSE P(p - 1)
      BY <1>5, <2>2
    <3> QED
      BY <2>2, <3>1
  <2>7. Q(m) = IF p \in K THEN Append(Q(n), d[m]) ELSE Q(n)
    <3>1. Q(m) = IF m \in L THEN Append(Q(m - 1), d[m]) ELSE Q(m - 1)
      BY <1>6, <2>1
    <3> QED
      BY <1>7, <2>1, <3>1
  <2>8. NoBlanks(P(p)) = Q(m)
    BY <2>4, <2>5, <2>6, <2>7
  <2> QED
    BY <2>1, <2>8
<1> HIDE DEF S
<1>10. \A n \in 0..N : n \in S
  BY <1>1, <1>8, <1>9, UpToInduction
<1>11. NoBlanks(P(pos[N])) = Q(N)
  BY <1>1, <1>10, N \in 0..N DEF S
<1> QED
  BY <1>1, <1>3, <1>11 DEF L

\* The lines of the tables in out.
LinesOf(d, out) == {n \in DOMAIN d : \E i \in out : i <= n /\ n <= LastOf(d, i)}
SameKinds(d, e) == e \in Seq(Lines) /\ Len(e) = Len(d) /\ \A n \in 1..Len(d) : e[n].kind = d[n].kind

LEMMA LinesOfTable ==
  ASSUME NEW d, TreeOK(d), PlainTables(d), NEW i \in Tables(d)
  PROVE  /\ i \in 1..Len(d) /\ LastOf(d, i) \in i + 1 .. Len(d) - 1
         /\ Depth(d, i) = 2 /\ Change(d[i]) = 1 /\ Depth(d, LastOf(d, i)) = 1
         /\ d[LastOf(d, i) + 1].kind \in Opens \/ LastOf(d, i) + 1 = Len(d)
<1>1. EndsAt(d, i, LastOf(d, i))
  BY LastOfTable DEF PlainTables
<1>2. d \in Seq(Lines) /\ d[i].kind = "table"
  BY DEF TreeOK, Tables
<1>3. Change(d[i]) = 1
  BY <1>2 DEF Change, Opens
<1> QED
  BY <1>1, <1>2, <1>3 DEF EndsAt, Tables, PlainTables

\* Without whole tables as many nodes are open as in the tree, or one in place of
\* a table, as long as the last line is not looked at.
LEMMA DepthOfCut ==
  ASSUME NEW d, TreeOK(d), PlainTables(d), NEW out \in SUBSET Tables(d), NEW e, SameKinds(d, e),
         NEW K, \A n \in 1 .. Len(d) - 1 : n \in K <=> n \notin LinesOf(d, out)
  PROVE  \A n \in 0 .. Len(d) - 1 : Net(PickedTo(e, K, n)) = IF n \in LinesOf(d, out) THEN 1 ELSE Depth(d, n)
<1> DEFINE N == Len(d)
           O == LinesOf(d, out)
           C(n) == Net(PickedTo(e, K, n))
           S == {n \in 0 .. N - 1 : C(n) = IF n \in O THEN 1 ELSE Depth(d, n)}
<1>1. /\ d \in Seq(Lines) /\ N \in Nat /\ DOMAIN d = 1..N /\ d # <<>> /\ e \in Seq(Lines) /\ Len(e) = N
      /\ \A n \in 1..N : e[n].kind = d[n].kind
  BY DEF TreeOK, WellFormed, NoText, SameKinds
<1>2. N - 1 \in Nat
  BY <1>1
<1>3. \A n \in 1..N : Depth(d, n) = Depth(d, n - 1) + Change(d[n]) /\ Depth(d, n - 1) \in Int
  <2>1. ASSUME NEW n \in 1..N PROVE Depth(d, n) = Depth(d, n - 1) + Change(d[n]) /\ Depth(d, n - 1) \in Int
    <3>1. DepthRound(d, n) /\ Depth(d, n - 1) \in Int
      BY <1>1, DepthRounds, n - 1 \in 0..N
    <3> QED
      BY <3>1 DEF DepthRound
  <2> QED
    BY <2>1
<1>4. ASSUME NEW n \in 1..N
      PROVE  C(n) = (IF n \in K THEN C(n - 1) + Change(d[n]) ELSE C(n - 1)) /\ C(n - 1) \in Int
  <2> DEFINE a == PickedTo(e, K, n - 1)
  <2>1. a \in Seq(Lines) /\ e[n] \in Lines
    <3>1. n - 1 \in 0..Len(e) /\ n \in 1..Len(e)
      BY <1>1
    <3>2. \A p \in 0..Len(e) : PickedTo(e, K, p) \in Seq(Lines)
      BY <1>1, PickedRounds
    <3>3. e[n] \in Lines
      BY <1>1, <3>1
    <3> QED
      BY <3>1, <3>2, <3>3
  <2>2. PickedTo(e, K, n) = IF n \in K THEN Append(a, e[n]) ELSE a
    <3>1. PickedRound(e, K, n)
      BY <1>1, PickedRounds
    <3> QED
      BY <3>1 DEF PickedRound
  <2>3. Change(e[n]) = Change(d[n])
    BY <1>1 DEF Change
  <2> HIDE DEF a
  <2>4. Net(a) \in Int /\ Net(Append(a, e[n])) = Net(a) + Change(e[n])
    BY <2>1, NetAppend
  <2> QED
    BY <2>2, <2>3, <2>4 DEF a
<1>5. C(0) = 0
  <2>1. PickedTo(e, K, 0) = <<>>
    BY <1>1, PickedRounds
  <2> QED
    BY <2>1, NetNothing
<1>6. Depth(d, 0) = 0
  BY <1>1, DepthRounds
<1> DEFINE L(i) == LastOf(d, i)
<1>7. ASSUME NEW i \in out
      PROVE  /\ i \in 1..N /\ L(i) \in Nat /\ i < L(i) /\ L(i) <= N - 1
             /\ Depth(d, i) = 2 /\ Change(d[i]) = 1 /\ Depth(d, L(i)) = 1
  <2>1. i \in Tables(d)
    OBVIOUS
  <2>2. i \in 1..N /\ L(i) \in i + 1 .. N - 1 /\ Depth(d, i) = 2 /\ Change(d[i]) = 1 /\ Depth(d, L(i)) = 1
    BY <2>1, LinesOfTable
  <2> HIDE DEF L
  <2> QED
    BY <1>1, <2>2
<1>8. \A n : n \in O <=> n \in 1..N /\ \E i \in out : i <= n /\ n <= L(i)
  BY <1>1 DEF LinesOf
<1> HIDE DEF C, O, L
<1>9. 0 \in S
  BY <1>2, <1>5, <1>6, <1>8
<1>10. ASSUME NEW n \in 0 .. (N - 1) - 1, n \in S PROVE n + 1 \in S
  <2>1. n + 1 \in 1..N /\ n + 1 \in 1 .. N - 1 /\ n + 1 \in 0 .. N - 1 /\ (n + 1) - 1 = n /\ n \in Nat
    BY <1>1, <1>2
  <2>2. C(n + 1) = (IF n + 1 \in K THEN C(n) + Change(d[n + 1]) ELSE C(n)) /\ C(n) \in Int
    BY <1>4, <2>1
  <2>3. Depth(d, n + 1) = Depth(d, n) + Change(d[n + 1]) /\ Depth(d, n) \in Int
    BY <1>3, <2>1
  <2>4. C(n) = IF n \in O THEN 1 ELSE Depth(d, n)
    BY <1>10
  <2>5. n + 1 \in K <=> n + 1 \notin O
    BY <2>1 DEF O
  <2>6. CASE n + 1 \in O
    <3>1. PICK i \in out : i <= n + 1 /\ n + 1 <= L(i)
      BY <1>8, <2>6
    <3>2. CASE i = n + 1
      <4>1. Depth(d, n) = 1
        <5>1. Depth(d, n + 1) = 2 /\ Change(d[n + 1]) = 1
          BY <1>7, <3>2
        <5> QED
          BY <2>3, <5>1
      <4> QED
        BY <2>1, <2>2, <2>4, <2>5, <2>6, <4>1
    <3>3. CASE i # n + 1
      <4>1. i <= n /\ n <= L(i) /\ n \in 1..N
        BY <1>1, <1>7, <2>1, <3>1, <3>3
      <4>2. n \in O
        BY <1>8, <4>1
      <4> QED
        BY <2>1, <2>2, <2>4, <2>5, <2>6, <4>2
    <3> QED
      BY <3>2, <3>3
  <2>7. CASE n + 1 \notin O
    <3>1. C(n) = Depth(d, n)
      <4>1. CASE n \in O
        <5>1. PICK i \in out : i <= n /\ n <= L(i)
          BY <1>8, <4>1
        <5>2. ~(n + 1 <= L(i))
          BY SMTT(30), <1>7, <1>8, <2>1, <2>7, <5>1
        <5>3. n = L(i)
          BY <1>7, <2>1, <5>1, <5>2
        <5> QED
          BY <1>7, <2>4, <4>1, <5>3
      <4> QED
        BY <2>4, <4>1
    <3> QED
      BY <2>1, <2>2, <2>3, <2>5, <2>7, <3>1
  <2> QED
    BY <2>6, <2>7
<1> HIDE DEF S
<1>11. \A n \in 0 .. N - 1 : n \in S
  BY <1>2, <1>9, <1>10, UpToInduction
<1> QED
  BY <1>11 DEF S, C, O

\* A cut that takes the last line too leaves a node open.
LEMMA CutTooFar ==
  ASSUME NEW d, TreeOK(d), PlainTables(d), NEW out \in SUBSET Tables(d), NEW e, SameKinds(d, e),
         NEW K, \A n \in 1 .. Len(d) - 1 : n \in K <=> n \notin LinesOf(d, out),
         Len(d) \notin K, Len(d) - 1 \in LinesOf(d, out)
  PROVE  ~WellFormed(Picked(e, K))
<1> DEFINE N == Len(d)
           a == Picked(e, K)
<1>1. N \in Nat /\ d # <<>> /\ N \in 1..N /\ e \in Seq(Lines) /\ Len(e) = N
  BY DEF TreeOK, WellFormed, NoText, SameKinds
<1>2. N - 1 \in 0 .. N - 1
  BY <1>1
<1>3. Net(PickedTo(e, K, N - 1)) = 1
  BY <1>2, DepthOfCut
<1>4. PickedTo(e, K, N) = PickedTo(e, K, N - 1) /\ PickedTo(e, K, N) = a
  <2>1. PickedRound(e, K, N) /\ PickedTo(e, K, N) = a
    BY <1>1, PickedRounds
  <2> QED
    BY <2>1 DEF PickedRound
<1>5. a \in Seq(Lines)
  BY <1>1, PickedType
<1>6. Depth(a, Len(a)) = 1
  BY <1>3, <1>4 DEF Net
<1> HIDE DEF a
<1>7. ASSUME WellFormed(a) PROVE FALSE
  <2>1. Len(a) \in DOMAIN a
    BY <1>5, <1>7 DEF WellFormed, NoText
  <2>2. Depth(a, Len(a)) = 0
    BY <1>7, <2>1 DEF WellFormed
  <2> QED
    BY <1>6, <2>2
<1> QED
  BY <1>7 DEF a

-----------------------------------------------------------------------------
(* The call, from the text to the tree.                                    *)

\* The first line that is a strap's.
FirstStrap(t) == SelectInSeq(t, LAMBDA l : l.kind = "strap")

LEMMA FirstStrapIs ==
  ASSUME NEW t, NEW s \in 1..Len(t), \A j \in 1..Len(t) : t[j].kind = "strap" <=> j = s
  PROVE  FirstStrap(t) = s
<1> DEFINE I == {i \in 1..Len(t) : t[i].kind = "strap"}
<1>1. I = {s}
  OBVIOUS
<1>2. FirstStrap(t) = IF I # {} THEN Min(I) ELSE 0
  BY DEF FirstStrap, SelectInSeq
<1>3. Min({s}) = s
  <2>1. s <= s
    OBVIOUS
  <2>2. \A x \in {s} : x = s
    OBVIOUS
  <2> QED
    BY <2>1, <2>2 DEF Min
<1> HIDE DEF I
<1> QED
  BY <1>1, <1>2, <1>3

\* What the functions have found when lines are about to be left out.
StrapsFound == Straps # 0 /\ w.at = Straps + 1 /\ w.straps = w.lines[w.at].ids
TablesFound == w.begins = Positions(w.lines).begins /\ w.ends = Positions(w.lines).ends
EntriesFound == w.valid = IF HasStrap THEN ValidEntries ELSE <<>>

StrapAt(d, s) == s + 1 \in DOMAIN d /\ \A j \in DOMAIN d : (d[j].kind = "strap" <=> j = s) /\ (d[j].kind = "select" <=> j = s + 1)

LEMMA StrapsAre ==
  ASSUME NEW d, TreeOK(d), NEW s \in DOMAIN d, StrapAt(d, s),
         w.lines \in Seq(Lines), NEW pos, Placed(d, w.lines, pos), StrapsFound
  PROVE  StrapsOf(d) = d[s + 1].ids /\ w.straps = d[s + 1].ids /\ w.at = pos[s + 1] /\ w.at \in 1..Len(w.lines)
<1> DEFINE t == w.lines
<1>1. d \in Seq(Lines) /\ Len(d) \in Nat /\ DOMAIN d = 1..Len(d) /\ s \in 1..Len(d) /\ s + 1 \in 1..Len(d)
  BY DEF TreeOK, StrapAt
<1>2. FirstStrap(d) = s
  BY <1>1, FirstStrapIs DEF StrapAt
<1>3. StrapsOf(d) = d[s + 1].ids
  BY <1>2 DEF StrapsOf, FirstStrap
<1>4. pos[s] \in 1..Len(t) /\ pos[s + 1] \in 1..Len(t) /\ t[pos[s]] = d[s] /\ t[pos[s + 1]] = d[s + 1]
  BY <1>1, PlacedOrder, PlacedNext
<1>5. ASSUME NEW p \in 1..Len(t) PROVE t[p].kind = "strap" <=> p = pos[s]
  <2>1. d[s].kind = "strap"
    BY <1>1 DEF StrapAt
  <2>2. ASSUME t[p].kind = "strap" PROVE p = pos[s]
    <3>1. PICK n \in 1..Len(d) : p = pos[n] /\ t[p] = d[n]
      BY <2>2, TextLine
    <3>2. n = s
      BY <1>1, <2>2, <3>1 DEF StrapAt
    <3> QED
      BY <3>1, <3>2
  <2> QED
    BY <1>4, <2>1, <2>2
<1>6. FirstStrap(t) = pos[s]
  <2> HIDE DEF t
  <2> QED
    BY <1>4, <1>5, FirstStrapIs
<1>7. pos[s + 1] = pos[s] + 1
  <2>1. d[s + 1].kind = "select"
    BY <1>1 DEF StrapAt
  <2>2. Width(d, s + 1) = 1
    BY <2>1 DEF Width, Opens
  <2>3. pos[s + 1] = pos[(s + 1) - 1] + Width(d, s + 1)
    BY <1>1, PlacedNext
  <2>4. (s + 1) - 1 = s
    BY <1>1
  <2> QED
    BY <2>2, <2>3, <2>4
<1>8. w.at = pos[s + 1]
  BY <1>6, <1>7 DEF StrapsFound, Straps, FirstStrap
<1> QED
  BY <1>3, <1>4, <1>8 DEF StrapsFound

\* The tables that go, and the tree with the line of the straps that stays.
OutOf(d, chosen) == {i \in Tables(d) : \A j \in HandlesIn(d, i) : d[j].ids[1] # chosen}
SelectOf(d, chosen) == [i \in DOMAIN StrapsOf(d) |-> IF StrapsOf(d)[i] = chosen THEN chosen ELSE Zero]
EditedTree(d, s, chosen) == [d EXCEPT ![s + 1] = [d[s + 1] EXCEPT !.ids = SelectOf(d, chosen)]]

LEMMA ReferenceIs ==
  ASSUME NEW d, TreeOK(d), PlainTables(d), NEW s \in DOMAIN d, StrapAt(d, s), NEW r, StrapsOf(d) = d[s + 1].ids
  PROVE  Reference(d, r) = Picked(EditedTree(d, s, StrapsOf(d)[r + 1]),
                                  {n \in DOMAIN d : n \notin LinesOf(d, OutOf(d, StrapsOf(d)[r + 1]))})
<1> DEFINE chosen == StrapsOf(d)[r + 1]
           out == OutOf(d, chosen)
           line(n) == IF d[n].kind = "select"
                      THEN [d[n] EXCEPT !.ids = [i \in DOMAIN @ |-> IF @[i] = chosen THEN chosen ELSE Zero]]
                      ELSE d[n]
<1>1. d \in Seq(Lines) /\ Len(d) \in Nat /\ DOMAIN d = 1..Len(d)
  BY DEF TreeOK
<1>2. Reference(d, r) = Picked([n \in DOMAIN d |-> line(n)], {n \in DOMAIN d : \A i \in out : n < i \/ n > LastOf(d, i)})
  BY DEF Reference, OutOf
<1>3. ASSUME NEW n \in DOMAIN d PROVE line(n) = EditedTree(d, s, chosen)[n]
  <2>1. d[n].kind = "select" <=> n = s + 1
    BY DEF StrapAt
  <2>2. CASE n = s + 1
    <3>1. line(n) = [d[n] EXCEPT !.ids = SelectOf(d, chosen)]
      BY <2>1, <2>2 DEF SelectOf
    <3>2. EditedTree(d, s, chosen)[n] = [d[n] EXCEPT !.ids = SelectOf(d, chosen)]
      BY <2>2 DEF EditedTree
    <3> QED
      BY <3>1, <3>2
  <2>3. CASE n # s + 1
    BY <2>1, <2>3 DEF EditedTree
  <2> QED
    BY <2>2, <2>3
<1>4. [n \in DOMAIN d |-> line(n)] = EditedTree(d, s, chosen)
  <2>1. EditedTree(d, s, chosen) = [n \in DOMAIN d |-> EditedTree(d, s, chosen)[n]]
    BY DEF EditedTree
  <2> HIDE DEF line
  <2> QED
    BY <1>3, <2>1
<1>5. {n \in DOMAIN d : \A i \in out : n < i \/ n > LastOf(d, i)} = {n \in DOMAIN d : n \notin LinesOf(d, out)}
  <2>1. ASSUME NEW n \in DOMAIN d, NEW i \in out PROVE ~(i <= n /\ n <= LastOf(d, i)) <=> n < i \/ n > LastOf(d, i)
    <3>1. i \in Tables(d)
      BY DEF OutOf
    <3>2. i \in 1..Len(d) /\ LastOf(d, i) \in i + 1 .. Len(d) - 1
      BY <3>1, LinesOfTable
    <3>3. n \in Nat /\ i \in Nat /\ LastOf(d, i) \in Nat
      BY <1>1, <3>2
    <3> QED
      BY <3>3
  <2> HIDE DEF out
  <2> QED
    BY <2>1 DEF LinesOf
<1> QED
  BY <1>2, <1>4, <1>5

\* No table is without an entry, and the lines left out of the text are those of
\* the tables that go, and the line after each.
LeftOutAre(d, pos, chosen) ==
    \A p \in Nat : LeftOut(p) <=> \E i \in OutOf(d, chosen) : pos[i] <= p /\ p <= pos[LastOf(d, i)] + 1

LEMMA LeftOutIs ==
  ASSUME NEW d, TreeOK(d), PlainTables(d), w.lines \in Seq(Lines), NEW pos, Placed(d, w.lines, pos),
         TablesFound, EntriesFound, HasStrap
  PROVE  (\A p \in Nat : ~Stops(p)) /\ LeftOutAre(d, pos, Chosen)
<1> DEFINE n == Len(w.begins)
<1>1. /\ AllPhandles \in Seq(Lines) /\ Len(AllPhandles) = n /\ w.begins \in Seq(Nat)
      /\ \A x \in 1..n : EntryAt(d, pos, x)
      /\ \A i \in Tables(d) : \E x \in 1..n : TableAt(d, pos, i, w.begins[x], w.ends[x])
  BY OneEntryEach DEF TablesFound
<1>2. n \in Nat /\ DOMAIN w.begins = 1..n /\ DOMAIN AllPhandles = 1..n
  BY <1>1
<1>3. /\ Len(w.valid) = n
      /\ \A x \in 1..n : w.valid[x] = (AllPhandles[x].ids[1] = Chosen)
  <2>1. w.valid = [x \in 1..n |-> AllPhandles[x].ids[1] = Chosen]
    BY <1>2 DEF EntriesFound, ValidEntries
  <2> HIDE DEF n
  <2>2. Len([x \in 1..n |-> AllPhandles[x].ids[1] = Chosen]) = n
    BY <1>2
  <2> QED
    BY <2>1, <2>2
<1>4. \A x \in 1..n : HasEntry(x)
  BY <1>3 DEF HasEntry
<1>5. \A p \in Nat : ~Stops(p)
  BY <1>2, <1>4 DEF Stops
<1>6. \A p \in Nat : LeftOut(p) <=> \E x \in 1..n : InTable(p, x) /\ ~w.valid[x]
  BY <1>2, <1>4 DEF LeftOut
<1>7. ASSUME NEW x \in 1..n, NEW i, TableAt(d, pos, i, w.begins[x], w.ends[x])
      PROVE  ~w.valid[x] <=> i \in OutOf(d, Chosen)
  <2>1. PICK j \in Tables(d), h \in DOMAIN d :
          TableAt(d, pos, j, w.begins[x], w.ends[x]) /\ HandlesIn(d, j) = {h} /\ AllPhandles[x] = d[h]
    BY <1>1 DEF EntryAt
  <2>2. i = j
    <3>1. i \in Tables(d) /\ pos[i] = pos[j]
      BY <1>7, <2>1 DEF TableAt
    <3>2. d \in Seq(Lines) /\ i \in 0..Len(d) /\ j \in 0..Len(d)
      BY <2>1, <3>1 DEF Tables, TreeOK
    <3>3. pos[i] \in Nat
      BY <3>2 DEF Placed
    <3>4. (i <= j <=> pos[i] <= pos[j]) /\ (j <= i <=> pos[j] <= pos[i])
      BY <3>2, PlacedOrder
    <3> QED
      BY <3>1, <3>2, <3>3, <3>4
  <2>3. w.valid[x] = (d[h].ids[1] = Chosen)
    BY <1>3, <2>1
  <2>4. i \in OutOf(d, Chosen) <=> d[h].ids[1] # Chosen
    BY <2>1, <2>2 DEF OutOf
  <2> QED
    BY <2>3, <2>4
<1>8. ASSUME NEW p \in Nat
      PROVE  LeftOut(p) <=> \E i \in OutOf(d, Chosen) : pos[i] <= p /\ p <= pos[LastOf(d, i)] + 1
  <2>1. ASSUME NEW x, NEW i, TableAt(d, pos, i, w.begins[x], w.ends[x])
        PROVE  InTable(p, x) <=> pos[i] <= p /\ p <= pos[LastOf(d, i)] + 1
    <3>1. w.begins[x] = pos[i] /\ w.ends[x] = pos[LastOf(d, i)] + 1 /\ i \in Tables(d)
      BY <2>1 DEF TableAt
    <3>2. pos[i] \in Nat
      BY <3>1 DEF Tables, TreeOK, Placed
    <3> QED
      BY <3>1, <3>2 DEF InTable
  <2>2. ASSUME LeftOut(p)
        PROVE  \E i \in OutOf(d, Chosen) : pos[i] <= p /\ p <= pos[LastOf(d, i)] + 1
    <3>1. PICK x \in 1..n : InTable(p, x) /\ ~w.valid[x]
      BY <1>6, <2>2
    <3>2. PICK i \in Tables(d) : TableAt(d, pos, i, w.begins[x], w.ends[x])
      BY <1>1 DEF EntryAt
    <3> QED
      BY <1>7, <2>1, <3>1, <3>2
  <2>3. ASSUME NEW i \in OutOf(d, Chosen), pos[i] <= p, p <= pos[LastOf(d, i)] + 1
        PROVE  LeftOut(p)
    <3>1. i \in Tables(d)
      BY DEF OutOf
    <3>2. PICK x \in 1..n : TableAt(d, pos, i, w.begins[x], w.ends[x])
      BY <1>1, <3>1
    <3> QED
      BY <1>6, <1>7, <2>1, <2>3, <3>2
  <2> QED
    BY <2>2, <2>3
<1> QED
  BY <1>5, <1>8 DEF LeftOutAre

\* Which lines of the tree the ones left out of the text are.
LEMMA CutLines ==
  ASSUME NEW d, TreeOK(d), PlainTables(d), NEW t \in Seq(Lines), NEW pos, Placed(d, t, pos),
         NEW i \in Tables(d), NEW n \in 1..Len(d)
  PROVE  /\ n <= LastOf(d, i) => pos[n] <= pos[LastOf(d, i)] + 1
         /\ pos[n] <= pos[LastOf(d, i)] + 1 => n <= LastOf(d, i) \/ (n = Len(d) /\ LastOf(d, i) = Len(d) - 1)
<1> DEFINE j == LastOf(d, i)
           N == Len(d)
<1>1. d \in Seq(Lines) /\ N \in Nat
  BY DEF TreeOK
<1>2. j \in 1 .. N - 1 /\ (d[j + 1].kind \in Opens \/ j + 1 = N)
  <2>1. i \in 1..N /\ j \in i + 1 .. N - 1 /\ (d[j + 1].kind \in Opens \/ j + 1 = N)
    BY LinesOfTable
  <2> HIDE DEF j
  <2> QED
    BY <1>1, <2>1
<1> HIDE DEF j
<1>3. j \in 0..N /\ j + 1 \in 1..N /\ j + 1 \in 0..N /\ n \in 0..N /\ (j + 1) - 1 = j /\ j + 1 > 1
  BY <1>1, <1>2
<1>4. pos[n] \in Nat /\ pos[j] \in Nat /\ pos[j + 1] = pos[j] + Width(d, j + 1)
  <2>1. pos[n] \in Nat /\ pos[j] \in Nat
    BY <1>3 DEF Placed
  <2>2. pos[j + 1] = pos[(j + 1) - 1] + Width(d, j + 1)
    BY <1>1, <1>3, PlacedNext
  <2> QED
    BY <1>3, <2>1, <2>2
<1>5. n <= j => pos[n] <= pos[j] + 1
  <2>1. n <= j <=> pos[n] <= pos[j]
    BY <1>1, <1>3, PlacedOrder
  <2> QED
    BY <1>4, <2>1
<1>6. ASSUME pos[n] <= pos[j] + 1, ~(n <= j) PROVE n = N /\ j = N - 1
  <2>1. n = j + 1
    <3>1. ASSUME j + 1 < n PROVE FALSE
      <4>1. pos[j + 1] + Width(d, n) <= pos[n] /\ Width(d, n) \in {1, 2} /\ Width(d, j + 1) \in {1, 2}
        BY <1>1, <1>3, <3>1, PlacedOrder, PlacedNext
      <4> QED
        BY <1>4, <1>6, <4>1
    <3> QED
      BY <1>3, <1>6, <3>1
  <2>2. ASSUME d[j + 1].kind \in Opens PROVE FALSE
    <3>1. Width(d, j + 1) = 2
      BY <1>3, <2>2 DEF Width
    <3> QED
      BY <1>4, <1>6, <2>1, <3>1
  <2> QED
    BY <1>1, <1>2, <2>1, <2>2
<1> QED
  BY <1>5, <1>6 DEF j

Edited == [w.lines EXCEPT ![w.at].ids = OnlyChosen(@)]

LEMMA WrittenType ==
  ASSUME w.lines \in Seq(Lines), StrapsFound
  PROVE  Written(Edited) \in Seq(Lines)
<1>1. Edited \in Seq(Lines)
  <2>1. CASE w.at \in 1..Len(w.lines)
    <3> DEFINE l == [w.lines[w.at] EXCEPT !.ids = OnlyChosen(w.lines[w.at].ids)]
    <3>1. w.lines[w.at] \in Lines /\ w.lines[w.at].ids \in Seq(Texts) /\ w.straps \in Seq(Texts)
      <4>1. w.lines[w.at] \in Lines
        BY <2>1
      <4> QED
        BY <4>1 DEF Lines, StrapsFound
    <3>2. OnlyChosen(w.lines[w.at].ids) \in Seq(Texts)
      BY <3>1, OnlyChosenType
    <3>3. l \in Lines
      BY <3>1, <3>2 DEF Lines
    <3>4. Edited = [w.lines EXCEPT ![w.at] = l]
      BY DEF Edited
    <3> HIDE DEF l
    <3> QED
      BY <2>1, <3>3, <3>4
  <2>2. CASE w.at \notin 1..Len(w.lines)
    <3>1. DOMAIN w.lines = 1..Len(w.lines)
      OBVIOUS
    <3>2. Edited = w.lines
      BY <2>2, <3>1 DEF Edited
    <3> QED
      BY <3>2
  <2> QED
    BY <2>1, <2>2
<1> QED
  BY <1>1, PickedType DEF Written

LEMMA WrittenIsReference ==
  ASSUME NEW d, TreeOK(d), Plain(d, ram), ram \in Nat, w.lines = Decompiled(d),
         StrapsFound, TablesFound, EntriesFound, HasStrap, Parses(Written(Edited))
  PROVE  NoBlanks(Written(Edited)) = Reference(d, ram)
<1> DEFINE N == Len(d)
           t == w.lines
<1>1. d \in Seq(Lines) /\ N \in Nat /\ DOMAIN d = 1..N /\ N \in 1..N /\ \A n \in 1..N : d[n].kind # "blank"
  BY DEF TreeOK, WellFormed, NoText
<1>2. PlainTables(d)
  BY DEF Plain, PlainTables
<1>3. PICK s \in DOMAIN d : StrapAt(d, s)
  BY DEF Plain, StrapAt
<1>4. t \in Seq(Lines) /\ \E pos : Placed(d, t, pos)
  BY <1>1, DecompiledPlaced
<1>5. PICK pos : Placed(d, t, pos)
  BY <1>4
<1> HIDE DEF t
<1>6. StrapsOf(d) = d[s + 1].ids /\ w.straps = d[s + 1].ids /\ w.at = pos[s + 1] /\ w.at \in 1..Len(t)
  BY <1>3, <1>4, <1>5, StrapsAre DEF t
<1>7. s + 1 \in 1..N /\ d[s + 1] \in Lines /\ t[pos[s + 1]] = d[s + 1] /\ w.straps \in Seq(Texts)
  <2>1. s + 1 \in 1..N
    BY <1>1, <1>3 DEF StrapAt
  <2>2. d[s + 1] \in Lines
    BY <1>1, <2>1
  <2>3. t[pos[s + 1]] = d[s + 1]
    BY <1>1, <1>5, <2>1, PlacedNext
  <2>4. w.straps \in Seq(Texts)
    BY <1>6, <2>2 DEF Lines
  <2> QED
    BY <2>1, <2>2, <2>3, <2>4
<1> DEFINE chosen == StrapsOf(d)[ram + 1]
           out == OutOf(d, chosen)
           l == [d[s + 1] EXCEPT !.ids = SelectOf(d, chosen)]
           e == EditedTree(d, s, chosen)
           u == Edited
           K == {n \in DOMAIN u : ~LeftOut(n) /\ \A m \in 1..n : ~Stops(m)}
           L == PlacesIn(e, pos, K)
<1>8. Chosen = chosen
  BY <1>6 DEF Chosen
<1>9. OnlyChosen(w.straps) = SelectOf(d, chosen)
  <2>1. \A h, k \in Range(w.straps) : <<h, k>> \notin Begins
    BY <1>6 DEF Plain
  <2>2. OnlyChosen(w.straps) = [i \in DOMAIN w.straps |-> IF w.straps[i] = Chosen THEN Chosen ELSE Zero]
    BY <1>7, <2>1, OnlyChosenIs
  <2> QED
    BY <1>6, <1>8, <2>2 DEF SelectOf
<1>10. l \in Lines /\ l.kind = d[s + 1].kind
  <2>1. OnlyChosen(w.straps) \in Seq(Texts)
    BY <1>7, OnlyChosenType
  <2>2. SelectOf(d, chosen) \in Seq(Texts)
    BY <1>9, <2>1
  <2> HIDE DEF chosen
  <2> QED
    BY <1>7, <2>2 DEF Lines
<1>11. e = [d EXCEPT ![s + 1] = l] /\ u = [t EXCEPT ![pos[s + 1]] = l]
  <2>1. e = [d EXCEPT ![s + 1] = l]
    BY DEF EditedTree
  <2>2. t[w.at] = d[s + 1] /\ w.lines = t
    BY <1>6, <1>7 DEF t
  <2>3. t[w.at].ids = w.straps
    BY <1>6, <2>2
  <2>4. u = [t EXCEPT ![w.at] = [t[w.at] EXCEPT !.ids = OnlyChosen(t[w.at].ids)]]
    BY <2>2 DEF Edited
  <2>5. [t[w.at] EXCEPT !.ids = OnlyChosen(t[w.at].ids)] = l
    BY <1>9, <2>2, <2>3
  <2> HIDE DEF l, u
  <2> QED
    BY <1>6, <2>1, <2>4, <2>5
<1> HIDE DEF l
<1>12. e \in Seq(Lines) /\ u \in Seq(Lines) /\ Placed(e, u, pos)
  <2> HIDE DEF e, u
  <2> QED
    BY <1>1, <1>4, <1>5, <1>7, <1>10, <1>11, PlacedEdit
<1>13. Len(e) = N /\ Len(u) = Len(t) /\ \A n \in 1..N : e[n].kind = d[n].kind
  <2> HIDE DEF e, u
  <2> QED
    BY <1>1, <1>4, <1>7, <1>10, <1>11
<1>14. SameKinds(d, e) /\ \A n \in 1..Len(e) : e[n].kind # "blank"
  <2> HIDE DEF e
  <2> QED
    BY <1>1, <1>12, <1>13 DEF SameKinds
<1>15. NoBlanks(Picked(u, K)) = Picked(e, L) /\ Written(u) = Picked(u, K)
  <2>1. Written(u) = Picked(u, K)
    BY DEF Written
  <2> HIDE DEF e, u, K, L
  <2>2. NoBlanks(Picked(u, K)) = Picked(e, PlacesIn(e, pos, K))
    BY <1>12, <1>14, CutOfTree
  <2> QED
    BY <2>1, <2>2 DEF L
<1>16. (\A p \in Nat : ~Stops(p)) /\ LeftOutAre(d, pos, chosen)
  <2> HIDE DEF chosen
  <2> QED
    BY <1>2, <1>4, <1>5, <1>8, LeftOutIs DEF t
<1>17. \A n \in 1..N : n \in L <=> ~LeftOut(pos[n])
  <2>1. ASSUME NEW n \in 1..N PROVE n \in L <=> ~LeftOut(pos[n])
    <3>1. pos[n] \in 1..Len(t)
      BY <1>1, <1>5, PlacedOrder
    <3>2. pos[n] \in DOMAIN u /\ \A m \in 1..pos[n] : m \in Nat
      <4> HIDE DEF u
      <4> QED
        BY <1>4, <1>12, <1>13, <3>1
    <3>3. pos[n] \in K <=> ~LeftOut(pos[n])
      <4> HIDE DEF u
      <4> QED
        BY <1>16, <3>2
    <3>4. n \in L <=> pos[n] \in K
      <4> HIDE DEF e, K
      <4> QED
        BY <1>13 DEF PlacesIn
    <3> QED
      BY <3>3, <3>4
  <2> QED
    BY <2>1
<1>18. \A n \in L : n \in 1..N
  <2> HIDE DEF e, K
  <2> QED
    BY <1>13 DEF PlacesIn
<1> HIDE DEF e, u, K, L, chosen, out
<1>19. out \in SUBSET Tables(d)
  BY DEF out, OutOf
<1>20. ASSUME NEW n \in 1..N
       PROVE  /\ n \in LinesOf(d, out) => LeftOut(pos[n])
              /\ LeftOut(pos[n]) => n \in LinesOf(d, out) \/ (n = N /\ N - 1 \in LinesOf(d, out))
  <2>1. pos[n] \in Nat /\ n \in 0..N
    BY <1>1, <1>5 DEF Placed
  <2>2. LeftOut(pos[n]) <=> \E i \in out : pos[i] <= pos[n] /\ pos[n] <= pos[LastOf(d, i)] + 1
    BY <1>16, <2>1 DEF LeftOutAre, out
  <2>3. ASSUME NEW i \in out
        PROVE  /\ i \in 1..N /\ LastOf(d, i) \in 1..N /\ i <= LastOf(d, i)
               /\ i <= n <=> pos[i] <= pos[n]
               /\ n <= LastOf(d, i) => pos[n] <= pos[LastOf(d, i)] + 1
               /\ pos[n] <= pos[LastOf(d, i)] + 1 => n <= LastOf(d, i) \/ (n = N /\ LastOf(d, i) = N - 1)
    <3>1. i \in Tables(d)
      BY <1>19
    <3>2. i \in 1..N /\ LastOf(d, i) \in i + 1 .. N - 1
      BY <1>2, <3>1, LinesOfTable
    <3>3. i \in 1..N /\ LastOf(d, i) \in 1..N /\ i <= LastOf(d, i) /\ i \in 0..N
      BY <1>1, <3>2
    <3>4. i <= n <=> pos[i] <= pos[n]
      BY <1>1, <1>5, <2>1, <3>3, PlacedOrder
    <3>5. /\ n <= LastOf(d, i) => pos[n] <= pos[LastOf(d, i)] + 1
          /\ pos[n] <= pos[LastOf(d, i)] + 1 => n <= LastOf(d, i) \/ (n = N /\ LastOf(d, i) = N - 1)
      BY <1>2, <1>4, <1>5, <3>1, CutLines
    <3> QED
      BY <3>3, <3>4, <3>5
  <2>4. ASSUME n \in LinesOf(d, out) PROVE LeftOut(pos[n])
    <3>1. PICK i \in out : i <= n /\ n <= LastOf(d, i)
      BY <2>4 DEF LinesOf
    <3> QED
      BY <2>2, <2>3, <3>1
  <2>5. ASSUME LeftOut(pos[n]) PROVE n \in LinesOf(d, out) \/ (n = N /\ N - 1 \in LinesOf(d, out))
    <3>1. PICK i \in out : pos[i] <= pos[n] /\ pos[n] <= pos[LastOf(d, i)] + 1
      BY <2>2, <2>5
    <3>2. i <= n /\ (n <= LastOf(d, i) \/ (n = N /\ LastOf(d, i) = N - 1))
      BY <2>3, <3>1
    <3>3. CASE n <= LastOf(d, i)
      BY <1>1, <3>2, <3>3 DEF LinesOf
    <3>4. CASE n = N /\ LastOf(d, i) = N - 1
      <4>1. N - 1 \in DOMAIN d /\ i <= N - 1 /\ N - 1 <= LastOf(d, i)
        <5>1. LastOf(d, i) \in 1..N /\ i <= LastOf(d, i)
          BY <2>3
        <5> QED
          BY <1>1, <3>4, <5>1
      <4> QED
        BY <3>4, <4>1 DEF LinesOf
    <3> QED
      BY <3>2, <3>3, <3>4
  <2> QED
    BY <2>4, <2>5
<1>21. \A n \in 1 .. N - 1 : n \in L <=> n \notin LinesOf(d, out)
  <2>1. ASSUME NEW n \in 1 .. N - 1 PROVE n \in L <=> n \notin LinesOf(d, out)
    <3>1. n \in 1..N /\ n # N
      <4>1. N \in Nat /\ n \in 1 .. N - 1
        BY <1>1
      <4> HIDE DEF N
      <4> QED
        BY <4>1
    <3> QED
      BY <1>17, <1>20, <3>1
  <2> QED
    BY <2>1
<1>22. N \notin LinesOf(d, out)
  <2>1. ASSUME NEW i \in out PROVE ~(N <= LastOf(d, i))
    <3>1. i \in Tables(d)
      BY <1>19
    <3>2. i \in 1..N /\ LastOf(d, i) \in i + 1 .. N - 1
      BY <1>2, <3>1, LinesOfTable
    <3> QED
      BY <1>1, <3>2
  <2> QED
    BY <2>1 DEF LinesOf
<1>23. N \in L
  <2>1. ASSUME N \notin L PROVE FALSE
    <3>1. LeftOut(pos[N])
      BY SMTT(30), <1>1, <1>17, <2>1
    <3>2. N - 1 \in LinesOf(d, out)
      BY <1>1, <1>20, <1>22, <3>1
    <3>3. ~WellFormed(Picked(e, L))
      BY <1>2, <1>14, <1>19, <1>21, <2>1, <3>2, CutTooFar
    <3>4. WellFormed(NoBlanks(Written(u)))
      BY DEF Parses, u
    <3> QED
      BY <1>15, <3>3, <3>4
  <2> QED
    BY <2>1
<1>24. L = {n \in DOMAIN d : n \notin LinesOf(d, out)}
  <2>1. ASSUME NEW n \in 1..N PROVE n \in L <=> n \notin LinesOf(d, out)
    <3>1. n = N \/ n \in 1 .. N - 1
      <4>1. N \in Nat /\ n \in 1..N
        BY <1>1
      <4> HIDE DEF N
      <4> QED
        BY <4>1
    <3> QED
      BY <1>21, <1>22, <1>23, <3>1
  <2> QED
    BY <1>1, <1>18, <2>1
<1>25. Reference(d, ram) = Picked(e, {n \in DOMAIN d : n \notin LinesOf(d, out)})
  BY <1>2, <1>3, <1>6, ReferenceIs DEF e, out, chosen
<1> QED
  BY <1>15, <1>24, <1>25 DEF u

-----------------------------------------------------------------------------
(* The invariant.                                                          *)

\* The file is a tree that dtc made or broken, and until it is written again what
\* the call began with; a call gets beyond dtc's text with a tree only.
TreeInv ==
    /\ dtb = Broken \/ TreeOK(dtb)
    /\ before = Broken \/ TreeOK(before)
    /\ ram \in Nat
    /\ pc # "idle" => dtb = before
    /\ pc \notin {"idle", "generate_int_dtsi"} => TreeOK(before)
\* Each function goes on from what the ones before it found in the text.
AfterText == {"get_strap_handles", "save_table_pos", "update_valid_entries", "remove_unused_phandles"}
AfterStraps == {"save_table_pos", "update_valid_entries", "remove_unused_phandles"}
AfterTables == {"update_valid_entries", "remove_unused_phandles"}
Locals == {"lines", "straps", "at", "begins", "ends", "valid"}
CallInv ==
    /\ pc \in AfterText \cup {"generate_int_dtsi"} => w = [x \in Locals |-> w[x]]
    /\ pc \in AfterText => w.lines = Decompiled(before)
    /\ pc \in AfterStraps => StrapsFound
    /\ pc \in AfterTables => TablesFound
    /\ pc = "remove_unused_phandles" => EntriesFound
\* The text that dtc is to read is of the tree with the one table, or refused.
TextInv ==
    pc = "dtsi_to_dtb" =>
        dts \in Seq(Lines) /\ (Plain(before, ram) /\ Parses(dts) => NoBlanks(dts) = Reference(before, ram))
IndInv == TreeInv /\ CallInv /\ TextInv /\ TrimIsExact

LEMMA NothingIs == Nothing = [x \in Locals |-> Nothing[x]]
BY DEF Nothing, Locals

\* Nothing of a call that has ended is looked at again.
LEMMA IdleInv ==
  ASSUME IndInv, pc' = "idle", ram' = ram, before' = before, (dtb = Broken \/ TreeOK(dtb))', TrimIsExact'
  PROVE  IndInv'
<1>1. TreeInv'
  BY DEF IndInv, TreeInv, TreeOK
<1>2. CallInv' /\ TextInv'
  BY DEF CallInv, TextInv, AfterText, AfterStraps, AfterTables
<1> QED
  BY <1>1, <1>2 DEF IndInv

\* A call that ends without writing the file.
LEMMA UnwrittenInv ==
  ASSUME IndInv, NEW how, how # "trimmed", Ends(how), dtb' \in {dtb, Broken}, pc # "idle"
  PROVE  IndInv'
<1>1. pc' = "idle" /\ ended' = how /\ ram' = ram /\ before' = before
  BY DEF Ends, call
<1>2. dtb = before /\ (dtb = Broken \/ TreeOK(dtb))
  BY DEF IndInv, TreeInv
<1>3. (dtb = Broken \/ TreeOK(dtb))'
  BY <1>1, <1>2 DEF TreeOK, Broken
<1>4. TrimIsExact'
  BY <1>1, <1>2 DEF TrimIsExact, Broken
<1> QED
  BY <1>1, <1>3, <1>4, IdleInv

\* A call that goes on.
LEMMA GoesOnInv ==
  ASSUME IndInv, NEW f, f # "idle", pc # "idle", TreeOK(before), pc' = f, dtb' = dtb, ram' = ram, before' = before,
         CallInv', TextInv'
  PROVE  IndInv'
<1>1. TreeInv'
  BY DEF IndInv, TreeInv, TreeOK
<1>2. TrimIsExact'
  BY DEF TrimIsExact
<1> QED
  BY <1>1, <1>2 DEF IndInv

LEMMA InitInv == Init => IndInv
<1> SUFFICES ASSUME Init PROVE IndInv
  OBVIOUS
<1>1. dtb \in Trees /\ before = dtb /\ ram \in Ramcodes /\ pc = "idle" /\ ended = "none"
  BY DEF Init
<1>2. TreeInv
  BY <1>1, TreesAssumption, RamcodesAssumption DEF TreeInv, TreeOK
<1>3. CallInv /\ TextInv
  BY <1>1 DEF CallInv, TextInv, AfterText, AfterStraps, AfterTables
<1>4. TrimIsExact
  BY <1>1 DEF TrimIsExact
<1> QED
  BY <1>2, <1>3, <1>4 DEF IndInv

LEMMA GenerateDtbInv ==
  ASSUME IndInv, NEW r \in Ramcodes, NEW fresh \in BOOLEAN, GenerateDtb(r, fresh)
  PROVE  IndInv'
<1>1. /\ ram' = r /\ before' = dtb /\ dtb' = dtb /\ w' = Nothing
      /\ pc' = (IF trimmed' THEN "idle" ELSE "generate_int_dtsi")
      /\ ended' = (IF trimmed' THEN "skipped" ELSE "running")
  BY DEF GenerateDtb, files
<1>2. TreeInv'
  BY <1>1, RamcodesAssumption DEF IndInv, TreeInv, TreeOK
<1>3. CallInv'
  <2>1. w' = [x \in Locals |-> w'[x]]
    BY <1>1, NothingIs
  <2>2. pc' \notin AfterText /\ pc' \notin AfterStraps /\ pc' \notin AfterTables /\ pc' # "remove_unused_phandles"
    BY <1>1 DEF AfterText, AfterStraps, AfterTables
  <2> QED
    BY <2>1, <2>2 DEF CallInv
<1>4. TextInv'
  BY <1>1 DEF TextInv
<1>5. TrimIsExact'
  BY <1>1 DEF TrimIsExact
<1> QED
  BY <1>2, <1>3, <1>4, <1>5 DEF IndInv

LEMMA GenerateIntDtsiInv ==
  ASSUME IndInv, GenerateIntDtsi
  PROVE  IndInv'
<1>1. pc = "generate_int_dtsi"
  BY DEF GenerateIntDtsi
<1>2. CASE dts' = Decompiled(dtb) /\ pc' = "get_strap_handles" /\ w' = [Nothing EXCEPT !.lines = dts']
           /\ dtb # Broken /\ UNCHANGED <<dtb, trimmed, call, ended>>
  <2>1. dtb' = dtb /\ ram' = ram /\ before' = before /\ dtb = before /\ TreeOK(before)
    BY <1>1, <1>2 DEF call, IndInv, TreeInv
  <2>2. w'.lines = dts' /\ w' = [x \in Locals |-> w'[x]]
    BY <1>2, NothingIs DEF Nothing, Locals
  <2>3. CallInv'
    <3>1. Decompiled(before)' = Decompiled(before)
      BY <2>1
    <3> QED
      BY <1>2, <2>1, <2>2, <3>1 DEF CallInv, AfterText, AfterStraps, AfterTables
  <2>4. TextInv'
    BY <1>2 DEF TextInv
  <2> QED
    BY <1>1, <1>2, <2>1, <2>3, <2>4, GoesOnInv
<1>3. CASE Ends("raised") /\ UNCHANGED dtb
  BY <1>1, <1>3, UnwrittenInv
<1>4. CASE Ends("existing") /\ UNCHANGED dtb
  BY <1>1, <1>4, UnwrittenInv
<1> QED
  BY <1>2, <1>3, <1>4 DEF GenerateIntDtsi, Raises, Existing

LEMMA GetStrapHandlesInv ==
  ASSUME IndInv, GetStrapHandles
  PROVE  IndInv'
<1>1. /\ pc = "get_strap_handles" /\ w = [x \in Locals |-> w[x]] /\ w.lines = Decompiled(before)
      /\ TreeOK(before)
  BY DEF GetStrapHandles, IndInv, CallInv, TreeInv, AfterText
<1>2. CASE /\ Straps # 0 /\ w.lines[Straps + 1].ids # <<>>
           /\ GoesOn("save_table_pos", [w EXCEPT !.at = Straps + 1, !.straps = w.lines[Straps + 1].ids])
  <2>1. /\ pc' = "save_table_pos" /\ dtb' = dtb /\ ram' = ram /\ before' = before
        /\ w' = [w EXCEPT !.at = Straps + 1, !.straps = w.lines[Straps + 1].ids]
    BY <1>2 DEF GoesOn, files, call
  <2>2. w'.lines = w.lines /\ w'.at = Straps + 1 /\ w'.straps = w.lines[Straps + 1].ids /\ w' = [x \in Locals |-> w'[x]]
    BY <1>1, <2>1 DEF Locals
  <2>3. Straps' = Straps
    BY <2>2 DEF Straps, SelectInSeq
  <2>4. StrapsFound'
    BY <1>2, <2>2, <2>3 DEF StrapsFound
  <2>5. CallInv'
    <3>1. Decompiled(before)' = Decompiled(before)
      BY <2>1
    <3> QED
      BY <1>1, <2>1, <2>2, <2>4, <3>1 DEF CallInv, AfterText, AfterStraps, AfterTables
  <2>6. TextInv'
    BY <2>1 DEF TextInv
  <2> QED
    BY <1>1, <2>1, <2>5, <2>6, GoesOnInv
<1>3. CASE Ends("raised") /\ UNCHANGED dtb
  BY <1>1, <1>3, UnwrittenInv
<1> QED
  BY <1>2, <1>3 DEF GetStrapHandles, Raises, files

LEMMA SaveTablePosInv ==
  ASSUME IndInv, SaveTablePos
  PROVE  IndInv'
<1> DEFINE p == Positions(w.lines)
<1>1. /\ pc = "save_table_pos" /\ w = [x \in Locals |-> w[x]] /\ w.lines = Decompiled(before) /\ StrapsFound
      /\ TreeOK(before)
  BY DEF SaveTablePos, IndInv, CallInv, TreeInv, AfterText, AfterStraps
<1>2. CASE GoesOn("update_valid_entries", [w EXCEPT !.begins = p.begins, !.ends = p.ends])
  <2>1. /\ pc' = "update_valid_entries" /\ dtb' = dtb /\ ram' = ram /\ before' = before
        /\ w' = [w EXCEPT !.begins = p.begins, !.ends = p.ends]
    BY <1>2 DEF GoesOn, files, call
  <2> HIDE DEF p
  <2>2. /\ w'.lines = w.lines /\ w'.at = w.at /\ w'.straps = w.straps /\ w' = [x \in Locals |-> w'[x]]
        /\ w'.begins = p.begins /\ w'.ends = p.ends
    BY <1>1, <2>1 DEF Locals
  <2>3. Straps' = Straps
    BY <2>2 DEF Straps, SelectInSeq
  <2>4. StrapsFound'
    BY <1>1, <2>2, <2>3 DEF StrapsFound
  <2>5. TablesFound'
    <3>1. Positions(w.lines)' = Positions(w.lines)
      BY <2>2
    <3> QED
      BY <2>2, <3>1 DEF TablesFound, p
  <2>6. CallInv'
    <3>1. Decompiled(before)' = Decompiled(before)
      BY <2>1
    <3> QED
      BY <1>1, <2>1, <2>2, <2>4, <2>5, <3>1 DEF CallInv, AfterText, AfterStraps, AfterTables
  <2>7. TextInv'
    BY <2>1 DEF TextInv
  <2> QED
    BY <1>1, <2>1, <2>6, <2>7, GoesOnInv
<1>3. CASE Ends("raised") /\ UNCHANGED dtb
  BY <1>1, <1>3, UnwrittenInv
<1> QED
  BY <1>2, <1>3 DEF SaveTablePos, Raises, files

LEMMA UpdateValidEntriesInv ==
  ASSUME IndInv, UpdateValidEntries
  PROVE  IndInv'
<1> DEFINE v == IF HasStrap THEN ValidEntries ELSE <<>>
<1>1. /\ pc = "update_valid_entries" /\ w = [x \in Locals |-> w[x]] /\ w.lines = Decompiled(before) /\ StrapsFound /\ TablesFound
      /\ TreeOK(before)
  BY DEF UpdateValidEntries, IndInv, CallInv, TreeInv, AfterText, AfterStraps, AfterTables
<1>2. CASE GoesOn("remove_unused_phandles", [w EXCEPT !.valid = v])
  <2>1. /\ pc' = "remove_unused_phandles" /\ dtb' = dtb /\ ram' = ram /\ before' = before
        /\ w' = [w EXCEPT !.valid = v]
    BY <1>2 DEF GoesOn, files, call
  <2> HIDE DEF v
  <2>2. /\ w'.lines = w.lines /\ w'.at = w.at /\ w'.straps = w.straps /\ w' = [x \in Locals |-> w'[x]]
        /\ w'.begins = w.begins /\ w'.ends = w.ends /\ w'.valid = v
    BY <1>1, <2>1 DEF Locals
  <2>3. Straps' = Straps
    BY <2>2 DEF Straps, SelectInSeq
  <2>4. StrapsFound'
    BY <1>1, <2>2, <2>3 DEF StrapsFound
  <2>5. TablesFound'
    <3>1. Positions(w.lines)' = Positions(w.lines)
      BY <2>2
    <3> QED
      BY <1>1, <2>2, <3>1 DEF TablesFound
  <2>6. EntriesFound'
    <3>1. \A i : Phandles(i)' = Phandles(i)
      BY <2>2 DEF Phandles
    <3>2. AllPhandles' = AllPhandles
      BY <2>2, <3>1 DEF AllPhandles
    <3>3. Chosen' = Chosen /\ HasStrap' = HasStrap
      BY <2>1, <2>2 DEF Chosen, HasStrap
    <3>4. ValidEntries' = ValidEntries
      BY <3>2, <3>3 DEF ValidEntries
    <3> QED
      BY <2>2, <3>3, <3>4 DEF EntriesFound, v
  <2>7. CallInv'
    <3>1. Decompiled(before)' = Decompiled(before)
      BY <2>1
    <3> QED
      BY <1>1, <2>1, <2>2, <2>4, <2>5, <2>6, <3>1 DEF CallInv, AfterText, AfterStraps, AfterTables
  <2>8. TextInv'
    BY <2>1 DEF TextInv
  <2> QED
    BY <1>1, <2>1, <2>7, <2>8, GoesOnInv
<1>3. CASE Ends("raised") /\ UNCHANGED dtb
  BY <1>1, <1>3, UnwrittenInv
<1> QED
  BY <1>2, <1>3 DEF UpdateValidEntries, Raises, files

LEMMA RemoveUnusedPhandlesInv ==
  ASSUME IndInv, RemoveUnusedPhandles
  PROVE  IndInv'
<1>1. /\ pc = "remove_unused_phandles" /\ w.lines = Decompiled(before) /\ StrapsFound /\ TablesFound /\ EntriesFound
      /\ TreeOK(before) /\ ram \in Nat
  BY DEF RemoveUnusedPhandles, IndInv, CallInv, TreeInv, AfterText, AfterStraps, AfterTables
<1>2. CASE HasStrap /\ dts' = Written(Edited) /\ pc' = "dtsi_to_dtb" /\ UNCHANGED <<dtb, trimmed, call, ended>>
  <2>1. dtb' = dtb /\ ram' = ram /\ before' = before /\ pc' = "dtsi_to_dtb"
    BY <1>2 DEF call
  <2>2. w.lines \in Seq(Lines)
    <3>1. before \in Seq(Lines)
      BY <1>1 DEF TreeOK
    <3> QED
      BY <1>1, <3>1, DecompiledPlaced
  <2>3. dts' \in Seq(Lines)
    BY <1>1, <1>2, <2>2, WrittenType
  <2>4. ASSUME Plain(before, ram), Parses(dts') PROVE NoBlanks(dts') = Reference(before, ram)
    BY <1>1, <1>2, <2>4, WrittenIsReference
  <2>5. TextInv'
    <3>1. Plain(before, ram)' = Plain(before, ram) /\ Reference(before, ram)' = Reference(before, ram)
      BY <2>1
    <3> QED
      BY <2>3, <2>4, <3>1 DEF TextInv
  <2>6. CallInv'
    BY <2>1 DEF CallInv, AfterText, AfterStraps, AfterTables
  <2> QED
    BY <1>1, <2>1, <2>5, <2>6, GoesOnInv
<1>3. CASE Ends("raised") /\ UNCHANGED dtb
  BY <1>1, <1>3, UnwrittenInv
<1> QED
  BY <1>2, <1>3 DEF RemoveUnusedPhandles, Raises, files, Edited

LEMMA DtsiToDtbInv ==
  ASSUME IndInv, DtsiToDtb
  PROVE  IndInv'
<1>1. pc = "dtsi_to_dtb" /\ TextInv
  BY DEF DtsiToDtb, IndInv
<1>2. CASE Parses(dts) /\ dtb' = NoBlanks(dts) /\ Ends("trimmed")
  <2>1. pc' = "idle" /\ ended' = "trimmed" /\ ram' = ram /\ before' = before
    BY <1>2 DEF Ends, call
  <2>2. dts \in Seq(Lines) /\ (Plain(before, ram) => NoBlanks(dts) = Reference(before, ram))
    BY <1>1, <1>2 DEF TextInv
  <2>3. (dtb = Broken \/ TreeOK(dtb))'
    <3>1. NoBlanks(dts) \in Seq(Lines) /\ WellFormed(NoBlanks(dts))
      BY <1>2, <2>2, NoBlanksType DEF Parses
    <3>2. \A i \in DOMAIN NoBlanks(dts) : NoBlanks(dts)[i].kind # "blank"
      BY <2>2, NoBlanksHasNone
    <3>3. TreeOK(NoBlanks(dts))
      BY <3>1, <3>2 DEF TreeOK
    <3> QED
      BY <1>2, <3>3
  <2>4. TrimIsExact'
    <3>1. Plain(before, ram)' = Plain(before, ram) /\ Reference(before, ram)' = Reference(before, ram)
      BY <2>1
    <3> QED
      BY <1>2, <2>1, <2>2, <3>1 DEF TrimIsExact
  <2> QED
    BY <2>1, <2>3, <2>4, IdleInv
<1>3. CASE Ends("unwritten") /\ UNCHANGED dtb
  BY <1>1, <1>3, UnwrittenInv
<1>4. CASE Ends("existing") /\ dtb' \in {dtb, Broken}
  BY <1>1, <1>4, UnwrittenInv
<1> QED
  BY <1>2, <1>3, <1>4 DEF DtsiToDtb, Existing

LEMMA StutterInv ==
  ASSUME IndInv, UNCHANGED vars
  PROVE  IndInv'
<1>1. dtb' = dtb /\ dts' = dts /\ ram' = ram /\ before' = before /\ w' = w /\ pc' = pc /\ ended' = ended
  BY DEF vars, files, call
<1>2. TreeInv'
  BY <1>1 DEF IndInv, TreeInv, TreeOK
<1>3. TextInv' /\ TrimIsExact'
  BY <1>1 DEF IndInv, TextInv, TrimIsExact
<1>4. CallInv'
  <2>1. StrapsFound' = StrapsFound /\ TablesFound' = TablesFound
    BY <1>1 DEF StrapsFound, Straps, SelectInSeq, TablesFound
  <2>2. EntriesFound' = EntriesFound
    <3>1. \A i : Phandles(i)' = Phandles(i)
      BY <1>1 DEF Phandles
    <3>2. AllPhandles' = AllPhandles
      BY <1>1, <3>1 DEF AllPhandles
    <3>3. Chosen' = Chosen /\ HasStrap' = HasStrap
      BY <1>1 DEF Chosen, HasStrap
    <3>4. ValidEntries' = ValidEntries
      BY <3>2, <3>3 DEF ValidEntries
    <3> QED
      BY <1>1, <3>3, <3>4 DEF EntriesFound
  <2>3. Decompiled(before)' = Decompiled(before)
    BY <1>1
  <2> QED
    BY <1>1, <2>1, <2>2, <2>3 DEF IndInv, CallInv
<1> QED
  BY <1>2, <1>3, <1>4 DEF IndInv

LEMMA NextInv == IndInv /\ [Next]_vars => IndInv'
<1> SUFFICES ASSUME IndInv, [Next]_vars PROVE IndInv'
  OBVIOUS
<1>1. ASSUME NEW r \in Ramcodes, NEW fresh \in BOOLEAN, GenerateDtb(r, fresh) PROVE IndInv'
  BY <1>1, GenerateDtbInv
<1>2. CASE GenerateIntDtsi
  BY <1>2, GenerateIntDtsiInv
<1>3. CASE GetStrapHandles
  BY <1>3, GetStrapHandlesInv
<1>4. CASE SaveTablePos
  BY <1>4, SaveTablePosInv
<1>5. CASE UpdateValidEntries
  BY <1>5, UpdateValidEntriesInv
<1>6. CASE RemoveUnusedPhandles
  BY <1>6, RemoveUnusedPhandlesInv
<1>7. CASE DtsiToDtb
  BY <1>7, DtsiToDtbInv
<1>8. CASE UNCHANGED vars
  BY <1>8, StutterInv
<1> QED
  BY <1>1, <1>2, <1>3, <1>4, <1>5, <1>6, <1>7, <1>8 DEF Next

\* The file is a tree that dtc made, or one that dtc has broken, whatever becomes of
\* a call, and each function works on what the ones before it found in the text of
\* that tree.
THEOREM TrimInvariant == Spec => []IndInv
<1>1. Init => IndInv
  BY InitInv
<1>2. IndInv /\ [Next]_vars => IndInv'
  BY NextInv
<1> QED
  BY <1>1, <1>2, PTL DEF Spec

\* For trees of any size and any number of calls: a call of
\* tegraflash_bpmp_generate_dtb() that trims a tree with the tables of one level
\* that the functions take for granted leaves just the RAM strap's table and all
\* other nodes, and a call that does not leaves the file alone, or dtc has broken it.
THEOREM TrimAlwaysExact == Spec => []TrimIsExact
<1>1. IndInv => TrimIsExact
  BY DEF IndInv
<1> QED
  BY <1>1, TrimInvariant, PTL

=============================================================================
