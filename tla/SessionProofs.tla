--------------------------- MODULE SessionProofs ---------------------------
(***************************************************************************)
(* What the proofs about the users of a session share: facts about         *)
(* sequences, the types a session keeps, and that edges are neither lost   *)
(* nor reordered on their way from the board to the session's queue.       *)
(*                                                                         *)
(* The library's induction theorem takes an operator as its parameter;     *)
(* here the set of the numbers for which a fact holds takes its place.     *)
(***************************************************************************)
EXTENDS Session, Integers, FiniteSetTheorems, SequenceTheorems, WellFoundedInduction, TLAPS

LEMMA Least ==
  ASSUME NEW T, T \subseteq Nat, T # {}
  PROVE  \E m \in T : \A k \in T : m <= k
<1>1. IsWellFoundedOn(OpToRel(<,Nat), Nat)
      BY NatLessThanWellFounded
<1>2. \E x \in T : \A y \in T : ~(<<y, x>> \in OpToRel(<,Nat))
      BY <1>1, WFMin
<1>3. PICK x \in T : \A y \in T : ~(<<y, x>> \in OpToRel(<,Nat))
      BY <1>2
<1>4. \A y \in T : ~(y < x)
      BY <1>3 DEF OpToRel
<1> QED BY <1>4

\* A set that holds 0 and with every number the next one holds them all.
LEMMA UpTo ==
  ASSUME NEW N \in Nat, NEW T, 0 \in T, \A n \in 0..(N - 1) : n \in T => n + 1 \in T
  PROVE  \A n \in 0..N : n \in T
<1> DEFINE D == {n \in 0..N : n \notin T}
<1>1. ASSUME D # {} PROVE FALSE
  <2>1. PICK m \in D : \A k \in D : m <= k
    <3>1. D \subseteq Nat
          OBVIOUS
    <3> HIDE DEF D
    <3> QED BY <1>1, <3>1, Least
  <2>2. m \in 1..N /\ m - 1 \in 0..(N - 1) /\ m - 1 \notin D
        BY <2>1
  <2> QED BY <2>1, <2>2
<1> QED BY <1>1

\* A function given by its first value and a step.
IsRecursion(f, N, X, b, F) == f \in [0..N -> X] /\ f[0] = b /\ \A i \in 1..N : f[i] = F[<<i, f[i - 1]>>]

LEMMA RecursionExists ==
  ASSUME NEW N \in Nat, NEW X, NEW b \in X, NEW F \in [(1..N) \X X -> X]
  PROVE  \E f : IsRecursion(f, N, X, b, F)
<1> DEFINE Upto(n) == \E f \in [0..n -> X] : f[0] = b /\ \A i \in 1..n : f[i] = F[<<i, f[i - 1]>>]
           T == {n \in 0..N : Upto(n)}
<1>1. 0 \in T
  <2> DEFINE g == [i \in 0..0 |-> b]
  <2>1. g \in [0..0 -> X] /\ g[0] = b /\ \A i \in 1..0 : g[i] = F[<<i, g[i - 1]>>]
        OBVIOUS
  <2>2. Upto(0)
        BY <2>1
  <2> HIDE DEF Upto
  <2> QED BY <2>2
<1>2. ASSUME NEW n \in 0..(N - 1), n \in T PROVE n + 1 \in T
  <2> DEFINE m == n + 1
  <2>1. m \in 1..N /\ m - 1 = n
        OBVIOUS
  <2>2. PICK f \in [0..n -> X] : f[0] = b /\ \A i \in 1..n : f[i] = F[<<i, f[i - 1]>>]
        BY <1>2
  <2> DEFINE g == [i \in 0..m |-> IF i = m THEN F[<<m, f[n]>>] ELSE f[i]]
  <2>3. F[<<m, f[n]>>] \in X
        BY <2>1, <2>2
  <2>4. g \in [0..m -> X] /\ g[0] = b
        BY <2>1, <2>2, <2>3
  <2>5. ASSUME NEW i \in 1..m PROVE g[i] = F[<<i, g[i - 1]>>]
    <3>1. g[i - 1] = f[i - 1]
          BY <2>1
    <3>2. CASE i = m
      <4>1. g[i] = F[<<m, f[n]>>]
            BY <3>2, <2>1
      <4> QED BY <2>1, <3>1, <3>2, <4>1
    <3>3. CASE i # m
      <4>1. i \in 1..n /\ g[i] = f[i]
            BY <2>1, <3>3
      <4> QED BY <2>2, <3>1, <4>1
    <3> QED BY <3>2, <3>3
  <2>6. Upto(m)
        BY <2>4, <2>5
  <2> QED BY <2>1, <2>6
<1> HIDE DEF T
<1>3. \A n \in 0..N : n \in T
      BY <1>1, <1>2, UpTo
<1>4. N \in T
      BY <1>3
<1> QED BY <1>4 DEF IsRecursion, T

-----------------------------------------------------------------------------
(* What is kept of a sequence: f[n] of its first n elements.               *)

IsKept(f, s, S) ==
  /\ f \in [0..Len(s) -> Seq(S)]
  /\ f = [n \in 0..Len(s) |-> IF n = 0 THEN <<>>
                              ELSE IF s[n] \in S THEN Append(f[n - 1], s[n])
                              ELSE f[n - 1]]

LEMMA KeptExists ==
  ASSUME NEW X, NEW s \in Seq(X), NEW S
  PROVE  \E f : IsKept(f, s, S)
<1> DEFINE N == Len(s)
           Y == Seq(S)
           b == <<>>
           F == [x \in (1..N) \X Y |-> IF s[x[1]] \in S THEN Append(x[2], s[x[1]]) ELSE x[2]]
<1>1. N \in Nat /\ b \in Y /\ F \in [(1..N) \X Y -> Y]
      BY LenProperties, EmptySeq, AppendProperties
<1>2. \A x \in (1..N) \X Y : F[x] = IF s[x[1]] \in S THEN Append(x[2], s[x[1]]) ELSE x[2]
      OBVIOUS
<1> HIDE DEF F, Y
<1>3. ASSUME NEW f, IsRecursion(f, N, Y, b, F) PROVE IsKept(f, s, S)
  <2>1. f \in [0..N -> Y] /\ f[0] = <<>>
        BY <1>3 DEF IsRecursion
  <2>2. ASSUME NEW n \in 1..N
        PROVE  f[n] = IF s[n] \in S THEN Append(f[n - 1], s[n]) ELSE f[n - 1]
    <3>1. n - 1 \in 0..N /\ f[n - 1] \in Y
          BY <2>1, <1>1
    <3>2. f[n] = F[<<n, f[n - 1]>>]
          BY <1>3 DEF IsRecursion
    <3>3. <<n, f[n - 1]>> \in (1..N) \X Y
          BY <3>1
    <3> QED BY <1>2, <3>2, <3>3
  <2>3. ASSUME NEW n \in 0..N
        PROVE  f[n] = IF n = 0 THEN <<>>
                      ELSE IF s[n] \in S THEN Append(f[n - 1], s[n]) ELSE f[n - 1]
    <3>1. n = 0 \/ n \in 1..N
          BY <1>1
    <3> QED BY <2>1, <2>2, <3>1
  <2>4. f = [n \in 0..N |-> f[n]]
        BY <2>1
  <2> QED BY <2>1, <2>3, <2>4 DEF IsKept, Y
<1> HIDE DEF N, b
<1>4. \E f : IsRecursion(f, N, Y, b, F)
      BY <1>1, RecursionExists
<1> QED BY <1>3, <1>4

LEMMA KeptSteps ==
  ASSUME NEW X, NEW s \in Seq(X), NEW S, NEW f, IsKept(f, s, S)
  PROVE  /\ Len(s) \in Nat /\ f[0] = <<>> /\ \A n \in 0..Len(s) : f[n] \in Seq(S)
         /\ \A n \in 1..Len(s) : f[n] = IF s[n] \in S THEN Append(f[n - 1], s[n]) ELSE f[n - 1]
<1> DEFINE N == Len(s)
<1>1. N \in Nat
      BY LenProperties
<1>2. /\ f \in [0..N -> Seq(S)]
      /\ f = [n \in 0..N |-> IF n = 0 THEN <<>>
                             ELSE IF s[n] \in S THEN Append(f[n - 1], s[n])
                             ELSE f[n - 1]]
      BY DEF IsKept
<1> HIDE DEF N
<1>3. \A n \in 0..N : f[n] = IF n = 0 THEN <<>>
                              ELSE IF s[n] \in S THEN Append(f[n - 1], s[n])
                              ELSE f[n - 1]
      BY <1>2
<1>4. f[0] = <<>>
      BY <1>1, <1>3
<1>5. ASSUME NEW n \in 1..N
      PROVE  f[n] = IF s[n] \in S THEN Append(f[n - 1], s[n]) ELSE f[n - 1]
  <2>1. n \in 0..N /\ n # 0
        BY <1>1
  <2> QED BY <1>3, <2>1
<1> QED BY <1>1, <1>2, <1>4, <1>5 DEF N

\* It depends on the first n elements only.
LEMMA KeptPrefix ==
  ASSUME NEW X, NEW S,
         NEW s \in Seq(X), NEW f, IsKept(f, s, S), NEW t \in Seq(X), NEW g, IsKept(g, t, S),
         NEW N \in Nat, N <= Len(s), N <= Len(t), \A i \in 1..N : s[i] = t[i]
  PROVE  \A n \in 0..N : f[n] = g[n]
<1> DEFINE T == {n \in 0..N : f[n] = g[n]}
<1>1. 0 \in T
      BY KeptSteps
<1>2. ASSUME NEW n \in 0..(N - 1), n \in T PROVE n + 1 \in T
  <2>1. n + 1 \in 1..N /\ n + 1 \in 1..Len(s) /\ n + 1 \in 1..Len(t) /\ (n + 1) - 1 = n
        BY LenProperties
  <2>2. s[n + 1] = t[n + 1]
        BY <2>1
  <2>3. f[n + 1] = IF s[n + 1] \in S THEN Append(f[n], s[n + 1]) ELSE f[n]
        BY <2>1, KeptSteps
  <2>4. g[n + 1] = IF t[n + 1] \in S THEN Append(g[n], t[n + 1]) ELSE g[n]
        BY <2>1, KeptSteps
  <2> QED BY <1>2, <2>1, <2>2, <2>3, <2>4
<1> HIDE DEF T
<1>3. \A n \in 0..N : n \in T
      BY <1>1, <1>2, UpTo
<1> QED BY <1>3 DEF T

\* What is kept of the first element, and when it is taken off.
KeptFirst(s, S) == IF Head(s) \in S THEN <<Head(s)>> ELSE <<>>

LEMMA KeptTail ==
  ASSUME NEW X, NEW S, NEW s \in Seq(X), s # <<>>, NEW f, IsKept(f, s, S),
         NEW g, IsKept(g, Tail(s), S)
  PROVE  f[Len(s)] = KeptFirst(s, S) \o g[Len(Tail(s))]
<1> USE DEF KeptFirst
<1> DEFINE first == KeptFirst(s, S)
           t == Tail(s)
<1>1. /\ t \in Seq(X) /\ Len(s) = Len(t) + 1 /\ \A i \in 1..Len(t) : t[i] = s[i + 1]
      BY HeadTailProperties, LenProperties, EmptySeq
<1>2. Head(s) = s[1]
      BY HeadTailProperties
<1>3. first \in Seq(S)
      BY EmptySeq
<1>4. f[1] = first
  <2>1. /\ Len(s) \in Nat /\ f[0] = <<>>
        /\ \A n \in 1..Len(s) : f[n] = IF s[n] \in S THEN Append(f[n - 1], s[n]) ELSE f[n - 1]
        BY KeptSteps
  <2>2. 1 \in 1..Len(s) /\ 1 - 1 = 0
        BY <1>1, LenProperties
  <2>3. f[1] = IF s[1] \in S THEN Append(f[0], s[1]) ELSE f[0]
        BY <2>1, <2>2
  <2> QED BY <1>2, <2>1, <2>3
<1>5. /\ f[0] = <<>>
      /\ \A n \in 1..Len(s) : f[n] = IF s[n] \in S THEN Append(f[n - 1], s[n]) ELSE f[n - 1]
      BY KeptSteps
<1> HIDE DEF first, t
<1>6. /\ Len(t) \in Nat /\ g[0] = <<>> /\ \A n \in 0..Len(t) : g[n] \in Seq(S)
      /\ \A n \in 1..Len(t) : g[n] = IF t[n] \in S THEN Append(g[n - 1], t[n]) ELSE g[n - 1]
  <2>1. IsKept(g, t, S)
        BY DEF t
  <2> HIDE <1>4, <1>5
  <2> QED BY <1>1, <2>1, KeptSteps
<1> DEFINE T == {n \in 0..Len(t) : f[n + 1] = first \o g[n]}
<1>7. 0 \in T
  <2>1. first \o <<>> = first
        BY <1>3, ConcatEmptySeq
  <2>2. f[0 + 1] = first \o g[0]
        BY <1>4, <1>6, <2>1
  <2>3. 0 \in 0..Len(t)
        BY <1>6
  <2> QED BY <2>2, <2>3
<1>8. ASSUME NEW n \in 0..(Len(t) - 1), n \in T PROVE n + 1 \in T
  <2>1. /\ n + 1 \in 1..Len(t) /\ n \in 0..Len(t) /\ n + 2 \in 1..Len(s)
        /\ (n + 2) - 1 = n + 1 /\ (n + 1) - 1 = n /\ (n + 1) + 1 = n + 2
        BY <1>1, <1>6
  <2> DEFINE e == s[n + 2]
             h == g[n]
  <2>2. t[n + 1] = e
        BY <1>1, <2>1
  <2>3. f[n + 2] = IF e \in S THEN Append(f[n + 1], e) ELSE f[n + 1]
        BY <1>5, <2>1
  <2>4. g[n + 1] = IF e \in S THEN Append(h, e) ELSE h
        BY <1>6, <2>1, <2>2
  <2>5. h \in Seq(S)
        BY <1>6, <2>1
  <2>6. f[n + 1] = first \o h
        BY <1>8
  <2> HIDE DEF e, h
  <2>7. ASSUME e \in S PROVE Append(first \o h, e) = first \o Append(h, e)
    <3>1. Append(first \o h, e) = (first \o h) \o <<e>> /\ Append(h, e) = h \o <<e>>
          BY <2>5, <2>7, <1>3, AppendIsConcat, ConcatProperties
    <3>2. <<e>> \in Seq(S)
          BY <2>7
    <3>3. (first \o h) \o <<e>> = first \o (h \o <<e>>)
          BY <1>3, <2>5, <3>2, ConcatAssociative
    <3> QED BY <3>1, <3>3
  <2>8. f[n + 2] = first \o g[n + 1]
        BY <2>3, <2>4, <2>6, <2>7
  <2> QED BY <2>1, <2>8
<1> HIDE DEF T
<1>9. \A n \in 0..Len(t) : n \in T
      BY <1>6, <1>7, <1>8, UpTo
<1>10. Len(t) \in T
      BY <1>6, <1>9
<1> QED BY <1>1, <1>10 DEF T, first, t

\* Where nothing is kept there was nothing to keep.
LEMMA KeptNothing ==
  ASSUME NEW X, NEW S, NEW s \in Seq(X), NEW f, IsKept(f, s, S), f[Len(s)] = <<>>
  PROVE  \A i \in 1..Len(s) : s[i] \notin S
<1> DEFINE T == {n \in 0..Len(s) : f[n] = <<>> => \A i \in 1..n : s[i] \notin S}
<1>1. 0 \in T
      BY LenProperties
<1>2. ASSUME NEW n \in 0..(Len(s) - 1), n \in T PROVE n + 1 \in T
  <2>1. Len(s) \in Nat /\ n + 1 \in 1..Len(s) /\ (n + 1) - 1 = n
        BY LenProperties
  <2>2. f[n + 1] = IF s[n + 1] \in S THEN Append(f[n], s[n + 1]) ELSE f[n]
        BY <2>1, KeptSteps
  <2>3. f[n] \in Seq(S)
        BY <2>1, KeptSteps
  <2>4. s[n + 1] \in S => Append(f[n], s[n + 1]) # <<>>
    <3> DEFINE e == s[n + 1]
               h == f[n]
    <3>1. h \in Seq(S)
          BY <2>3
    <3> HIDE DEF e, h
    <3>2. e \in S => Append(h, e) # <<>>
          BY <3>1, AppendProperties
    <3> QED BY <3>2 DEF e, h
  <2>5. ASSUME f[n + 1] = <<>>, NEW i \in 1..(n + 1) PROVE s[i] \notin S
    <3>1. s[n + 1] \notin S /\ f[n] = <<>>
          BY <2>2, <2>4, <2>5
    <3>2. i = n + 1 \/ i \in 1..n
          OBVIOUS
    <3> QED BY <1>2, <3>1, <3>2
  <2> QED BY <2>1, <2>5
<1> HIDE DEF T
<1>3. \A n \in 0..Len(s) : n \in T
      BY <1>1, <1>2, UpTo, LenProperties
<1>4. Len(s) \in T
      BY <1>3, LenProperties
<1> QED BY <1>4 DEF T

LEMMA KeepingIs ==
  ASSUME NEW X, NEW s \in Seq(X), NEW S
  PROVE  \E f : IsKept(f, s, S) /\ Keeping(s, S) = f[Len(s)]
<1> DEFINE Def(f) == f = [n \in 0..Len(s) |-> IF n = 0 THEN <<>>
                                            ELSE IF s[n] \in S THEN Append(f[n - 1], s[n])
                                            ELSE f[n - 1]]
           k == CHOOSE f : Def(f)
<1>1. PICK f : IsKept(f, s, S)
      BY KeptExists
<1>2. Def(f)
      BY <1>1 DEF IsKept
<1>3. Def(k)
      BY <1>2
<1>4. Keeping(s, S) = k[Len(s)]
      BY DEF Keeping
<1> HIDE DEF k
<1>5. /\ Len(s) \in Nat
      /\ k[0] = <<>>
      /\ \A n \in 1..Len(s) : k[n] = IF s[n] \in S THEN Append(k[n - 1], s[n]) ELSE k[n - 1]
  <2> DEFINE N == Len(s)
  <2>1. N \in Nat
        BY LenProperties
  <2>2. k = [n \in 0..N |-> IF n = 0 THEN <<>>
                            ELSE IF s[n] \in S THEN Append(k[n - 1], s[n])
                            ELSE k[n - 1]]
        BY <1>3
  <2> HIDE DEF N, Def
  <2>3. \A n \in 0..N : k[n] = IF n = 0 THEN <<>>
                               ELSE IF s[n] \in S THEN Append(k[n - 1], s[n])
                               ELSE k[n - 1]
        BY <2>2
  <2>4. k[0] = <<>>
        BY <2>1, <2>3
  <2>5. ASSUME NEW n \in 1..N
        PROVE  k[n] = IF s[n] \in S THEN Append(k[n - 1], s[n]) ELSE k[n - 1]
    <3>1. n \in 0..N /\ n # 0
          BY <2>1
    <3> QED BY <2>3, <3>1
  <2> QED BY <2>1, <2>4, <2>5 DEF N
<1>6. /\ f[0] = <<>>
      /\ \A n \in 1..Len(s) : f[n] = IF s[n] \in S THEN Append(f[n - 1], s[n]) ELSE f[n - 1]
      BY <1>1, KeptSteps
<1> DEFINE T == {n \in 0..Len(s) : k[n] = f[n]}
<1>7. 0 \in T
      BY <1>5, <1>6
<1>8. ASSUME NEW n \in 0..(Len(s) - 1), n \in T PROVE n + 1 \in T
  <2>1. n + 1 \in 1..Len(s) /\ (n + 1) - 1 = n
        BY <1>5
  <2> QED BY <1>5, <1>6, <1>8, <2>1
<1> HIDE DEF T
<1>9. \A n \in 0..Len(s) : n \in T
      BY <1>5, <1>7, <1>8, UpTo
<1>10. Len(s) \in T
      BY <1>5, <1>9
<1> QED BY <1>1, <1>4, <1>10 DEF T

LEMMA KeepingType ==
  ASSUME NEW X, NEW s \in Seq(X), NEW S
  PROVE  Keeping(s, S) \in Seq(S)
<1>1. PICK f : IsKept(f, s, S) /\ Keeping(s, S) = f[Len(s)]
      BY KeepingIs
<1>2. Len(s) \in Nat /\ \A n \in 0..Len(s) : f[n] \in Seq(S)
      BY <1>1, KeptSteps
<1> QED BY <1>1, <1>2

LEMMA KeepingEmpty == ASSUME NEW S PROVE Keeping(<<>>, S) = <<>>
<1> DEFINE s == <<>>
<1>1. s \in Seq(S) /\ Len(s) = 0
      BY EmptySeq
<1> HIDE DEF s
<1>2. PICK f : IsKept(f, s, S) /\ Keeping(s, S) = f[Len(s)]
      BY <1>1, KeepingIs
<1>3. f = [n \in 0..0 |-> IF n = 0 THEN <<>>
                           ELSE IF s[n] \in S THEN Append(f[n - 1], s[n])
                           ELSE f[n - 1]]
      BY <1>1, <1>2 DEF IsKept
<1>4. f[0] = <<>>
      BY <1>3
<1> QED BY <1>1, <1>2, <1>4 DEF s

LEMMA KeepingAppend ==
  ASSUME NEW X, NEW s \in Seq(X), NEW e \in X, NEW S
  PROVE  Keeping(Append(s, e), S) = IF e \in S THEN Append(Keeping(s, S), e) ELSE Keeping(s, S)
<1> DEFINE t == Append(s, e)
           N == Len(s)
<1>1. /\ t \in Seq(X) /\ N \in Nat /\ Len(t) = N + 1 /\ t[N + 1] = e
      /\ \A i \in 1..N : s[i] = t[i]
      BY AppendProperties, LenProperties
<1> HIDE DEF t
<1>2. PICK f : IsKept(f, s, S) /\ Keeping(s, S) = f[Len(s)]
      BY KeepingIs
<1>3. PICK g : IsKept(g, t, S) /\ Keeping(t, S) = g[Len(t)]
      BY <1>1, KeepingIs
<1>4. \A n \in 0..N : f[n] = g[n]
  <2>1. N <= Len(s) /\ N <= Len(t)
        BY <1>1
  <2>2. IsKept(f, s, S) /\ IsKept(g, t, S)
        BY <1>2, <1>3
  <2> HIDE DEF N
  <2> QED BY <1>1, <2>1, <2>2, KeptPrefix, SMTT(60)
<1>5. \A n \in 1..Len(t) : g[n] = IF t[n] \in S THEN Append(g[n - 1], t[n]) ELSE g[n - 1]
      BY <1>1, <1>3, KeptSteps
<1>6. g[N + 1] = IF e \in S THEN Append(g[N], e) ELSE g[N]
  <2>1. N + 1 \in 1..Len(t) /\ (N + 1) - 1 = N
        BY <1>1
  <2> QED BY <1>1, <1>5, <2>1
<1>7. f[N] = g[N]
      BY <1>1, <1>4
<1> QED BY <1>1, <1>2, <1>3, <1>6, <1>7 DEF t

LEMMA KeepingTail ==
  ASSUME NEW X, NEW s \in Seq(X), s # <<>>, NEW S
  PROVE  Keeping(s, S) = KeptFirst(s, S) \o Keeping(Tail(s), S)
<1>1. Tail(s) \in Seq(X)
      BY HeadTailProperties
<1>2. PICK f : IsKept(f, s, S) /\ Keeping(s, S) = f[Len(s)]
      BY KeepingIs
<1>3. PICK g : IsKept(g, Tail(s), S) /\ Keeping(Tail(s), S) = g[Len(Tail(s))]
      BY <1>1, KeepingIs
<1>4. f[Len(s)] = KeptFirst(s, S) \o g[Len(Tail(s))]
  <2>1. IsKept(f, s, S) /\ IsKept(g, Tail(s), S)
        BY <1>2, <1>3
  <2> QED BY <2>1, KeptTail, SMTT(60)
<1> QED BY <1>2, <1>3, <1>4

LEMMA KeepingNothing ==
  ASSUME NEW X, NEW s \in Seq(X), NEW S, Keeping(s, S) = <<>>
  PROVE  \A i \in 1..Len(s) : s[i] \notin S
<1>1. PICK f : IsKept(f, s, S) /\ Keeping(s, S) = f[Len(s)]
      BY KeepingIs
<1> QED BY <1>1, KeptNothing

-----------------------------------------------------------------------------
(* Reports and events.                                                     *)

Replies == [type : {"reply"}, req : Requests, version : 0..MaxVersion]

EdgeReports == [type : {"edge"}, edge : Edges, version : 0..MaxVersion]

IsReply(report) == report.type = "reply"

LEMMA ReportParts ==
  ASSUME NEW r \in Reports
  PROVE  /\ IsReply(r) => r \in Replies /\ ~IsBeEvent(r)
         /\ IsBeEvent(r) => r \in EdgeReports /\ r.edge \in Edges /\ r.version \in 0..MaxVersion
         /\ EventOf(r) \in Events
         /\ EventOf(r) \in Measured => IsBeEvent(r)
         /\ IsBeEvent(r) => (EventOf(r) = "left" <=> r.edge = "left")
<1> USE DEF IsReply, IsBeEvent, EventOf, Events, Measured
<1>0. MaxVersion \in Nat
      BY SessionAssumption
<1>1. CASE \E q \in Requests, v \in 0..MaxVersion : r = Reply(q, v)
      BY <1>0, <1>1 DEF Reply, Replies
<1>2. CASE \E e \in Edges, v \in 0..MaxVersion : r = Edge(e, v)
      BY <1>0, <1>2 DEF Edge, EdgeReports, Edges
<1>3. CASE r = CmdFail
      BY <1>0, <1>3 DEF CmdFail
<1>4. CASE \E n \in NoiseKinds : r = Noise(n)
      BY <1>0, <1>4, SessionAssumption DEF Noise
<1> QED BY <1>1, <1>2, <1>3, <1>4 DEF Reports

EventsOf(w) == [i \in 1..Len(w) |-> EventOf(w[i])]

LEMMA EventsType ==
  ASSUME NEW w \in Seq(Reports)
  PROVE  EventsOf(w) \in Seq(Events)
<1>1. Len(w) \in Nat /\ \A i \in 1..Len(w) : w[i] \in Reports
      BY LenProperties, ElementOfSeq
<1>2. \A i \in 1..Len(w) : EventOf(w[i]) \in Events
      BY <1>1, ReportParts
<1> QED BY <1>1, <1>2 DEF EventsOf

LEMMA EventsAppend ==
  ASSUME NEW w \in Seq(Reports), NEW r \in Reports
  PROVE  /\ EventsOf(w) \in Seq(Events) /\ EventOf(r) \in Events
         /\ EventsOf(Append(w, r)) = Append(EventsOf(w), EventOf(r))
<1>1. Len(w) \in Nat /\ \A i \in 1..Len(w) : w[i] \in Reports
      BY LenProperties, ElementOfSeq
<1>2. \A i \in 1..Len(w) : EventOf(w[i]) \in Events
      BY <1>1, ReportParts
<1>3. EventOf(r) \in Events
      BY ReportParts
<1>4. EventsOf(w) \in Seq(Events) /\ Len(EventsOf(w)) = Len(w)
      BY <1>1, <1>2 DEF EventsOf
<1> QED BY <1>1, <1>3, <1>4 DEF EventsOf

LEMMA EventsTail ==
  ASSUME NEW w \in Seq(Reports), w # <<>>
  PROVE  /\ EventsOf(w) \in Seq(Events) /\ EventsOf(w) # <<>> /\ Head(EventsOf(w)) = EventOf(Head(w))
         /\ Tail(EventsOf(w)) = EventsOf(Tail(w))
<1>1. Len(w) \in Nat /\ Len(w) # 0 /\ \A i \in 1..Len(w) : w[i] \in Reports
      BY LenProperties, ElementOfSeq, EmptySeq
<1>2. \A i \in 1..Len(w) : EventOf(w[i]) \in Events
      BY <1>1, ReportParts
<1>3. EventsOf(w) \in Seq(Events) /\ Len(EventsOf(w)) = Len(w)
      BY <1>1, <1>2 DEF EventsOf
<1> QED BY <1>1, <1>3 DEF EventsOf

\* What one event adds to the edges.
First(e) == IF e \in Measured THEN <<e>> ELSE <<>>

LEMMA FirstType == ASSUME NEW e PROVE First(e) \in Seq(Measured)
BY EmptySeq DEF First

LEMMA EdgesType == ASSUME NEW s \in Seq(Events) PROVE EdgesIn(s) \in Seq(Measured)
BY KeepingType DEF EdgesIn

LEMMA EdgesAppend ==
  ASSUME NEW X, NEW s \in Seq(X), NEW e \in X
  PROVE  EdgesIn(Append(s, e)) = EdgesIn(s) \o First(e)
<1> DEFINE k == Keeping(s, Measured)
<1>1. Keeping(Append(s, e), Measured) = IF e \in Measured THEN Append(k, e) ELSE k
      BY KeepingAppend
<1>2. k \in Seq(Measured)
      BY KeepingType
<1> HIDE DEF k
<1>3. k \o <<>> = k
      BY <1>2, ConcatEmptySeq
<1>4. e \in Measured => Append(k, e) = k \o <<e>>
      BY <1>2, AppendIsConcat
<1>5. Keeping(Append(s, e), Measured) = k \o First(e)
      BY <1>1, <1>3, <1>4 DEF First
<1> QED BY <1>5 DEF EdgesIn, k

LEMMA WireAppend ==
  ASSUME NEW w \in Seq(Reports), NEW r \in Reports
  PROVE  EdgesIn(EventsOf(Append(w, r))) = EdgesIn(EventsOf(w)) \o First(EventOf(r))
<1> DEFINE s == EventsOf(w)
           e == EventOf(r)
<1>1. s \in Seq(Events) /\ e \in Events /\ EventsOf(Append(w, r)) = Append(s, e)
      BY EventsAppend
<1> HIDE DEF s, e
<1>2. EdgesIn(Append(s, e)) = EdgesIn(s) \o First(e)
      BY <1>1, EdgesAppend
<1> QED BY <1>1, <1>2 DEF s, e

LEMMA EdgesTail ==
  ASSUME NEW s \in Seq(Events), s # <<>>
  PROVE  EdgesIn(s) = First(Head(s)) \o EdgesIn(Tail(s))
<1>1. Keeping(s, Measured) = KeptFirst(s, Measured) \o Keeping(Tail(s), Measured)
      BY KeepingTail
<1> QED BY <1>1 DEF EdgesIn, First, KeptFirst

LEMMA WireTail ==
  ASSUME NEW w \in Seq(Reports), w # <<>>
  PROVE  EdgesIn(EventsOf(w)) = First(EventOf(Head(w))) \o EdgesIn(EventsOf(Tail(w)))
<1> DEFINE s == EventsOf(w)
<1>1. s \in Seq(Events) /\ s # <<>> /\ Head(s) = EventOf(Head(w)) /\ Tail(s) = EventsOf(Tail(w))
      BY EventsTail
<1> HIDE DEF s
<1>2. EdgesIn(s) = First(Head(s)) \o EdgesIn(Tail(s))
      BY <1>1, EdgesTail
<1> QED BY <1>1, <1>2 DEF s

LEMMA NoEdges ==
  ASSUME NEW s \in Seq(Events), EdgesIn(s) = <<>>
  PROVE  \A i \in 1..Len(s) : s[i] \notin Measured
BY KeepingNothing DEF EdgesIn
LEMMA EdgesAssociate ==
  ASSUME NEW a \in Seq(Measured), NEW b \in Seq(Measured), NEW c \in Seq(Measured)
  PROVE  (a \o b) \o c = a \o (b \o c)
BY ConcatAssociative

-----------------------------------------------------------------------------
(* The types a session keeps.                                              *)

SessionTypes ==
  /\ version \in 0..MaxVersion /\ adjusting \in BOOLEAN
  /\ owed \in Seq(Requests) /\ wire \in Seq(Reports) /\ emitted \in Seq(Edges)
  /\ queue \in Seq(Events)
  /\ call # None => call \in Calls
  /\ result # None => result \in Oks \cup Errors /\ call = None

LEMMA SentReports ==
  ASSUME SessionTypes
  PROVE  /\ \A r \in Requests : Reply(r, ValueOf(r)) \in Reports
         /\ \A e \in Edges : Edge(e, version) \in Reports
         /\ CmdFail \in Reports /\ \A n \in NoiseKinds : Noise(n) \in Reports
<1>1. version \in 0..MaxVersion /\ 0 \in 0..MaxVersion
      BY SessionAssumption DEF SessionTypes
<1>2. \A r \in Requests : ValueOf(r) \in 0..MaxVersion
      BY <1>1 DEF ValueOf
<1> QED BY <1>1, <1>2 DEF Reports

LEMMA ErrorsAre == \A w \in {"io", "device", "timeout"} : Error(w) \in Errors /\ Error(w) # None
BY NoneAssumption DEF Error, Errors

LEMMA OksAre ==
  ASSUME NEW report \in Reports
  PROVE  Ok(report) \in Oks /\ Ok(report) # None
BY NoneAssumption DEF Ok, Oks

LEMMA BoardKeepsTypes ==
  ASSUME SessionTypes, BoardNext, UNCHANGED hostVars
  PROVE  SessionTypes'
<1>1. UNCHANGED <<queue, call, result>>
      BY DEF hostVars
<1> USE DEF SessionTypes
<1>2. owed # <<>> => Head(owed) \in Requests /\ Tail(owed) \in Seq(Requests)
      BY HeadTailProperties
<1>3. CASE Answer
  <2>1. PICK report \in {Reply(Head(owed), ValueOf(Head(owed))), CmdFail} : wire' = Append(wire, report)
        BY <1>3 DEF Answer
  <2>2. report \in Reports
        BY <1>2, <1>3, <2>1, SentReports DEF Answer
  <2>3. wire' \in Seq(Reports)
        BY <2>1, <2>2, AppendProperties
  <2> QED BY <1>1, <1>2, <1>3, <2>3 DEF Answer
<1>4. CASE LoseRequest
      BY <1>1, <1>2, <1>4 DEF LoseRequest
<1>5. CASE EditByHand
      BY <1>1, <1>5, SessionAssumption DEF EditByHand
<1>6. ASSUME NEW e \in Edges, SendEdge(e) PROVE SessionTypes'
  <2>1. Edge(e, version) \in Reports
        BY SentReports
  <2>2. wire' \in Seq(Reports) /\ emitted' \in Seq(Edges)
        BY <1>6, <2>1, AppendProperties DEF SendEdge
  <2> QED BY <1>1, <1>6, <2>2 DEF SendEdge
<1>7. ASSUME NEW n \in NoiseKinds, SendNoise(n) PROVE SessionTypes'
  <2>1. Noise(n) \in Reports
        BY SentReports
  <2>2. wire' \in Seq(Reports)
        BY <1>7, <2>1, AppendProperties DEF SendNoise
  <2> QED BY <1>1, <1>7, <2>2 DEF SendNoise
<1> QED BY <1>3, <1>4, <1>5, <1>6, <1>7 DEF BoardNext

LEMMA AskKeepsTypes ==
  ASSUME SessionTypes, NEW r \in Requests, Ask(r)
  PROVE  /\ SessionTypes' /\ UNCHANGED <<version, adjusting, wire, emitted, queue>>
         /\ (call' # None \/ result' # None)
<1>1. Append(owed, r) \in Seq(Requests)
      BY AppendProperties DEF SessionTypes
<1>2. [req |-> r, reads |-> 0, elapsed |-> 0] \in Calls
      BY DEF Calls
<1>3. Error("io") \in Errors /\ Error("io") # None
      BY ErrorsAre
<1>4. CASE call' = [req |-> r, reads |-> 0, elapsed |-> 0] /\ owed' = Append(owed, r) /\ UNCHANGED result
      BY <1>1, <1>2, <1>4, NoneAssumption DEF Ask, SessionTypes
<1>5. CASE result' = Error("io") /\ UNCHANGED <<call, owed>>
      BY <1>3, <1>5 DEF Ask, SessionTypes
<1> QED BY <1>4, <1>5 DEF Ask

\* A roundtrip goes on with the same request or returns.
LEMMA RoundtripKeepsTypes ==
  ASSUME SessionTypes, RoundtripNext
  PROVE  /\ SessionTypes' /\ UNCHANGED <<version, adjusting, owed, emitted>>
         /\ call # None /\ result = None
         /\ \/ call' # None /\ call'.req = call.req /\ result' = None
            \/ call' = None /\ result' # None
<1>1. UNCHANGED <<version, adjusting, owed, emitted>>
      BY DEF RoundtripNext, Receive, RecvTimeout, GiveUp, RecvFails, boardVars
<1>2. wire # <<>> => Head(wire) \in Reports /\ Tail(wire) \in Seq(Reports) /\ EventOf(Head(wire)) \in Events
      BY HeadTailProperties, ReportParts DEF SessionTypes
<1>3. wire' \in Seq(Reports) /\ queue' \in Seq(Events)
  <2>1. wire' = wire \/ (wire # <<>> /\ wire' = Tail(wire))
        BY DEF RoundtripNext, Receive, RecvTimeout, GiveUp, RecvFails, boardVars
  <2>2. queue' = queue \/ (wire # <<>> /\ queue' = Append(queue, EventOf(Head(wire))))
        BY DEF RoundtripNext, Receive, RecvTimeout, GiveUp, RecvFails, boardVars
  <2>3. wire # <<>> => Append(queue, EventOf(Head(wire))) \in Seq(Events)
        BY <1>2, AppendProperties DEF SessionTypes
  <2> QED BY <1>2, <2>1, <2>2, <2>3 DEF SessionTypes
<1>4. call # None /\ result = None /\ call \in Calls
      BY DEF SessionTypes, RoundtripNext, Receive, RecvTimeout, GiveUp, RecvFails, Listening
<1>5. ASSUME NEW n \in Nat, NEW m \in Nat, call' = [call EXCEPT !.reads = n, !.elapsed = m]
      PROVE  call' \in Calls /\ call'.req = call.req
      BY <1>4, <1>5 DEF Calls
<1>6. call.reads \in Nat /\ call.elapsed \in Nat
      BY <1>4 DEF Calls
<1>7. ASSUME Read PROVE call' \in Calls /\ call'.req = call.req
  <2>1. PICK wait \in {0, 1} :
          call' = [call EXCEPT !.reads = IF @ < MAX_READS THEN @ + 1 ELSE @, !.elapsed = @ + wait]
        BY <1>7 DEF Read
  <2>2. PICK n \in Nat : n = IF call.reads < MAX_READS THEN call.reads + 1 ELSE call.reads
        BY <1>6
  <2>3. PICK m \in Nat : m = call.elapsed + wait
        BY <1>6
  <2>4. call' = [call EXCEPT !.reads = n, !.elapsed = m]
        BY <2>1, <2>2, <2>3
  <2> QED BY <1>5, <2>4
<1>8. ASSUME RecvTimeout PROVE call' \in Calls /\ call'.req = call.req
  <2>1. PICK n \in Nat : n = call.reads + 1
        BY <1>6
  <2>2. PICK m \in Nat : m = call.elapsed + 1
        BY <1>6
  <2>3. call' = [call EXCEPT !.reads = n, !.elapsed = m]
        BY <1>8, <2>1, <2>2 DEF RecvTimeout
  <2> QED BY <1>5, <2>3
<1>9. \/ (Read \/ RecvTimeout) /\ result' = result
      \/ /\ call' = None
         /\ \/ result' \in {Error("device"), Error("timeout"), Error("io")}
            \/ wire # <<>> /\ result' = Ok(Head(wire))
      BY DEF RoundtripNext, Receive, RecvTimeout, GiveUp, RecvFails, Return
<1>10. CASE (Read \/ RecvTimeout) /\ result' = result
  <2>1. call' \in Calls /\ call'.req = call.req
        BY <1>7, <1>8, <1>10
  <2>2. call' # None
        BY <2>1, NoneAssumption
  <2> QED BY <1>1, <1>3, <1>4, <1>10, <2>1, <2>2 DEF SessionTypes
<1>11. CASE /\ call' = None
            /\ \/ result' \in {Error("device"), Error("timeout"), Error("io")}
               \/ wire # <<>> /\ result' = Ok(Head(wire))
  <2>1. result' \in Oks \cup Errors /\ result' # None
        BY <1>2, <1>11, ErrorsAre, OksAre
  <2> QED BY <1>1, <1>3, <1>4, <1>11, <2>1 DEF SessionTypes
<1> QED BY <1>9, <1>10, <1>11

-----------------------------------------------------------------------------
(* No edge is lost, doubled or overtaken on its way to the queue.          *)

LEMMA OnWireIs ==
  ASSUME SessionTypes
  PROVE  /\ OnWire = EdgesIn(EventsOf(wire)) /\ OnWire \in Seq(Measured)
         /\ EdgesIn(queue) \in Seq(Measured) /\ EdgesIn(emitted) \in Seq(Measured)
<1>1. OnWire = EdgesIn(EventsOf(wire))
      BY DEF OnWire, EventsOf
<1>2. EventsOf(wire) \in Seq(Events)
      BY EventsType DEF SessionTypes
<1>3. EdgesIn(emitted) \in Seq(Measured)
      BY KeepingType DEF SessionTypes, EdgesIn
<1> QED BY <1>1, <1>2, <1>3, EdgesType DEF SessionTypes

\* What the board says has been sent joins the end of the wire.
LEMMA BoardSendsEdges ==
  ASSUME SessionTypes, BoardNext
  PROVE  \E x \in Seq(Measured) : OnWire' = OnWire \o x /\ EdgesIn(emitted') = EdgesIn(emitted) \o x
<1>1. /\ <<>> \in Seq(Measured) /\ OnWire \o <<>> = OnWire
      /\ EdgesIn(emitted) \o <<>> = EdgesIn(emitted)
      BY OnWireIs, ConcatEmptySeq, EmptySeq
<1>2. ASSUME NEW r \in Reports, wire' = Append(wire, r), EdgesIn(emitted') = EdgesIn(emitted) \o First(EventOf(r))
      PROVE  \E x \in Seq(Measured) : OnWire' = OnWire \o x /\ EdgesIn(emitted') = EdgesIn(emitted) \o x
  <2>1. First(EventOf(r)) \in Seq(Measured)
        BY FirstType
  <2>2. EdgesIn(EventsOf(Append(wire, r))) = EdgesIn(EventsOf(wire)) \o First(EventOf(r))
        BY WireAppend DEF SessionTypes
  <2>3. OnWire' = OnWire \o First(EventOf(r))
        BY <1>2, <2>2 DEF OnWire, EventsOf
  <2> QED BY <1>2, <2>1, <2>3
<1>3. CASE Answer
  <2>1. PICK report \in {Reply(Head(owed), ValueOf(Head(owed))), CmdFail} : wire' = Append(wire, report)
        BY <1>3 DEF Answer
  <2>2. report \in Reports
    <3>1. Head(owed) \in Requests
          BY <1>3, HeadTailProperties DEF Answer, SessionTypes
    <3> QED BY <2>1, <3>1, SentReports
  <2>3. First(EventOf(report)) = <<>> /\ emitted' = emitted
        BY <1>3, <2>1 DEF Answer, First, EventOf, Reply, CmdFail, Measured
  <2> QED BY <1>1, <1>2, <2>1, <2>2, <2>3
<1>4. CASE LoseRequest \/ EditByHand
  <2>1. OnWire' = OnWire /\ emitted' = emitted
        BY <1>4 DEF LoseRequest, EditByHand, OnWire
  <2> QED BY <1>1, <2>1
<1>5. ASSUME NEW e \in Edges, SendEdge(e)
      PROVE  \E x \in Seq(Measured) : OnWire' = OnWire \o x /\ EdgesIn(emitted') = EdgesIn(emitted) \o x
  <2>1. wire' = Append(wire, Edge(e, version)) /\ Edge(e, version) \in Reports
        BY <1>5, SentReports DEF SendEdge
  <2>2. EdgesIn(Append(emitted, e)) = EdgesIn(emitted) \o First(e)
        BY EdgesAppend DEF SessionTypes
  <2>3. First(EventOf(Edge(e, version))) = First(e)
        BY DEF First, EventOf, Edge, Edges, Measured
  <2>4. emitted' = Append(emitted, e)
        BY <1>5 DEF SendEdge
  <2> QED BY <1>2, <2>1, <2>2, <2>3, <2>4
<1>6. ASSUME NEW n \in NoiseKinds, SendNoise(n)
      PROVE  \E x \in Seq(Measured) : OnWire' = OnWire \o x /\ EdgesIn(emitted') = EdgesIn(emitted) \o x
  <2>1. wire' = Append(wire, Noise(n)) /\ Noise(n) \in Reports /\ emitted' = emitted
        BY <1>6, SentReports DEF SendNoise
  <2>2. First(EventOf(Noise(n))) = <<>>
        BY SessionAssumption DEF First, EventOf, Noise, Measured
  <2> QED BY <1>1, <1>2, <2>1, <2>2
<1> QED BY <1>3, <1>4, <1>5, <1>6 DEF BoardNext

\* The first report leaves the wire.
LEMMA WireLosesEdges ==
  ASSUME SessionTypes, wire # <<>>, wire' = Tail(wire)
  PROVE  First(EventOf(Head(wire))) \in Seq(Measured) /\ OnWire = First(EventOf(Head(wire))) \o OnWire'
<1>1. OnWire = First(EventOf(Head(wire))) \o EdgesIn(EventsOf(Tail(wire)))
      BY OnWireIs, WireTail DEF SessionTypes
<1>2. OnWire' = EdgesIn(EventsOf(Tail(wire)))
      BY DEF OnWire, EventsOf
<1> QED BY <1>1, <1>2, FirstType

LEMMA RoundtripHearsEdges ==
  ASSUME SessionTypes, RoundtripNext
  PROVE  \E x \in Seq(Measured) : OnWire = x \o OnWire' /\ EdgesIn(queue') = EdgesIn(queue) \o x
<1>1. <<>> \in Seq(Measured) /\ <<>> \o OnWire = OnWire /\ EdgesIn(queue) \o <<>> = EdgesIn(queue)
      BY OnWireIs, ConcatEmptySeq, EmptySeq
<1>2. CASE Receive
  <2>1. wire # <<>> /\ wire' = Tail(wire)
        BY <1>2 DEF Receive
  <2>2. First(EventOf(Head(wire))) \in Seq(Measured) /\ OnWire = First(EventOf(Head(wire))) \o OnWire'
        BY <2>1, WireLosesEdges
  <2>3. CASE IsBeEvent(Head(wire))
    <3>1. queue' = Append(queue, EventOf(Head(wire)))
          BY <1>2, <2>3 DEF Receive, IsBeEvent, CmdFail
    <3>2. EventOf(Head(wire)) \in Events
          BY <2>1, HeadTailProperties, ReportParts DEF SessionTypes
    <3>3. EdgesIn(Append(queue, EventOf(Head(wire)))) = EdgesIn(queue) \o First(EventOf(Head(wire)))
          BY <3>2, EdgesAppend DEF SessionTypes
    <3> QED BY <2>2, <3>1, <3>3
  <2>4. CASE ~IsBeEvent(Head(wire))
    <3>1. First(EventOf(Head(wire))) = <<>> /\ queue' = queue
          BY <1>2, <2>4 DEF Receive, First, EventOf, IsBeEvent, Measured
    <3> QED BY <1>1, <2>2, <3>1
  <2> QED BY <2>3, <2>4
<1>3. CASE RecvTimeout \/ GiveUp \/ RecvFails
  <2>1. OnWire' = OnWire /\ queue' = queue
        BY <1>3 DEF RecvTimeout, GiveUp, RecvFails, boardVars, OnWire
  <2> QED BY <1>1, <2>1
<1> QED BY <1>2, <1>3 DEF RoundtripNext

LEMMA Shifted ==
  ASSUME NEW X, NEW s \in Seq(X), s # <<>>
  PROVE  \E N \in Nat : /\ Len(s) = N + 1 /\ Len(Tail(s)) = N /\ Tail(s) \in Seq(X)
                        /\ s[1] \in X /\ Head(s) = s[1] /\ \A i \in 1..N : Tail(s)[i] = s[i + 1]
<1>1. /\ Len(s) \in Nat /\ Tail(s) \in Seq(X) /\ Head(s) = s[1] /\ Head(s) \in X
      /\ Len(Tail(s)) = Len(s) - 1
      /\ \A i \in 1..Len(Tail(s)) : Tail(s)[i] = s[i + 1]
      BY HeadTailProperties, LenProperties
<1>2. Len(s) # 0
      BY EmptySeq
<1>3. Len(Tail(s)) \in Nat /\ Len(s) = Len(Tail(s)) + 1
      BY <1>1, <1>2
<1> QED BY <1>1, <1>3

=============================================================================
