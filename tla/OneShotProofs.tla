----------------------------- MODULE OneShotProofs -----------------------------
(***************************************************************************)
(* For any number of commands one after the other, with answers late or    *)
(* lost: what a command reads of a key is that key's and not older than    *)
(* the command, the notes on adjust mode tell what was heard, and as long  *)
(* as nothing was owed at the start the sessions implement RemoteRead.     *)
(*                                                                         *)
(* Within a session a matrix answer may be the answer to an earlier        *)
(* question, so no single answer can be told apart.  The invariant counts: *)
(* a late answer to a per-key request has on the wire, or behind it, fewer *)
(* matrix answers in front of it than the command will still take          *)
(* (RowsInFront), so it is read past before the keys are asked; from there *)
(* on the one answer to come is the one to the question asked              *)
(* (KeysOnlyAsked).  If nothing was owed at the start that holds of every  *)
(* question (AllOnlyAsked), and then the rows read, or the keys read, with *)
(* those still to ask are all there are (KeysToCome).                      *)
(***************************************************************************)
EXTENDS OneShot, SessionProofs

\* Ranges of sequences.
LEMMA RangeAppend ==
  ASSUME NEW X, NEW s \in Seq(X), NEW e
  PROVE  Range(Append(s, e)) = Range(s) \cup {e}
<1> DEFINE t == Append(s, e)
           N == Len(s)
<1>1. N \in Nat /\ DOMAIN s = 1..N
      BY LenProperties
<1>2. DOMAIN t = 1..(N + 1) /\ t[N + 1] = e /\ \A i \in 1..N : t[i] = s[i]
      BY <1>1
<1> HIDE DEF t, N
<1>3. \A i \in 1..(N + 1) : i = N + 1 \/ i \in 1..N
      BY <1>1
<1>4. N + 1 \in 1..(N + 1) /\ \A i \in 1..N : i \in 1..(N + 1)
      BY <1>1
<1> QED BY <1>1, <1>2, <1>3, <1>4 DEF Range, t

LEMMA RangeIs ==
  ASSUME NEW X, NEW s \in Seq(X)
  PROVE  Range(s) = {s[i] : i \in 1..Len(s)} /\ Range(s) \subseteq X /\ Len(s) \in Nat
BY LenProperties, ElementOfSeq DEF Range

\* Added's function, and what it gives.
LEMMA AddedIs ==
  ASSUME NEW X, NEW seen \in Seq(X), NEW keys \in Seq(X)
  PROVE  Added(seen, keys) \in Seq(X) /\ Range(Added(seen, keys)) = Range(seen) \cup Range(keys)
<1> DEFINE N == Len(keys)
           Y == Seq(X)
           Def(f) == f = [n \in 0..N |-> IF n = 0 THEN seen
                                         ELSE IF keys[n] \in Range(f[n - 1]) THEN f[n - 1]
                                         ELSE Append(f[n - 1], keys[n])]
           k == CHOOSE f : Def(f)
           F == [x \in (1..N) \X Y |-> IF keys[x[1]] \in Range(x[2]) THEN x[2] ELSE Append(x[2], keys[x[1]])]
<1>1. N \in Nat /\ (\A i \in 1..N : keys[i] \in X) /\ seen \in Y /\ Range(keys) = {keys[i] : i \in 1..N}
      BY RangeIs, ElementOfSeq
<1>2. F \in [(1..N) \X Y -> Y]
      BY <1>1, AppendProperties
<1>3. \A x \in (1..N) \X Y :
        F[x] = IF keys[x[1]] \in Range(x[2]) THEN x[2] ELSE Append(x[2], keys[x[1]])
      OBVIOUS
<1> HIDE DEF F, Y, N
<1>4. \E f : IsRecursion(f, N, Y, seen, F)
      BY <1>1, <1>2, RecursionExists
<1>5. ASSUME NEW f, IsRecursion(f, N, Y, seen, F) PROVE Def(f)
  <2>1. f \in [0..N -> Y] /\ f[0] = seen
        BY <1>5 DEF IsRecursion
  <2>2. ASSUME NEW n \in 0..N
        PROVE  f[n] = IF n = 0 THEN seen
                      ELSE IF keys[n] \in Range(f[n - 1]) THEN f[n - 1] ELSE Append(f[n - 1], keys[n])
    <3>1. n = 0 \/ (n \in 1..N /\ n - 1 \in 0..N)
          BY <1>1
    <3>2. CASE n \in 1..N /\ n - 1 \in 0..N
      <4>1. f[n] = F[<<n, f[n - 1]>>] /\ n # 0
            BY <1>5, <3>2 DEF IsRecursion
      <4>2. <<n, f[n - 1]>> \in (1..N) \X Y
            BY <2>1, <3>2
      <4> QED BY <1>3, <4>1, <4>2
    <3> QED BY <2>1, <3>1, <3>2
  <2>3. f = [n \in 0..N |-> f[n]]
        BY <2>1
  <2> QED BY <2>2, <2>3
<1>6. Def(k)
      BY <1>4, <1>5
<1>7. Added(seen, keys) = k[N]
      BY DEF Added, N
<1> HIDE DEF k
<1>8. k[0] = seen
      BY <1>1, <1>6
<1>9. ASSUME NEW n \in 1..N
      PROVE  k[n] = IF keys[n] \in Range(k[n - 1]) THEN k[n - 1] ELSE Append(k[n - 1], keys[n])
  <2>1. n \in 0..N /\ n # 0
        BY <1>1
  <2> QED BY <1>6, <2>1
<1> DEFINE T == {n \in 0..N : k[n] \in Seq(X) /\ Range(k[n]) = Range(seen) \cup {keys[i] : i \in 1..n}}
<1>10. 0 \in T
       BY <1>1, <1>8 DEF Y
<1>11. ASSUME NEW n \in 0..(N - 1), n \in T PROVE n + 1 \in T
  <2>1. n + 1 \in 1..N /\ (n + 1) - 1 = n /\ keys[n + 1] \in X
        BY <1>1
  <2>2. k[n + 1] = IF keys[n + 1] \in Range(k[n]) THEN k[n] ELSE Append(k[n], keys[n + 1])
        BY <1>9, <2>1
  <2>3. {keys[i] : i \in 1..(n + 1)} = {keys[i] : i \in 1..n} \cup {keys[n + 1]}
    <3>1. \A i \in 1..(n + 1) : i = n + 1 \/ i \in 1..n
          OBVIOUS
    <3>2. n + 1 \in 1..(n + 1) /\ \A i \in 1..n : i \in 1..(n + 1)
          OBVIOUS
    <3> QED BY <3>1, <3>2
  <2>4. k[n] \in Seq(X) /\ Range(k[n]) = Range(seen) \cup {keys[i] : i \in 1..n}
        BY <1>11
  <2>5. Append(k[n], keys[n + 1]) \in Seq(X) /\ Range(Append(k[n], keys[n + 1])) = Range(k[n]) \cup {keys[n + 1]}
    <3> DEFINE e == keys[n + 1]
               h == k[n]
    <3>1. h \in Seq(X) /\ e \in X
          BY <2>1, <2>4
    <3> HIDE DEF e, h
    <3> QED BY <3>1, RangeAppend, AppendProperties DEF e, h
  <2>6. k[n + 1] \in Seq(X) /\ Range(k[n + 1]) = Range(k[n]) \cup {keys[n + 1]}
        BY <2>2, <2>4, <2>5
  <2>7. Range(k[n + 1]) = Range(seen) \cup {keys[i] : i \in 1..(n + 1)}
        BY <2>3, <2>4, <2>6
  <2>8. n + 1 \in 0..N
        BY <2>1
  <2> QED BY <2>6, <2>7, <2>8
<1> HIDE DEF T
<1>12. \A n \in 0..N : n \in T
       BY <1>1, <1>10, <1>11, UpTo
<1>13. N \in T
       BY <1>1, <1>12
<1> QED BY <1>1, <1>7, <1>13 DEF T

-----------------------------------------------------------------------------
(* What is kept: which elements, and the last of them.                      *)

LEMMA KeepingRange ==
  ASSUME NEW X, NEW s \in Seq(X), NEW S
  PROVE  Range(Keeping(s, S)) = Range(s) \cap S
<1>1. PICK f : IsKept(f, s, S) /\ Keeping(s, S) = f[Len(s)]
      BY KeepingIs
<1>2. /\ Len(s) \in Nat /\ f[0] = <<>> /\ \A n \in 0..Len(s) : f[n] \in Seq(S)
      /\ \A n \in 1..Len(s) : f[n] = IF s[n] \in S THEN Append(f[n - 1], s[n]) ELSE f[n - 1]
      BY <1>1, KeptSteps
<1>3. Range(s) = {s[i] : i \in 1..Len(s)}
      BY RangeIs
<1> DEFINE N == Len(s)
           T == {n \in 0..N : Range(f[n]) = {s[i] : i \in 1..n} \cap S}
<1>4. 0 \in T
      BY <1>2 DEF Range
<1>5. ASSUME NEW n \in 0..(N - 1), n \in T PROVE n + 1 \in T
  <2>1. n + 1 \in 1..N /\ (n + 1) - 1 = n /\ f[n] \in Seq(S) /\ n + 1 \in 0..N
        BY <1>2
  <2> DEFINE e == s[n + 1]
             h == f[n]
  <2>2. f[n + 1] = IF e \in S THEN Append(h, e) ELSE h
        BY <1>2, <2>1
  <2>3. {s[i] : i \in 1..(n + 1)} = {s[i] : i \in 1..n} \cup {e}
    <3>1. \A i \in 1..(n + 1) : i = n + 1 \/ i \in 1..n
          OBVIOUS
    <3>2. n + 1 \in 1..(n + 1) /\ \A i \in 1..n : i \in 1..(n + 1)
          OBVIOUS
    <3> QED BY <3>1, <3>2
  <2>4. h \in Seq(S) /\ Range(h) = {s[i] : i \in 1..n} \cap S
        BY <1>5, <2>1
  <2> HIDE DEF e, h
  <2>5. Range(Append(h, e)) = Range(h) \cup {e}
        BY <2>4, RangeAppend
  <2>6. Range(f[n + 1]) = {s[i] : i \in 1..(n + 1)} \cap S
        BY <2>2, <2>3, <2>4, <2>5
  <2> QED BY <2>1, <2>6
<1> HIDE DEF T
<1>6. \A n \in 0..N : n \in T
      BY <1>2, <1>4, <1>5, UpTo
<1>7. N \in T
      BY <1>2, <1>6
<1> QED BY <1>1, <1>3, <1>7 DEF T

LEMMA KeepingLast ==
  ASSUME NEW X, NEW s \in Seq(X), NEW S, Keeping(s, S) # <<>>
  PROVE  \E i \in 1..Len(s) : /\ s[i] \in S /\ Last(Keeping(s, S)) = s[i]
                              /\ \A j \in 1..Len(s) : j > i => s[j] \notin S
<1>1. PICK f : IsKept(f, s, S) /\ Keeping(s, S) = f[Len(s)]
      BY KeepingIs
<1>2. /\ Len(s) \in Nat /\ f[0] = <<>> /\ \A n \in 0..Len(s) : f[n] \in Seq(S)
      /\ \A n \in 1..Len(s) : f[n] = IF s[n] \in S THEN Append(f[n - 1], s[n]) ELSE f[n - 1]
      BY <1>1, KeptSteps
<1> DEFINE N == Len(s)
           At(n, i) == s[i] \in S /\ Last(f[n]) = s[i] /\ \A j \in 1..n : j > i => s[j] \notin S
           T == {n \in 0..N : f[n] # <<>> => \E i \in 1..n : At(n, i)}
<1>3. 0 \in T
      BY <1>2
<1>4. ASSUME NEW n \in 0..(N - 1), n \in T PROVE n + 1 \in T
  <2>1. n + 1 \in 1..N /\ (n + 1) - 1 = n /\ f[n] \in Seq(S) /\ n + 1 \in 0..N
        BY <1>2
  <2>2. f[n + 1] = IF s[n + 1] \in S THEN Append(f[n], s[n + 1]) ELSE f[n]
        BY <1>2, <2>1
  <2>3. CASE s[n + 1] \in S
    <3> DEFINE e == s[n + 1]
               h == f[n]
    <3>1. h \in Seq(S)
          BY <2>1
    <3>2. Last(Append(h, e)) = e
      <4> HIDE DEF e, h
      <4>1. Append(h, e)[Len(Append(h, e))] = e
            BY <3>1
      <4> QED BY <4>1 DEF Last
    <3>3. Last(f[n + 1]) = s[n + 1]
          BY <2>2, <2>3, <3>2
    <3>4. At(n + 1, n + 1) /\ n + 1 \in 1..(n + 1)
          BY <2>3, <3>3
    <3> HIDE DEF At
    <3> QED BY <2>1, <3>4
  <2>4. CASE s[n + 1] \notin S /\ f[n] # <<>>
    <3>1. PICK i \in 1..n : At(n, i)
          BY <1>4, <2>4
    <3>2. \A j \in 1..(n + 1) : j = n + 1 \/ j \in 1..n
          OBVIOUS
    <3>3. At(n + 1, i) /\ i \in 1..(n + 1)
          BY <2>2, <2>4, <3>1, <3>2
    <3> HIDE DEF At
    <3> QED BY <2>1, <3>3
  <2>5. CASE s[n + 1] \notin S /\ f[n] = <<>>
        BY <2>1, <2>2, <2>5
  <2> QED BY <2>3, <2>4, <2>5
<1> HIDE DEF T
<1>5. \A n \in 0..N : n \in T
      BY <1>2, <1>3, <1>4, UpTo
<1>6. N \in T
      BY <1>2, <1>5
<1> QED BY <1>1, <1>6 DEF T

LEMMA Greatest ==
  ASSUME NEW N \in Nat, NEW S, S \subseteq 1..N, S # {}
  PROVE  \E m \in S : \A k \in S : k <= m
<1> DEFINE T == {d \in 0..N : N - d \in S}
<1>1. T \subseteq Nat
      OBVIOUS
<1>2. \A k \in S : N - k \in T /\ N - (N - k) = k
      OBVIOUS
<1>3. T # {}
      BY <1>2
<1>4. PICK d \in T : \A e \in T : d <= e
  <2> HIDE DEF T
  <2> QED BY <1>1, <1>3, Least
<1>5. N - d \in S
      OBVIOUS
<1>6. \A k \in S : k <= N - d
      BY <1>2, <1>4
<1> QED BY <1>5, <1>6

-----------------------------------------------------------------------------
(* The notes tell of each edge heard, of the last one last.                 *)

Told(note, heard) == Range(note) = Range(heard) /\ (heard # <<>> => Last(note) = Last(heard))

LEMMA NotesTell == ASSUME NEW q \in Seq(Events) PROVE Told(Notes(q), EdgesIn(q))
<1> DEFINE N == Len(q)
           last == {i \in DOMAIN q : q[i] \in Measured /\ \A j \in DOMAIN q : j > i => q[j] # q[i]}
           id == [i \in 1..N |-> i]
           at == Keeping(id, last)
           note == [n \in 1..Len(at) |-> q[at[n]]]
<1>1. N \in Nat /\ DOMAIN q = 1..N /\ Range(q) = {q[i] : i \in 1..N}
      BY LenProperties, RangeIs
<1>2. Notes(q) = note
      BY DEF Notes
<1>3. id \in Seq(1..N) /\ Len(id) = N /\ \A i \in 1..N : id[i] = i
      BY <1>1
<1>4. last = {i \in 1..N : q[i] \in Measured /\ \A j \in 1..N : j > i => q[j] # q[i]}
      BY <1>1
<1> HIDE DEF id, last, N
<1>5. at \in Seq(last) /\ Range(at) = last
  <2>1. Range(id) = 1..N
        BY <1>3 DEF Range
  <2>2. Keeping(id, last) \in Seq(last)
        BY <1>3, KeepingType
  <2>3. Range(Keeping(id, last)) = Range(id) \cap last
        BY <1>3, KeepingRange
  <2>4. Range(id) \cap last = last
        BY <1>4, <2>1
  <2> QED BY <2>2, <2>3, <2>4
<1>6. Len(at) \in Nat /\ Range(at) = {at[n] : n \in 1..Len(at)}
      BY <1>5, RangeIs
<1>7. EdgesIn(q) \in Seq(Measured) /\ Range(EdgesIn(q)) = Range(q) \cap Measured
      BY KeepingType, KeepingRange DEF EdgesIn
<1>8. ASSUME at # <<>>
      PROVE  \E i \in 1..N : i \in last /\ at[Len(at)] = i /\ \A j \in 1..N : j > i => j \notin last
  <2>1. PICK i \in 1..Len(id) : /\ id[i] \in last /\ Last(at) = id[i]
                                /\ \A j \in 1..Len(id) : j > i => id[j] \notin last
        BY <1>3, <1>8, KeepingLast
  <2> HIDE DEF at
  <2> QED BY <1>3, <2>1 DEF Last
<1> HIDE DEF at
<1>9. Range(note) = {q[i] : i \in last}
  <2>1. DOMAIN note = 1..Len(at) /\ \A n \in 1..Len(at) : note[n] = q[at[n]]
        OBVIOUS
  <2> HIDE DEF note
  <2>2. Range(note) = {q[at[n]] : n \in 1..Len(at)}
        BY <2>1 DEF Range
  <2> QED BY <1>5, <1>6, <2>2
<1>10. \A i \in 1..N : q[i] \in Measured => \E m \in last : q[m] = q[i]
  <2> TAKE i \in 1..N
  <2> HAVE q[i] \in Measured
  <2> DEFINE S == {j \in 1..N : q[j] = q[i]}
  <2>1. S # {} /\ S \subseteq 1..N
        OBVIOUS
  <2>2. PICK m \in S : \A k \in S : k <= m
    <3> HIDE DEF S
    <3> QED BY <1>1, <2>1, Greatest
  <2>3. m \in last
        BY <1>4, <2>2
  <2> QED BY <2>3
<1>11. Range(note) = Range(EdgesIn(q))
       BY <1>1, <1>4, <1>7, <1>9, <1>10
<1>12. ASSUME EdgesIn(q) # <<>> PROVE Last(note) = Last(EdgesIn(q))
  <2>1. PICK i \in 1..N : /\ q[i] \in Measured /\ Last(EdgesIn(q)) = q[i]
                          /\ \A j \in 1..N : j > i => q[j] \notin Measured
        BY <1>12, KeepingLast DEF EdgesIn, N
  <2>2. i \in last
        BY <1>4, <2>1
  <2>3. at # <<>>
        BY <1>5, <2>2 DEF Range
  <2>4. PICK m \in 1..N : m \in last /\ at[Len(at)] = m /\ \A j \in 1..N : j > m => j \notin last
        BY <1>8, <2>3
  <2>5. i = m
        BY <1>1, <1>4, <2>1, <2>2, <2>4
  <2>6. Len(at) \in 1..Len(at)
        BY <1>5, <2>3, EmptySeq, LenProperties
  <2>7. Last(note) = q[at[Len(at)]]
    <3>1. \A n \in 1..Len(at) : at[n] \in 1..N
          BY <1>4, <1>5, <1>6
    <3>2. \A n \in 1..Len(at) : q[at[n]] \in Events
          BY <1>1, <3>1, ElementOfSeq
    <3>3. note \in Seq(Events) /\ Len(note) = Len(at)
          BY <1>6, <3>2
    <3>4. note[Len(at)] = q[at[Len(at)]]
          BY <2>6
    <3> HIDE DEF note
    <3> QED BY <3>3, <3>4 DEF Last
  <2> QED BY <2>1, <2>4, <2>5, <2>7
<1> QED BY <1>2, <1>11, <1>12 DEF Told

-----------------------------------------------------------------------------
(* Counting, in the first n elements of a sequence, those of a set.         *)

Count(s, M, n) == Cardinality({i \in 1..n : s[i] \in M})

LEMMA CountType ==
  ASSUME NEW s, NEW M, NEW n \in Nat
  PROVE  Count(s, M, n) \in Nat /\ IsFiniteSet({i \in 1..n : s[i] \in M})
<1>1. IsFiniteSet(1..n)
      BY FS_Interval
<1>2. IsFiniteSet({i \in 1..n : s[i] \in M})
      BY <1>1, FS_Subset
<1> QED BY <1>2, FS_CardinalityType DEF Count

LEMMA CountNone == \A s, M : Count(s, M, 0) = 0
<1>1. \A s, M : {i \in 1..0 : s[i] \in M} = {}
      OBVIOUS
<1> QED BY <1>1, FS_EmptySet DEF Count

LEMMA CountAppend ==
  ASSUME NEW X, NEW s \in Seq(X), NEW e, NEW M
  PROVE  Count(Append(s, e), M, Len(s) + 1) = Count(s, M, Len(s)) + (IF e \in M THEN 1 ELSE 0)
<1> DEFINE N == Len(s)
           t == Append(s, e)
           A == {i \in 1..N : s[i] \in M}
           B == {i \in 1..(N + 1) : t[i] \in M}
<1>1. N \in Nat /\ t[N + 1] = e /\ \A i \in 1..N : t[i] = s[i]
      BY LenProperties
<1> HIDE DEF t, N
<1>3. B = IF e \in M THEN A \cup {N + 1} ELSE A
  <2>1. \A i \in 1..(N + 1) : i = N + 1 \/ i \in 1..N
        BY <1>1
  <2>2. N + 1 \in 1..(N + 1) /\ \A i \in 1..N : i \in 1..(N + 1)
        BY <1>1
  <2> QED BY <1>1, <2>1, <2>2
<1>4. IsFiniteSet(A) /\ N + 1 \notin A
  <2>1. IsFiniteSet(A)
        BY <1>1, CountType
  <2> QED BY <1>1, <2>1
<1>5. Cardinality(A) \in Nat
      BY <1>4, FS_CardinalityType
<1> HIDE DEF A, B
<1>6. Cardinality(A \cup {N + 1}) = Cardinality(A) + 1
      BY <1>4, FS_AddElement
<1>7. Cardinality(B) = Cardinality(A) + (IF e \in M THEN 1 ELSE 0)
      BY <1>3, <1>5, <1>6
<1> QED BY <1>7 DEF Count, A, B, t, N

LEMMA CountPrefix ==
  ASSUME NEW X, NEW s \in Seq(X), NEW e, NEW M, NEW n \in 0..Len(s)
  PROVE  Count(Append(s, e), M, n) = Count(s, M, n)
<1> DEFINE t == Append(s, e)
<1>1. \A i \in 1..n : t[i] = s[i]
      BY LenProperties
<1> HIDE DEF t
<1>2. {i \in 1..n : t[i] \in M} = {i \in 1..n : s[i] \in M}
      BY <1>1
<1> QED BY <1>2 DEF Count, t

LEMMA CountTail ==
  ASSUME NEW X, NEW s \in Seq(X), s # <<>>, NEW M, NEW n \in 0..Len(Tail(s))
  PROVE  Count(s, M, n + 1) = Count(Tail(s), M, n) + (IF Head(s) \in M THEN 1 ELSE 0)
<1> DEFINE t == Tail(s)
           A == {i \in 1..n : t[i] \in M}
           B == {i \in 1..(n + 1) : s[i] \in M}
           C == B \ {1}
           f == [i \in A |-> i + 1]
<1>1. PICK N \in Nat : /\ Len(s) = N + 1 /\ Len(Tail(s)) = N /\ Tail(s) \in Seq(X)
                       /\ s[1] \in X /\ Head(s) = s[1] /\ \A i \in 1..N : Tail(s)[i] = s[i + 1]
      BY Shifted
<1>2. n \in 0..N /\ \A i \in 1..n : t[i] = s[i + 1]
      BY <1>1
<1> HIDE DEF t
<1>3. IsFiniteSet(A) /\ IsFiniteSet(B)
  <2>1. n \in Nat /\ n + 1 \in Nat
        BY <1>2
  <2>2. IsFiniteSet(A)
        BY <2>1, CountType
  <2>3. IsFiniteSet(B)
        BY <2>1, CountType
  <2> QED BY <2>2, <2>3
<1>4. \A i \in A : i + 1 \in C
      BY <1>2
<1>5. \A j \in C : j - 1 \in A /\ (j - 1) + 1 = j
      BY <1>2
<1>6. f \in Bijection(A, C)
  <2>1. f \in [A -> C]
        BY <1>4
  <2>2. \A i, j \in A : f[i] = f[j] => i = j
        OBVIOUS
  <2>3. \A j \in C : \E i \in A : f[i] = j
        BY <1>5
  <2> HIDE DEF A, C, f
  <2> QED BY <2>1, <2>2, <2>3 DEF Bijection, Injection, Surjection, IsInjective
<1>7. 1 \in B <=> Head(s) \in M
      BY <1>1, <1>2
<1> HIDE DEF A, f
<1>8. ExistsBijection(A, C)
      BY <1>6 DEF ExistsBijection
<1>9. Cardinality(C) = Cardinality(A) /\ Cardinality(A) \in Nat
  <2> HIDE DEF C
  <2> QED BY <1>3, <1>8, FS_Bijection, FS_CardinalityType
<1> HIDE DEF B
<1>10. Cardinality(C) = IF 1 \in B THEN Cardinality(B) - 1 ELSE Cardinality(B)
       BY <1>3, FS_RemoveElement
<1>11. Cardinality(B) \in Nat
       BY <1>3, FS_CardinalityType
<1>12. Cardinality(B) = Cardinality(A) + (IF 1 \in B THEN 1 ELSE 0)
  <2> HIDE DEF C
  <2> QED BY <1>9, <1>10, <1>11
<1> QED BY <1>7, <1>12 DEF Count, A, B, t

-----------------------------------------------------------------------------
(* The keys that a command asks for are those on the rows it took.          *)

Rows == Range(RowPairs)

AllKeys == UNION {Range(KeysIn[r]) : r \in Rows}

Taken == [asked : Requests, from : Nat, reply : Replies]

LEMMA KeysOfIs ==
  ASSUME NEW replies \in Seq(Taken)
  PROVE  /\ KeysOf(replies) \in Seq(Echoed)
         /\ Range(KeysOf(replies)) =
              UNION {Range(KeysIn[r]) : r \in {replies[i].reply.req : i \in 1..Len(replies)} \cap Rows}
<1> DEFINE N == Len(replies)
           Y == Seq(Echoed)
           Q(n) == replies[n].reply.req
           Def(f) == f = [n \in 0..N |-> IF n = 0 THEN <<>>
                                         ELSE IF replies[n].reply.req \in Range(RowPairs)
                                              THEN Added(f[n - 1], KeysIn[replies[n].reply.req])
                                         ELSE f[n - 1]]
           k == CHOOSE f : Def(f)
           F == [x \in (1..N) \X Y |-> IF Q(x[1]) \in Rows THEN Added(x[2], KeysIn[Q(x[1])]) ELSE x[2]]
<1>1. N \in Nat /\ <<>> \in Y
      BY LenProperties, EmptySeq
<1>2. \A r \in Rows : KeysIn[r] \in Y
      BY OneShotAssumption DEF Rows
<1>3. \A h \in Y : \A r \in Rows : Added(h, KeysIn[r]) \in Y /\ Range(Added(h, KeysIn[r])) = Range(h) \cup Range(KeysIn[r])
      BY <1>2, AddedIs
<1>4. F \in [(1..N) \X Y -> Y]
      BY <1>3
<1>5. \A x \in (1..N) \X Y : F[x] = IF Q(x[1]) \in Rows THEN Added(x[2], KeysIn[Q(x[1])]) ELSE x[2]
      OBVIOUS
<1> DEFINE b == <<>>
<1> HIDE DEF F, Y, N, b
<1>6. \E f : IsRecursion(f, N, Y, b, F)
      BY <1>1, <1>4, RecursionExists DEF b
<1>7. ASSUME NEW f, IsRecursion(f, N, Y, b, F) PROVE Def(f)
  <2>1. f \in [0..N -> Y] /\ f[0] = <<>>
        BY <1>7 DEF IsRecursion, b
  <2>2. ASSUME NEW n \in 0..N
        PROVE  f[n] = IF n = 0 THEN <<>>
                      ELSE IF Q(n) \in Rows THEN Added(f[n - 1], KeysIn[Q(n)]) ELSE f[n - 1]
    <3>1. n = 0 \/ (n \in 1..N /\ n - 1 \in 0..N)
          BY <1>1
    <3>2. CASE n \in 1..N /\ n - 1 \in 0..N
      <4>1. f[n] = F[<<n, f[n - 1]>>] /\ n # 0
            BY <1>7, <3>2 DEF IsRecursion
      <4>2. <<n, f[n - 1]>> \in (1..N) \X Y
            BY <2>1, <3>2
      <4> QED BY <1>5, <4>1, <4>2
    <3> QED BY <2>1, <3>1, <3>2
  <2>3. f = [n \in 0..N |-> f[n]]
        BY <2>1
  <2> QED BY <2>2, <2>3 DEF Rows
<1>8. Def(k)
      BY <1>6, <1>7
<1>9. KeysOf(replies) = k[N]
      BY DEF KeysOf, N
<1> HIDE DEF k
<1>10. k[0] = <<>>
       BY <1>1, <1>8
<1>11. ASSUME NEW n \in 1..N
       PROVE  k[n] = IF Q(n) \in Rows THEN Added(k[n - 1], KeysIn[Q(n)]) ELSE k[n - 1]
  <2>1. n \in 0..N /\ n # 0
        BY <1>1
  <2> QED BY <1>8, <2>1 DEF Rows
<1> DEFINE R(n) == {Q(i) : i \in 1..n} \cap Rows
           T == {n \in 0..N : k[n] \in Y /\ Range(k[n]) = UNION {Range(KeysIn[r]) : r \in R(n)}}
<1>12. 0 \in T
       BY <1>1, <1>10 DEF Range
<1>13. ASSUME NEW n \in 0..(N - 1), n \in T PROVE n + 1 \in T
  <2>1. n + 1 \in 1..N /\ (n + 1) - 1 = n /\ n + 1 \in 0..N
        BY <1>1
  <2>2. k[n + 1] = IF Q(n + 1) \in Rows THEN Added(k[n], KeysIn[Q(n + 1)]) ELSE k[n]
        BY <1>11, <2>1
  <2>3. R(n + 1) = R(n) \cup ({Q(n + 1)} \cap Rows)
    <3>1. \A i \in 1..(n + 1) : i = n + 1 \/ i \in 1..n
          OBVIOUS
    <3>2. n + 1 \in 1..(n + 1) /\ \A i \in 1..n : i \in 1..(n + 1)
          OBVIOUS
    <3> HIDE DEF Q
    <3> QED BY <3>1, <3>2
  <2>4. k[n] \in Y /\ Range(k[n]) = UNION {Range(KeysIn[r]) : r \in R(n)}
        BY <1>13
  <2> HIDE DEF Q, R
  <2>5. CASE Q(n + 1) \in Rows
    <3>1. k[n + 1] \in Y /\ Range(k[n + 1]) = Range(k[n]) \cup Range(KeysIn[Q(n + 1)])
          BY <1>3, <2>2, <2>4, <2>5
    <3>2. R(n + 1) = R(n) \cup {Q(n + 1)}
          BY <2>3, <2>5
    <3>3. UNION {Range(KeysIn[r]) : r \in R(n + 1)} = (UNION {Range(KeysIn[r]) : r \in R(n)}) \cup Range(KeysIn[Q(n + 1)])
          BY <3>2
    <3> QED BY <2>1, <2>4, <3>1, <3>3
  <2>6. CASE Q(n + 1) \notin Rows
    <3>1. k[n + 1] = k[n] /\ R(n + 1) = R(n)
          BY <2>2, <2>3, <2>6
    <3> QED BY <2>1, <2>4, <3>1
  <2> QED BY <2>5, <2>6
<1> HIDE DEF T
<1>14. \A n \in 0..N : n \in T
       BY <1>1, <1>12, <1>13, UpTo
<1>15. N \in T
       BY <1>1, <1>14
<1> QED BY <1>9, <1>15 DEF T, Y, N

-----------------------------------------------------------------------------
(* The invariant.                                                           *)

RowReplies == {r \in Reports : IsReply(r) /\ r.req \in Rows}

TypeOK ==
  /\ SessionTypes
  /\ call # None => call.req = Head(todo)
  /\ result # None /\ result.type = "ok" => Fits(result.report, Head(todo))
  /\ phase \in {"idle", "matrix", "keys"}
  /\ phase = "idle" => ~Asking /\ queue = <<>>
  /\ phase # "idle" => todo \in Seq(Requests) \ {<<>>} /\ outcome = "none"
  /\ phase = "matrix" => todo \in Seq(Requests \ Echoed) /\ \A i \in 1..Len(got) : got[i].asked \notin Echoed
  /\ phase = "keys" => todo \in Seq(Echoed)
  /\ askedAt \in Nat /\ askedAt <= version
  /\ got \in Seq(Taken)
  /\ clean \in BOOLEAN /\ few \in BOOLEAN

\* The edges of the session are those in the queue and those on the wire; once
\* it is over, those heard are the ones the notes are about.
Heard ==
  /\ phase # "idle" => EdgesIn(queue) \o OnWire = EdgesIn(emitted)
  /\ phase = "idle" /\ outcome # "none" =>
       \E heard \in Seq(Measured) : heard \o OnWire = EdgesIn(emitted) /\ Told(notes, heard)

\* The rows are the end of what the matrix part asks.
RowsLast ==
  phase = "matrix" => \A i \in 1..Len(todo) : todo[i] \in Rows <=> i > Len(todo) - Len(RowPairs)

\* A pair of rows has been read and not yet taken.
RowHeld == result # None /\ result.type = "ok" /\ Head(todo) \in Rows

\* How many the command will still take off the wire.
RowsLeft ==
  (IF Len(todo) < Len(RowPairs) THEN Len(todo) ELSE Len(RowPairs)) - (IF RowHeld THEN 1 ELSE 0)

\* Every answer to a per-key request still to come is within a first part of
\* what is on the wire and owed ...
Within(w, o, p, i) ==
  /\ i > 0 => p = Len(w)
  /\ \A q \in 1..Len(w) : IsReply(w[q]) /\ w[q].req \in Echoed => q <= p
  /\ \A j \in 1..Len(o) : o[j] \in Echoed => j <= i

\* ... that holds fewer matrix answers than the command will still take.
Part(w, o, left, p, i) ==
  /\ Within(w, o, p, i)
  /\ (p = 0 /\ i = 0) \/ Count(w, RowReplies, p) + Count(o, Rows, i) < left

RowsAhead(w, o, left) == \E p \in 0..Len(w), i \in 0..Len(o) : Part(w, o, left, p, i)

RowsInFront == phase = "matrix" /\ few => RowsAhead(wire, owed, RowsLeft)

\* An answer to the question asked, as the board was since.
Fresh(reply, q, from, now) ==
  reply.req = q /\ IF q \in Fixed THEN reply.version = 0 ELSE from <= reply.version /\ reply.version <= now

AnswerTo(S, report) == IsReply(report) /\ report.req \in S

NonePending(w, o, S) == (\A p \in 1..Len(w) : ~AnswerTo(S, w[p])) /\ (\A i \in 1..Len(o) : o[i] \notin S)

\* The only answer to some requests still to come is the one to the question
\* asked.
OnePending(w, o, S, q, from, now) ==
  /\ \A p \in 1..Len(w) : AnswerTo(S, w[p]) =>
       Fresh(w[p], q, from, now) /\ \A i \in 1..Len(o) : o[i] \notin S
  /\ \A p, r \in 1..Len(w) : AnswerTo(S, w[p]) /\ AnswerTo(S, w[r]) => p = r
  /\ \A i \in 1..Len(o) : o[i] \in S => o[i] = q
  /\ \A i, j \in 1..Len(o) : o[i] \in S /\ o[j] \in S => i = j

\* None is when it is not or no longer being asked.
OnlyAsked(S) ==
  /\ ~Asking \/ Accepted => NonePending(wire, owed, S)
  /\ OnePending(wire, owed, S, Head(todo), askedAt, version)
  /\ Accepted => Fresh(result.report, Head(todo), askedAt, version)

KeysOnlyAsked == phase = "keys" /\ few => OnlyAsked(Echoed)

AllOnlyAsked == phase # "idle" /\ clean => OnlyAsked(Requests)

\* With nothing owed at the start, the rows and then the keys are read one by
\* one.
Reads == {got[i].reply.req : i \in 1..Len(got)}

KeysToCome ==
  clean =>
    /\ phase = "matrix" => Rows \subseteq Reads \cup Range(todo)
    /\ phase = "keys" => KeysRead \cup Range(todo) = AllKeys
    /\ outcome = "done" => KeysRead = AllKeys

OInv ==
  /\ TypeOK /\ Heard /\ RowsLast /\ RowsInFront /\ KeysOnlyAsked /\ AllOnlyAsked /\ KeysToCome
  /\ KeyValuesAreTrue

-----------------------------------------------------------------------------
(* Rows, keys, and what the board does to what is owed and on the wire.     *)

LEMMA RowFacts ==
  /\ Rows \subseteq Requests \ Echoed /\ Echoed \subseteq Requests
  /\ Len(RowPairs) \in Nat \ {0} /\ RowPairs \in Seq(Requests \ Echoed)
  /\ \A r \in Rows : KeysIn[r] \in Seq(Echoed) /\ KeysIn[r] # <<>>
  /\ \A r \in Rows, report \in Reports :
       Fits(report, r) => IsReply(report) /\ report.req \in Rows /\ report \in RowReplies
<1>1. RowPairs \in Seq(Requests \ Echoed) /\ RowPairs # <<>>
      BY OneShotAssumption
<1>2. Rows \subseteq Requests \ Echoed
      BY <1>1, RangeIs DEF Rows
<1>3. Len(RowPairs) \in Nat \ {0}
      BY <1>1, LenProperties, EmptySeq
<1>4. \A r \in Rows : KeysIn[r] \in Seq(Echoed) /\ KeysIn[r] # <<>>
      BY OneShotAssumption DEF Rows
<1>5. ASSUME NEW r \in Rows, NEW report \in Reports, Fits(report, r)
      PROVE  IsReply(report) /\ report.req \in Rows /\ report \in RowReplies
  <2>1. Cmd[r] # OrderCmd /\ \A q \in Requests : Cmd[q] = Cmd[r] => q \in Rows
        BY OneShotAssumption DEF Rows
  <2>2. report.type = "reply" /\ Cmd[report.req] = Cmd[r]
        BY <1>5, <2>1 DEF Fits
  <2>3. report.req \in Requests
        BY <2>2, ReportParts DEF IsReply, Replies
  <2> QED BY <2>1, <2>2, <2>3 DEF IsReply, RowReplies
<1>6. Echoed \subseteq Requests
      BY SessionAssumption
<1> QED BY <1>1, <1>2, <1>3, <1>4, <1>5, <1>6

Answered(report) ==
  /\ owed # <<>> /\ owed' = Tail(owed) /\ wire' = Append(wire, report) /\ report \in Reports
  /\ IsReply(report) => report = Reply(Head(owed), ValueOf(Head(owed)))

Lost == owed # <<>> /\ owed' = Tail(owed) /\ wire' = wire

Said(report) == owed' = owed /\ wire' = Append(wire, report) /\ report \in Reports /\ ~IsReply(report)

LEMMA BoardSteps ==
  ASSUME SessionTypes, BoardNext
  PROVE  /\ version' \in Nat /\ version <= version' /\ version \in Nat
         /\ \/ (\E report : Answered(report)) /\ version' = version
            \/ Lost \/ UNCHANGED <<owed, wire>> \/ \E report : Said(report)
<1>1. version \in Nat /\ MaxVersion \in Nat
      BY SessionAssumption DEF SessionTypes
<1>2. CASE Answer
  <2>1. PICK report \in {Reply(Head(owed), ValueOf(Head(owed))), CmdFail} : wire' = Append(wire, report)
        BY <1>2 DEF Answer
  <2>2. Head(owed) \in Requests
        BY <1>2, HeadTailProperties DEF Answer, SessionTypes
  <2>3. report \in Reports
        BY <2>1, <2>2, SentReports
  <2>4. IsReply(report) => report = Reply(Head(owed), ValueOf(Head(owed)))
        BY <2>1 DEF IsReply, CmdFail
  <2>5. Answered(report)
        BY <1>2, <2>1, <2>3, <2>4 DEF Answer, Answered
  <2> QED BY <1>1, <1>2, <2>5 DEF Answer
<1>3. CASE LoseRequest
      BY <1>1, <1>3 DEF LoseRequest, Lost
<1>4. CASE EditByHand
      BY <1>1, <1>4 DEF EditByHand
<1>5. ASSUME NEW e \in Edges, SendEdge(e) PROVE Said(Edge(e, version)) /\ version' = version
      BY <1>5, SentReports DEF SendEdge, Said, Edge, IsReply
<1>6. ASSUME NEW n \in NoiseKinds, SendNoise(n) PROVE Said(Noise(n)) /\ version' = version
      BY <1>6, SentReports, SessionAssumption DEF SendNoise, Said, Noise, IsReply
<1> QED BY <1>1, <1>2, <1>3, <1>4, <1>5, <1>6 DEF BoardNext

\* The sequences before and after a step, element by element.
LEMMA TailElements ==
  ASSUME NEW X, NEW s \in Seq(X), s # <<>>
  PROVE  /\ Len(s) \in Nat /\ Len(s) > 0 /\ Len(Tail(s)) = Len(s) - 1 /\ Tail(s) \in Seq(X)
         /\ Head(s) = s[1] /\ s[1] \in X
         /\ \A i \in 1..(Len(s) - 1) : Tail(s)[i] = s[i + 1]
<1>1. PICK N \in Nat : /\ Len(s) = N + 1 /\ Len(Tail(s)) = N /\ Tail(s) \in Seq(X)
                       /\ s[1] \in X /\ Head(s) = s[1] /\ \A i \in 1..N : Tail(s)[i] = s[i + 1]
      BY Shifted
<1> QED BY <1>1

LEMMA AppendElements ==
  ASSUME NEW X, NEW s \in Seq(X), NEW e
  PROVE  /\ Len(s) \in Nat /\ Len(Append(s, e)) = Len(s) + 1 /\ Append(s, e)[Len(s) + 1] = e
         /\ \A i \in 1..Len(s) : Append(s, e)[i] = s[i]
         /\ \A i \in 1..(Len(s) + 1) : i = Len(s) + 1 \/ i \in 1..Len(s)
BY LenProperties

-----------------------------------------------------------------------------
(* The keys' answers stay behind fewer rows than the command takes.         *)

LEMMA AheadAnswered ==
  ASSUME NEW w \in Seq(Reports), NEW o \in Seq(Requests), NEW left \in Int, o # <<>>, NEW report \in Reports,
         IsReply(report) => report.req = Head(o), RowsAhead(w, o, left)
  PROVE  RowsAhead(Append(w, report), Tail(o), left)
<1> DEFINE v == Append(w, report)
           t == Tail(o)
           N == Len(w)
           M == Len(o)
<1>1. PICK p \in 0..N, i \in 0..M : Part(w, o, left, p, i)
      BY DEF RowsAhead
<1>2. /\ N \in Nat /\ Len(v) = N + 1 /\ v[N + 1] = report /\ (\A q \in 1..N : v[q] = w[q])
      /\ \A q \in 1..(N + 1) : q = N + 1 \/ q \in 1..N
      BY AppendElements
<1>3. /\ M \in Nat /\ M > 0 /\ Len(t) = M - 1 /\ Head(o) = o[1]
      /\ \A j \in 1..(M - 1) : t[j] = o[j + 1]
      BY TailElements
<1>4. Within(w, o, p, i)
      BY <1>1 DEF Part
<1>5. CASE i = 0
  <2>1. p \in 0..Len(v) /\ 0 \in 0..Len(t)
        BY <1>2, <1>3
  <2>2. Count(v, RowReplies, p) = Count(w, RowReplies, p) /\ Count(t, Rows, 0) = Count(o, Rows, 0)
    <3>1. Count(v, RowReplies, p) = Count(w, RowReplies, p)
          BY CountPrefix
    <3> HIDE DEF v
    <3> QED BY <3>1, CountNone
  <2>3. \A j \in 1..M : o[j] \notin Echoed
        BY <1>3, <1>4, <1>5 DEF Within
  <2>4. o[1] \notin Echoed /\ \A j \in 1..(M - 1) : t[j] \notin Echoed
        BY <1>3, <2>3
  <2>5. Within(v, t, p, 0)
    <3>1. ASSUME NEW q \in 1..(N + 1), IsReply(v[q]), v[q].req \in Echoed PROVE q <= p
      <4>1. q # N + 1
            BY <1>2, <1>3, <2>4, <3>1
      <4>2. q \in 1..N /\ v[q] = w[q]
            BY <1>2, <4>1
      <4> QED BY <1>4, <3>1, <4>2 DEF Within
    <3> HIDE DEF v, t
    <3> QED BY <1>2, <1>3, <2>4, <3>1 DEF Within
  <2> HIDE DEF v, t
  <2>6. Part(v, t, left, p, 0)
        BY <1>1, <1>5, <2>2, <2>5 DEF Part
  <2> QED BY <2>1, <2>6 DEF RowsAhead, v, t
<1>6. CASE i > 0
  <2>1. p = N
        BY <1>4, <1>6 DEF Within
  <2>2. N + 1 \in 0..Len(v) /\ i - 1 \in 0..Len(t) /\ (i - 1) + 1 = i
        BY <1>2, <1>3, <1>6
  <2>3. Count(v, RowReplies, N + 1) = Count(w, RowReplies, N) + (IF report \in RowReplies THEN 1 ELSE 0)
        BY CountAppend
  <2>4. Count(o, Rows, i) = Count(t, Rows, i - 1) + (IF Head(o) \in Rows THEN 1 ELSE 0)
    <3>1. Count(o, Rows, (i - 1) + 1) = Count(t, Rows, i - 1) + (IF Head(o) \in Rows THEN 1 ELSE 0)
          BY <2>2, CountTail
    <3> QED BY <2>2, <3>1
  <2>5. report \in RowReplies => Head(o) \in Rows
        BY DEF RowReplies
  <2>6. /\ Count(w, RowReplies, N) \in Nat /\ Count(o, Rows, i) \in Nat
        /\ Count(v, RowReplies, N + 1) \in Nat /\ Count(t, Rows, i - 1) \in Nat
    <3> HIDE DEF v, t
    <3>1. i \in Nat /\ i - 1 \in Nat /\ N + 1 \in Nat /\ N \in Nat
          BY <1>2, <1>6, <2>2
    <3> QED BY <3>1, CountType
  <2>7. Within(v, t, N + 1, i - 1)
    <3>1. \A j \in 1..(M - 1) : t[j] \in Echoed => j <= i - 1
      <4> TAKE j \in 1..(M - 1)
      <4> HAVE t[j] \in Echoed
      <4>1. j + 1 \in 1..M /\ o[j + 1] \in Echoed
            BY <1>3
      <4>2. j + 1 <= i
            BY <1>4, <4>1 DEF Within
      <4> QED BY <1>3, <4>2
    <3> HIDE DEF v, t
    <3> QED BY <1>2, <1>3, <3>1 DEF Within
  <2> HIDE DEF v, t
  <2>8. Count(w, RowReplies, N) + Count(o, Rows, i) < left
        BY <1>1, <1>6, <2>1 DEF Part
  <2>9. Count(v, RowReplies, N + 1) + Count(t, Rows, i - 1) < left
        BY <2>3, <2>4, <2>5, <2>6, <2>8
  <2>10. Part(v, t, left, N + 1, i - 1)
         BY <2>7, <2>9 DEF Part
  <2> QED BY <2>2, <2>10 DEF RowsAhead, v, t
<1> QED BY <1>5, <1>6

LEMMA AheadLost ==
  ASSUME NEW w \in Seq(Reports), NEW o \in Seq(Requests), NEW left \in Int, o # <<>>, RowsAhead(w, o, left)
  PROVE  RowsAhead(w, Tail(o), left)
<1> DEFINE t == Tail(o)
           N == Len(w)
           M == Len(o)
<1>1. PICK p \in 0..N, i \in 0..M : Part(w, o, left, p, i)
      BY DEF RowsAhead
<1>2. /\ M \in Nat /\ M > 0 /\ Len(t) = M - 1 /\ \A j \in 1..(M - 1) : t[j] = o[j + 1]
      BY TailElements
<1>3. Within(w, o, p, i) /\ N \in Nat
      BY <1>1, LenProperties DEF Part
<1>4. ASSUME NEW j \in 1..(M - 1), t[j] \in Echoed PROVE j + 1 <= i
  <2>1. j + 1 \in 1..M /\ o[j + 1] \in Echoed
        BY <1>2, <1>4
  <2> QED BY <1>3, <2>1 DEF Within
<1>5. CASE i = 0
  <2>1. \A j \in 1..(M - 1) : t[j] \notin Echoed
        BY <1>2, <1>4, <1>5
  <2>2. Count(t, Rows, 0) = Count(o, Rows, 0) /\ 0 \in 0..Len(t)
        BY <1>2, CountNone
  <2> HIDE DEF t
  <2>3. Within(w, t, p, 0)
        BY <1>2, <1>3, <2>1 DEF Within
  <2>4. Part(w, t, left, p, 0)
        BY <1>1, <1>5, <2>2, <2>3 DEF Part
  <2> QED BY <2>2, <2>4 DEF RowsAhead, t
<1>6. CASE i > 0
  <2>1. i - 1 \in 0..Len(t) /\ (i - 1) + 1 = i /\ p = N
        BY <1>2, <1>3, <1>6 DEF Within
  <2>2. Count(o, Rows, (i - 1) + 1) = Count(t, Rows, i - 1) + (IF Head(o) \in Rows THEN 1 ELSE 0)
        BY <2>1, CountTail
  <2> HIDE DEF t
  <2>3. Count(w, RowReplies, p) \in Nat /\ Count(o, Rows, i) \in Nat /\ Count(t, Rows, i - 1) \in Nat
    <3>1. i \in Nat /\ i - 1 \in Nat /\ p \in Nat
          BY <1>3, <1>6, <2>1
    <3> QED BY <3>1, CountType
  <2>4. Count(w, RowReplies, p) + Count(o, Rows, i) < left
        BY <1>1, <1>6 DEF Part
  <2>5. Count(w, RowReplies, p) + Count(t, Rows, i - 1) < left
        BY <2>1, <2>2, <2>3, <2>4
  <2>6. Within(w, t, p, i - 1)
    <3>1. \A j \in 1..Len(t) : t[j] \in Echoed => j <= i - 1
          BY <1>2, <1>4, <1>6
    <3> QED BY <1>3, <2>1, <3>1 DEF Within
  <2>7. Part(w, t, left, p, i - 1)
        BY <2>5, <2>6 DEF Part
  <2> QED BY <2>1, <2>7 DEF RowsAhead, t
<1> QED BY <1>5, <1>6

LEMMA AheadSaid ==
  ASSUME NEW w \in Seq(Reports), NEW o \in Seq(Requests), NEW left \in Int, NEW report,
         ~IsReply(report), RowsAhead(w, o, left)
  PROVE  RowsAhead(Append(w, report), o, left)
<1> DEFINE v == Append(w, report)
           N == Len(w)
           M == Len(o)
<1>1. PICK p \in 0..N, i \in 0..M : Part(w, o, left, p, i)
      BY DEF RowsAhead
<1>2. /\ N \in Nat /\ Len(v) = N + 1 /\ v[N + 1] = report /\ (\A q \in 1..N : v[q] = w[q])
      /\ \A q \in 1..(N + 1) : q = N + 1 \/ q \in 1..N
      BY AppendElements
<1>3. Within(w, o, p, i) /\ report \notin RowReplies
      BY <1>1 DEF Part, RowReplies
<1>4. ASSUME NEW q \in 1..(N + 1), IsReply(v[q]), v[q].req \in Echoed PROVE q <= p
  <2>1. q \in 1..N /\ v[q] = w[q]
        BY <1>2, <1>4
  <2> QED BY <1>3, <1>4, <2>1 DEF Within
<1>5. PICK k \in 0..(N + 1) : k = IF i > 0 THEN N + 1 ELSE p
      BY <1>2
<1>6. Within(v, o, k, i)
  <2> HIDE DEF v
  <2>1. p <= k /\ (i > 0 => k = N + 1)
        BY <1>2, <1>5
  <2>2. \A q \in 1..Len(v) : IsReply(v[q]) /\ v[q].req \in Echoed => q <= k
        BY <1>2, <1>4, <2>1
  <2> QED BY <1>2, <1>3, <2>1, <2>2 DEF Within
<1>7. Count(v, RowReplies, k) = Count(w, RowReplies, p)
  <2>1. Count(v, RowReplies, N + 1) = Count(w, RowReplies, N) + (IF report \in RowReplies THEN 1 ELSE 0)
        BY CountAppend
  <2>2. Count(v, RowReplies, p) = Count(w, RowReplies, p)
        BY CountPrefix
  <2>3. i > 0 => p = N
        BY <1>3 DEF Within
  <2>4. Count(w, RowReplies, N) \in Nat
        BY <1>2, CountType
  <2> HIDE DEF v
  <2> QED BY <1>3, <1>5, <2>1, <2>2, <2>3, <2>4
<1>8. (p = 0 /\ i = 0) => k = 0
      BY <1>5
<1> HIDE DEF v
<1>9. Part(v, o, left, k, i)
      BY <1>1, <1>6, <1>7, <1>8 DEF Part
<1> QED BY <1>2, <1>9 DEF RowsAhead, v

LEMMA AheadAsked ==
  ASSUME NEW w \in Seq(Reports), NEW o \in Seq(Requests), NEW left \in Int, NEW r \in Requests \ Echoed,
         RowsAhead(w, o, left)
  PROVE  RowsAhead(w, Append(o, r), left)
<1> DEFINE u == Append(o, r)
           M == Len(o)
<1>1. PICK p \in 0..Len(w), i \in 0..M : Part(w, o, left, p, i)
      BY DEF RowsAhead
<1>2. /\ M \in Nat /\ Len(u) = M + 1 /\ u[M + 1] = r /\ (\A q \in 1..M : u[q] = o[q])
      /\ \A q \in 1..(M + 1) : q = M + 1 \/ q \in 1..M
      BY AppendElements
<1>3. Within(w, o, p, i)
      BY <1>1 DEF Part
<1>4. Count(u, Rows, i) = Count(o, Rows, i)
      BY CountPrefix
<1> HIDE DEF u
<1>5. \A j \in 1..Len(u) : u[j] \in Echoed => j <= i
      BY <1>2, <1>3 DEF Within
<1>6. Within(w, u, p, i) /\ i \in 0..Len(u)
      BY <1>2, <1>3, <1>5 DEF Within
<1>7. Part(w, u, left, p, i)
      BY <1>1, <1>4, <1>6 DEF Part
<1> QED BY <1>6, <1>7 DEF RowsAhead, u

LEMMA AheadTaken ==
  ASSUME NEW w \in Seq(Reports), NEW o \in Seq(Requests), NEW left \in Int, w # <<>>, RowsAhead(w, o, left)
  PROVE  RowsAhead(Tail(w), o, IF Head(w) \in RowReplies THEN left - 1 ELSE left)
<1> DEFINE t == Tail(w)
           N == Len(w)
<1>1. PICK p \in 0..N, i \in 0..Len(o) : Part(w, o, left, p, i)
      BY DEF RowsAhead
<1>2. /\ N \in Nat /\ N > 0 /\ Len(t) = N - 1 /\ Head(w) = w[1] /\ \A j \in 1..(N - 1) : t[j] = w[j + 1]
      BY TailElements
<1>3. Within(w, o, p, i)
      BY <1>1 DEF Part
<1>4. PICK m \in Int : m = IF Head(w) \in RowReplies THEN left - 1 ELSE left
      OBVIOUS
<1>5. ASSUME NEW q \in 1..(N - 1), IsReply(t[q]), t[q].req \in Echoed PROVE q + 1 <= p
  <2>1. q + 1 \in 1..N /\ t[q] = w[q + 1]
        BY <1>2
  <2> QED BY <1>3, <1>5, <2>1 DEF Within
<1>6. CASE p = 0
  <2>1. i = 0 /\ 0 \in 0..Len(t)
        BY <1>2, <1>3, <1>6 DEF Within
  <2> HIDE DEF t
  <2>2. \A q \in 1..Len(t) : IsReply(t[q]) /\ t[q].req \in Echoed => q <= 0
        BY <1>2, <1>5, <1>6
  <2>3. Part(t, o, m, 0, 0)
        BY <1>3, <2>1, <2>2 DEF Part, Within
  <2> QED BY <1>4, <2>1, <2>3 DEF RowsAhead, t
<1>7. CASE p > 0
  <2>1. p - 1 \in 0..(N - 1) /\ (p - 1) + 1 = p
        BY <1>2, <1>7
  <2>2. Count(w, RowReplies, (p - 1) + 1) = Count(t, RowReplies, p - 1) + (IF Head(w) \in RowReplies THEN 1 ELSE 0)
        BY <1>2, <2>1, CountTail
  <2> HIDE DEF t
  <2>3. Count(w, RowReplies, p) \in Nat /\ Count(t, RowReplies, p - 1) \in Nat /\ Count(o, Rows, i) \in Nat
    <3>1. p \in Nat /\ p - 1 \in Nat /\ i \in Nat
          BY <1>2, <2>1, LenProperties
    <3> QED BY <3>1, CountType
  <2>4. Count(w, RowReplies, p) + Count(o, Rows, i) < left
        BY <1>1, <1>7 DEF Part
  <2>5. Count(t, RowReplies, p - 1) + Count(o, Rows, i) < m
        BY <1>4, <2>1, <2>2, <2>3, <2>4
  <2>6. Within(t, o, p - 1, i)
    <3>1. \A q \in 1..Len(t) : IsReply(t[q]) /\ t[q].req \in Echoed => q <= p - 1
          BY <1>2, <1>5, <1>7
    <3>2. i > 0 => p - 1 = Len(t)
          BY <1>2, <1>3 DEF Within
    <3> QED BY <1>3, <3>1, <3>2 DEF Within
  <2>7. Part(t, o, m, p - 1, i)
        BY <2>5, <2>6 DEF Part
  <2>8. p - 1 \in 0..Len(t)
        BY <1>2, <2>1
  <2>9. RowsAhead(t, o, m)
        BY <2>7, <2>8 DEF RowsAhead
  <2> QED BY <1>4, <2>9 DEF t
<1> QED BY <1>6, <1>7

LEMMA AheadMore ==
  ASSUME NEW w \in Seq(Reports), NEW o \in Seq(Requests), NEW a \in Int, NEW b \in Int, a <= b, RowsAhead(w, o, a)
  PROVE  RowsAhead(w, o, b)
<1>1. PICK p \in 0..Len(w), i \in 0..Len(o) : Part(w, o, a, p, i)
      BY DEF RowsAhead
<1>2. Count(w, RowReplies, p) \in Nat /\ Count(o, Rows, i) \in Nat
  <2>1. p \in Nat /\ i \in Nat
        BY LenProperties
  <2> QED BY <2>1, CountType
<1>3. Part(w, o, b, p, i)
      BY <1>1, <1>2 DEF Part
<1> QED BY <1>3 DEF RowsAhead

\* With none left to take, no answer to a per-key request is to come.
LEMMA AheadNone ==
  ASSUME NEW w \in Seq(Reports), NEW o \in Seq(Requests), RowsAhead(w, o, 0)
  PROVE  /\ \A q \in 1..Len(w) : ~(IsReply(w[q]) /\ w[q].req \in Echoed)
         /\ \A j \in 1..Len(o) : o[j] \notin Echoed
<1>1. PICK p \in 0..Len(w), i \in 0..Len(o) : Part(w, o, 0, p, i)
      BY DEF RowsAhead
<1>2. Count(w, RowReplies, p) \in Nat /\ Count(o, Rows, i) \in Nat
  <2>1. p \in Nat /\ i \in Nat
        BY LenProperties
  <2> QED BY <2>1, CountType
<1>3. p = 0 /\ i = 0 /\ Within(w, o, p, i)
      BY <1>1, <1>2 DEF Part
<1> QED BY <1>3 DEF Within

LEMMA AheadBegins ==
  ASSUME NEW o \in Seq(Requests), NEW left \in Int, Count(o, Rows, Len(o)) < left
  PROVE  RowsAhead(<<>>, o, left)
<1> DEFINE w == <<>>
<1>1. w \in Seq(Reports) /\ Len(w) = 0 /\ Len(o) \in Nat
      BY EmptySeq, LenProperties
<1> HIDE DEF w
<1>2. Count(w, RowReplies, 0) = 0 /\ Count(o, Rows, Len(o)) \in Nat
      BY <1>1, CountNone, CountType
<1>3. Part(w, o, left, 0, Len(o))
      BY <1>1, <1>2 DEF Part, Within
<1>4. 0 \in 0..Len(w) /\ Len(o) \in 0..Len(o)
      BY <1>1
<1> QED BY <1>3, <1>4 DEF RowsAhead, w

-----------------------------------------------------------------------------
(* The one answer to come stays the only one.                               *)

LEMMA OneAnswered ==
  ASSUME NEW w \in Seq(Reports), NEW o \in Seq(Requests), o # <<>>, NEW S, NEW q, NEW from \in Nat, NEW now \in Nat,
         from <= now, NEW report,
         IsReply(report) => report.req = Head(o) /\ report.version = (IF Head(o) \in Fixed THEN 0 ELSE now),
         OnePending(w, o, S, q, from, now)
  PROVE  OnePending(Append(w, report), Tail(o), S, q, from, now)
<1> DEFINE v == Append(w, report)
           t == Tail(o)
           N == Len(w)
           M == Len(o)
<1>1. /\ N \in Nat /\ Len(v) = N + 1 /\ v[N + 1] = report /\ (\A p \in 1..N : v[p] = w[p])
      /\ \A p \in 1..(N + 1) : p = N + 1 \/ p \in 1..N
      BY AppendElements
<1>2. /\ M \in Nat /\ M > 0 /\ Len(t) = M - 1 /\ Head(o) = o[1] /\ \A j \in 1..(M - 1) : t[j] = o[j + 1]
      BY TailElements
<1> HIDE DEF v, t
<1>3. \A i \in 1..(M - 1) : i + 1 \in 1..M /\ i + 1 # 1 /\ t[i] = o[i + 1]
      BY <1>2
<1>4. 1 \in 1..M
      BY <1>2
<1> HIDE DEF M
<1>5. ASSUME AnswerTo(S, report)
      PROVE  /\ \A p \in 1..N : ~AnswerTo(S, w[p])
             /\ \A i \in 1..(M - 1) : t[i] \notin S
             /\ Fresh(report, q, from, now)
  <2>1. o[1] \in S /\ o[1] = report.req
        BY <1>2, <1>5 DEF AnswerTo
  <2>2. o[1] = q
        BY <1>4, <2>1 DEF OnePending, M
  <2>3. \A i \in 1..(M - 1) : t[i] \notin S
    <3>1. \A i \in 1..M : o[i] \in S => i = 1
          BY <1>4, <2>1 DEF OnePending, M
    <3> QED BY <1>3, <3>1
  <2>4. Fresh(report, q, from, now)
        BY <1>2, <1>5, <2>1, <2>2 DEF Fresh, AnswerTo
  <2>5. \A p \in 1..N : ~AnswerTo(S, w[p])
        BY <1>4, <2>1 DEF OnePending, M
  <2> QED BY <2>3, <2>4, <2>5
<1>6. ASSUME NEW p \in 1..(N + 1), AnswerTo(S, v[p])
      PROVE  Fresh(v[p], q, from, now) /\ \A i \in 1..(M - 1) : t[i] \notin S
  <2>1. CASE p = N + 1
        BY <1>1, <1>5, <1>6, <2>1
  <2>2. CASE p \in 1..N
    <3>1. v[p] = w[p]
          BY <1>1, <2>2
    <3>2. Fresh(w[p], q, from, now) /\ \A i \in 1..M : o[i] \notin S
          BY <1>6, <2>2, <3>1 DEF OnePending, M
    <3> QED BY <1>3, <3>1, <3>2
  <2> QED BY <1>1, <2>1, <2>2
<1>7. ASSUME NEW p \in 1..(N + 1), NEW r \in 1..(N + 1), AnswerTo(S, v[p]), AnswerTo(S, v[r])
      PROVE  p = r
  <2>1. p \in 1..N /\ r \in 1..N => p = r
    <3> HAVE p \in 1..N /\ r \in 1..N
    <3>1. AnswerTo(S, w[p]) /\ AnswerTo(S, w[r])
          BY <1>1, <1>7
    <3> QED BY <3>1 DEF OnePending
  <2>2. p = N + 1 => r = N + 1
        BY <1>1, <1>5, <1>7
  <2>3. r = N + 1 => p = N + 1
        BY <1>1, <1>5, <1>7
  <2> QED BY <1>1, <2>1, <2>2, <2>3
<1>8. \A i \in 1..(M - 1) : t[i] \in S => t[i] = q
      BY <1>3 DEF OnePending, M
<1>9. \A i, j \in 1..(M - 1) : t[i] \in S /\ t[j] \in S => i = j
  <2> TAKE i, j \in 1..(M - 1)
  <2> HAVE t[i] \in S /\ t[j] \in S
  <2>1. i + 1 = j + 1
        BY <1>3 DEF OnePending, M
  <2> QED BY <1>2, <2>1 DEF M
<1> QED BY <1>1, <1>2, <1>6, <1>7, <1>8, <1>9 DEF OnePending, M, v, t

LEMMA OneLost ==
  ASSUME NEW w \in Seq(Reports), NEW o \in Seq(Requests), o # <<>>, NEW S, NEW q, NEW from, NEW now,
         OnePending(w, o, S, q, from, now)
  PROVE  OnePending(w, Tail(o), S, q, from, now)
<1> DEFINE t == Tail(o)
           M == Len(o)
<1>1. /\ M \in Nat /\ M > 0 /\ Len(t) = M - 1 /\ \A j \in 1..(M - 1) : t[j] = o[j + 1]
      BY TailElements
<1> HIDE DEF t
<1>2. \A i \in 1..(M - 1) : i + 1 \in 1..M /\ t[i] = o[i + 1]
      BY <1>1
<1>3. \A i, j \in 1..(M - 1) : t[i] \in S /\ t[j] \in S => i = j
  <2> TAKE i, j \in 1..(M - 1)
  <2> HAVE t[i] \in S /\ t[j] \in S
  <2>1. i + 1 = j + 1
        BY <1>2 DEF OnePending
  <2> QED BY <1>1, <2>1
<1> QED BY <1>1, <1>2, <1>3 DEF OnePending, t

LEMMA OneSaid ==
  ASSUME NEW w \in Seq(Reports), NEW o \in Seq(Requests), NEW S, NEW q, NEW from, NEW now, NEW report,
         ~IsReply(report), OnePending(w, o, S, q, from, now)
  PROVE  OnePending(Append(w, report), o, S, q, from, now)
<1> DEFINE v == Append(w, report)
           N == Len(w)
<1>1. /\ N \in Nat /\ Len(v) = N + 1 /\ v[N + 1] = report /\ (\A p \in 1..N : v[p] = w[p])
      /\ \A p \in 1..(N + 1) : p = N + 1 \/ p \in 1..N
      BY AppendElements
<1> HIDE DEF v
<1>2. \A p \in 1..(N + 1) : AnswerTo(S, v[p]) => p \in 1..N /\ v[p] = w[p]
      BY <1>1 DEF AnswerTo
<1> QED BY <1>1, <1>2 DEF OnePending, v

LEMMA OneLater ==
  ASSUME NEW w \in Seq(Reports), NEW o \in Seq(Requests), NEW S, NEW q, NEW from \in Nat, NEW now \in Nat,
         NEW then \in Nat, now <= then, OnePending(w, o, S, q, from, now)
  PROVE  OnePending(w, o, S, q, from, then)
<1>1. ASSUME NEW r \in Replies, Fresh(r, q, from, now) PROVE Fresh(r, q, from, then)
  <2>1. r.version \in Nat
        BY <1>1, SessionAssumption DEF Replies
  <2> QED BY <1>1, <2>1 DEF Fresh
<1>2. \A p \in 1..Len(w) : AnswerTo(S, w[p]) => w[p] \in Replies
      BY ElementOfSeq, ReportParts DEF AnswerTo
<1> QED BY <1>1, <1>2 DEF OnePending

LEMMA NoneIsOne ==
  ASSUME NEW w, NEW o, NEW S, NEW q, NEW from, NEW now, NonePending(w, o, S)
  PROVE  OnePending(w, o, S, q, from, now)
BY DEF NonePending, OnePending

LEMMA OneAsked ==
  ASSUME NEW w, NEW o \in Seq(Requests), NEW S, NEW q, NEW now, NonePending(w, o, S)
  PROVE  OnePending(w, Append(o, q), S, q, now, now)
<1> DEFINE u == Append(o, q)
           M == Len(o)
<1>1. /\ M \in Nat /\ Len(u) = M + 1 /\ u[M + 1] = q /\ (\A p \in 1..M : u[p] = o[p])
      /\ \A p \in 1..(M + 1) : p = M + 1 \/ p \in 1..M
      BY AppendElements
<1> HIDE DEF u
<1>2. \A i \in 1..(M + 1) : u[i] \in S => i = M + 1
      BY <1>1 DEF NonePending
<1> QED BY <1>1, <1>2 DEF OnePending, NonePending, u

LEMMA OneTaken ==
  ASSUME NEW w \in Seq(Reports), NEW o \in Seq(Requests), w # <<>>, NEW S, NEW q, NEW from, NEW now,
         OnePending(w, o, S, q, from, now)
  PROVE  /\ OnePending(Tail(w), o, S, q, from, now)
         /\ AnswerTo(S, Head(w)) => Fresh(Head(w), q, from, now) /\ NonePending(Tail(w), o, S)
<1> DEFINE t == Tail(w)
           N == Len(w)
<1>1. /\ N \in Nat /\ N > 0 /\ Len(t) = N - 1 /\ Head(w) = w[1] /\ \A j \in 1..(N - 1) : t[j] = w[j + 1]
      BY TailElements
<1> HIDE DEF t
<1>2. \A i \in 1..(N - 1) : i + 1 \in 1..N /\ i + 1 # 1 /\ t[i] = w[i + 1]
      BY <1>1
<1>3. 1 \in 1..N
      BY <1>1
<1>4. \A i, j \in 1..(N - 1) : AnswerTo(S, t[i]) /\ AnswerTo(S, t[j]) => i = j
  <2> TAKE i, j \in 1..(N - 1)
  <2> HAVE AnswerTo(S, t[i]) /\ AnswerTo(S, t[j])
  <2>1. i + 1 = j + 1
        BY <1>2 DEF OnePending
  <2> QED BY <1>1, <2>1
<1>5. OnePending(t, o, S, q, from, now)
      BY <1>1, <1>2, <1>4 DEF OnePending
<1>6. ASSUME AnswerTo(S, w[1]) PROVE Fresh(w[1], q, from, now) /\ NonePending(t, o, S)
  <2>1. Fresh(w[1], q, from, now) /\ \A i \in 1..Len(o) : o[i] \notin S
        BY <1>3, <1>6 DEF OnePending
  <2>2. \A i \in 1..(N - 1) : ~AnswerTo(S, t[i])
        BY <1>2, <1>3, <1>6 DEF OnePending
  <2> QED BY <1>1, <2>1, <2>2 DEF NonePending
<1> QED BY <1>1, <1>5, <1>6 DEF t

\* Where none is to come, none comes from the board by itself.
LEMMA NoneComes ==
  ASSUME NEW w \in Seq(Reports), NEW o \in Seq(Requests), NEW S, NonePending(w, o, S)
  PROVE  /\ o # <<>> => NonePending(w, Tail(o), S)
         /\ \A report : ~IsReply(report) => NonePending(Append(w, report), o, S)
         /\ \A report : o # <<>> /\ (IsReply(report) => report.req = Head(o)) =>
              NonePending(Append(w, report), Tail(o), S)
<1>1. ASSUME o # <<>> PROVE NonePending(w, Tail(o), S) /\ Head(o) \notin S
  <2> DEFINE t == Tail(o)
             M == Len(o)
  <2>1. /\ M \in Nat /\ M > 0 /\ Len(t) = M - 1 /\ Head(o) = o[1] /\ \A j \in 1..(M - 1) : t[j] = o[j + 1]
        BY <1>1, TailElements
  <2> HIDE DEF t
  <2>2. \A i \in 1..(M - 1) : i + 1 \in 1..M /\ t[i] = o[i + 1]
        BY <2>1
  <2>3. 1 \in 1..M
        BY <2>1
  <2> QED BY <2>1, <2>2, <2>3 DEF NonePending, t
<1>2. ASSUME NEW report, NEW p, ~AnswerTo(S, report), NonePending(w, p, S)
      PROVE  NonePending(Append(w, report), p, S)
  <2> DEFINE v == Append(w, report)
             N == Len(w)
  <2>1. /\ N \in Nat /\ Len(v) = N + 1 /\ v[N + 1] = report /\ (\A i \in 1..N : v[i] = w[i])
        /\ \A i \in 1..(N + 1) : i = N + 1 \/ i \in 1..N
        BY AppendElements
  <2> HIDE DEF v
  <2> QED BY <1>2, <2>1 DEF NonePending, v
<1>3. ASSUME NEW report, ~IsReply(report) PROVE NonePending(Append(w, report), o, S)
      BY <1>2, <1>3 DEF AnswerTo
<1>4. ASSUME NEW report, o # <<>>, IsReply(report) => report.req = Head(o)
      PROVE  NonePending(Append(w, report), Tail(o), S)
      BY <1>1, <1>2, <1>4 DEF AnswerTo
<1> QED BY <1>1, <1>3, <1>4

-----------------------------------------------------------------------------
(* The invariant is kept, one action at a time.                             *)

LEMMA TodoParts ==
  ASSUME TypeOK
  PROVE  /\ phase # "idle" => /\ todo \in Seq(Requests) /\ todo # <<>> /\ Head(todo) \in Requests
                              /\ Head(todo) = todo[1] /\ Len(todo) \in Nat \ {0} /\ Head(todo) \in Range(todo)
         /\ phase = "keys" => Head(todo) \in Echoed
         /\ phase = "matrix" => Head(todo) \in Requests \ Echoed
<1>1. ASSUME phase # "idle"
      PROVE  /\ todo \in Seq(Requests) /\ todo # <<>> /\ Head(todo) \in Requests
             /\ Head(todo) = todo[1] /\ Len(todo) \in Nat \ {0} /\ Head(todo) \in Range(todo)
  <2>1. todo \in Seq(Requests) /\ todo # <<>>
        BY <1>1 DEF TypeOK
  <2>2. /\ Len(todo) \in Nat /\ Len(todo) > 0 /\ Head(todo) = todo[1] /\ todo[1] \in Requests
        BY <2>1, TailElements
  <2>3. Range(todo) = {todo[i] : i \in 1..Len(todo)}
        BY <2>1, RangeIs
  <2> QED BY <2>1, <2>2, <2>3
<1>2. phase = "keys" => Head(todo) \in Echoed
      BY <1>1, HeadTailProperties DEF TypeOK
<1>3. phase = "matrix" => Head(todo) \in Requests \ Echoed
      BY <1>1, HeadTailProperties DEF TypeOK
<1> QED BY <1>1, <1>2, <1>3

LEMMA RowsLeftIs == ASSUME TypeOK, phase # "idle" PROVE RowsLeft \in Int
BY RowFacts, TodoParts DEF RowsLeft

LEMMA BoardChanges ==
  ASSUME Board
  PROVE  /\ BoardNext
         /\ UNCHANGED <<queue, call, result, phase, todo, askedAt, got, outcome, notes, clean, few, runs>>
         /\ UNCHANGED hostVars
BY DEF Board, hostVars, cmdVars

LEMMA BoardKeepsTypeOK == ASSUME TypeOK, Board PROVE TypeOK'
<1>1. SessionTypes'
      BY BoardChanges, BoardKeepsTypes DEF TypeOK
<1>2. version' \in Nat /\ version <= version' /\ version \in Nat
      BY BoardChanges, BoardSteps DEF TypeOK
<1>3. askedAt <= version'
      BY <1>2 DEF TypeOK
<1> QED BY <1>1, <1>3, BoardChanges DEF TypeOK, Asking

LEMMA BoardKeepsHeard == ASSUME TypeOK, Heard, Board PROVE Heard'
<1>1. PICK x \in Seq(Measured) : OnWire' = OnWire \o x /\ EdgesIn(emitted') = EdgesIn(emitted) \o x
      BY BoardChanges, BoardSendsEdges DEF TypeOK
<1>2. OnWire \in Seq(Measured) /\ EdgesIn(queue) \in Seq(Measured)
      BY OnWireIs DEF TypeOK
<1>3. ASSUME NEW heard \in Seq(Measured), heard \o OnWire = EdgesIn(emitted)
      PROVE  heard \o OnWire' = EdgesIn(emitted')
  <2>1. (heard \o OnWire) \o x = heard \o (OnWire \o x)
        BY <1>2, EdgesAssociate
  <2> QED BY <1>1, <1>3, <2>1
<1>4. phase' # "idle" => EdgesIn(queue') \o OnWire' = EdgesIn(emitted')
      BY <1>2, <1>3, BoardChanges DEF Heard
<1>5. ASSUME phase' = "idle", outcome' # "none"
      PROVE  \E heard \in Seq(Measured) : heard \o OnWire' = EdgesIn(emitted') /\ Told(notes', heard)
  <2>1. PICK heard \in Seq(Measured) : heard \o OnWire = EdgesIn(emitted) /\ Told(notes, heard)
        BY <1>5, BoardChanges DEF Heard
  <2> QED BY <1>3, <2>1, BoardChanges
<1> QED BY <1>4, <1>5 DEF Heard

LEMMA BoardKeepsRows == ASSUME TypeOK, RowsInFront, Board PROVE RowsInFront'
<1> SUFFICES ASSUME phase' = "matrix", few' PROVE RowsAhead(wire', owed', RowsLeft')
    BY DEF RowsInFront
<1>1. phase = "matrix" /\ few /\ RowsLeft' = RowsLeft
      BY BoardChanges DEF RowsLeft, RowHeld
<1>2. RowsAhead(wire, owed, RowsLeft) /\ RowsLeft \in Int
      BY <1>1, RowsLeftIs DEF RowsInFront
<1>3. wire \in Seq(Reports) /\ owed \in Seq(Requests)
      BY DEF TypeOK, SessionTypes
<1>4. PICK left \in Int : left = RowsLeft
      BY <1>2
<1>5. RowsAhead(wire', owed', left)
  <2>1. CASE \E report : Answered(report)
    <3>1. PICK report : Answered(report)
          BY <2>1
    <3>2. owed # <<>> /\ report \in Reports /\ owed' = Tail(owed) /\ wire' = Append(wire, report)
          BY <3>1 DEF Answered
    <3>3. IsReply(report) => report.req = Head(owed)
          BY <3>1 DEF Answered, Reply
    <3>4. RowsAhead(Append(wire, report), Tail(owed), left)
          BY <1>2, <1>3, <1>4, <3>2, <3>3, AheadAnswered
    <3> QED BY <3>2, <3>4
  <2>2. CASE Lost
        BY <1>2, <1>3, <1>4, <2>2, AheadLost DEF Lost
  <2>3. CASE UNCHANGED <<owed, wire>>
        BY <1>2, <1>4, <2>3
  <2>4. CASE \E report : Said(report)
        BY <1>2, <1>3, <1>4, <2>4, AheadSaid DEF Said
  <2> QED BY <2>1, <2>2, <2>3, <2>4, BoardChanges, BoardSteps DEF TypeOK
<1> QED BY <1>1, <1>4, <1>5

LEMMA BoardKeepsAsked ==
  ASSUME TypeOK, NEW S, OnlyAsked(S), Board
  PROVE  OnlyAsked(S)'
<1>1. wire \in Seq(Reports) /\ owed \in Seq(Requests) /\ askedAt \in Nat /\ askedAt <= version
      BY DEF TypeOK, SessionTypes
<1>2. /\ version' \in Nat /\ version <= version' /\ version \in Nat
      /\ \/ (\E report : Answered(report)) /\ version' = version
         \/ Lost \/ UNCHANGED <<owed, wire>> \/ \E report : Said(report)
      BY BoardChanges, BoardSteps DEF TypeOK
<1>3. ASSUME NEW report, Answered(report)
      PROVE  IsReply(report) => report.req = Head(owed) /\ report.version = (IF Head(owed) \in Fixed THEN 0 ELSE version)
      BY <1>3 DEF Answered, Reply, ValueOf
<1>4. PICK q : q = Head(todo)
      OBVIOUS
<1>5. NonePending(wire, owed, S) => NonePending(wire', owed', S)
  <2> HAVE NonePending(wire, owed, S)
  <2>1. CASE \E report : Answered(report)
    <3>1. PICK report : Answered(report)
          BY <2>1
    <3>2. owed # <<>> /\ owed' = Tail(owed) /\ wire' = Append(wire, report)
          BY <3>1 DEF Answered
    <3>3. IsReply(report) => report.req = Head(owed)
          BY <1>3, <3>1
    <3> QED BY <1>1, <3>2, <3>3, NoneComes
  <2>2. CASE Lost
        BY <1>1, <2>2, NoneComes DEF Lost
  <2>3. CASE \E report : Said(report)
        BY <1>1, <2>3, NoneComes DEF Said
  <2> QED BY <1>2, <2>1, <2>2, <2>3
<1>6. OnePending(wire, owed, S, q, askedAt, version)
      BY <1>4 DEF OnlyAsked
<1>7. OnePending(wire', owed', S, q, askedAt, version')
  <2>1. CASE (\E report : Answered(report)) /\ version' = version
    <3>1. PICK report : Answered(report)
          BY <2>1
    <3>2. owed # <<>> /\ owed' = Tail(owed) /\ wire' = Append(wire, report)
          BY <3>1 DEF Answered
    <3>3. OnePending(Append(wire, report), Tail(owed), S, q, askedAt, version)
          BY <1>1, <1>2, <1>3, <1>6, <3>1, <3>2, OneAnswered
    <3> QED BY <2>1, <3>2, <3>3
  <2>2. OnePending(wire, owed, S, q, askedAt, version')
        BY <1>1, <1>2, <1>6, OneLater
  <2>3. CASE Lost
        BY <1>1, <2>2, <2>3, OneLost DEF Lost
  <2>4. CASE \E report : Said(report)
        BY <1>1, <2>2, <2>4, OneSaid DEF Said
  <2> QED BY <1>2, <2>1, <2>2, <2>3, <2>4
<1>8. Asking' = Asking /\ Accepted' = Accepted
      BY BoardChanges DEF Asking, Accepted, Decodes
<1>9. Accepted => Fresh(result.report, q, askedAt, version')
  <2> HAVE Accepted
  <2>1. Fresh(result.report, q, askedAt, version)
        BY <1>4 DEF OnlyAsked
  <2>2. result.report \in Replies
    <3>1. result \in Oks
          BY DEF Accepted, TypeOK, SessionTypes, Oks, Errors
    <3> QED BY <3>1, ReportParts DEF Accepted, Decodes, IsReply, Oks
  <2>3. result.report.version \in Nat
        BY <2>2, SessionAssumption DEF Replies
  <2> QED BY <1>1, <1>2, <2>1, <2>3 DEF Fresh
<1> QED BY <1>4, <1>5, <1>7, <1>8, <1>9, BoardChanges DEF OnlyAsked

LEMMA BoardKeepsOInv == ASSUME OInv, Board PROVE OInv'
<1>1. TypeOK' /\ Heard' /\ RowsInFront'
      BY BoardKeepsTypeOK, BoardKeepsHeard, BoardKeepsRows DEF OInv
<1>2. KeysOnlyAsked'
  <2>1. phase = "keys" /\ few => OnlyAsked(Echoed)'
        BY BoardKeepsAsked DEF OInv, KeysOnlyAsked
  <2> QED BY <2>1, BoardChanges DEF KeysOnlyAsked
<1>3. AllOnlyAsked'
  <2>1. phase # "idle" /\ clean => OnlyAsked(Requests)'
        BY BoardKeepsAsked DEF OInv, AllOnlyAsked
  <2> QED BY <2>1, BoardChanges DEF AllOnlyAsked
<1>4. RowsLast' /\ KeysToCome' /\ KeyValuesAreTrue'
      BY BoardChanges DEF OInv, RowsLast, KeysToCome, KeyValuesAreTrue, Reads, KeysRead
<1> QED BY <1>1, <1>2, <1>3, <1>4 DEF OInv

LEMMA RoundtripSteps ==
  ASSUME SessionTypes, RoundtripNext
  PROVE  LET failed == result' = None \/ result' \in Errors
         IN  \/ wire' = wire /\ failed
             \/ /\ wire # <<>> /\ wire' = Tail(wire) /\ Head(wire) \in Reports
                /\ failed \/ (result' = Ok(Head(wire)) /\ Fits(Head(wire), call.req))
<1>1. result = None
      BY RoundtripKeepsTypes
<1>2. CASE Receive
  <2>1. wire # <<>> /\ wire' = Tail(wire) /\ Head(wire) \in Reports
        BY <1>2, HeadTailProperties DEF Receive, SessionTypes
  <2>2. \/ result' = result \/ result' = Error("device")
        \/ (result' = Ok(Head(wire)) /\ Fits(Head(wire), call.req))
        BY <1>2 DEF Receive, Return
  <2> QED BY <1>1, <2>1, <2>2, ErrorsAre
<1>3. CASE RecvTimeout \/ GiveUp \/ RecvFails
  <2>1. wire' = wire /\ (result' = result \/ result' = Error("timeout") \/ result' = Error("io"))
        BY <1>3 DEF RecvTimeout, GiveUp, RecvFails, Return, boardVars
  <2> QED BY <1>1, <2>1, ErrorsAre
<1> QED BY <1>2, <1>3 DEF RoundtripNext

LEMMA RoundtripChanges ==
  ASSUME TypeOK, Roundtrip
  PROVE  /\ RoundtripNext /\ SessionTypes /\ SessionTypes'
         /\ UNCHANGED <<version, adjusting, owed, emitted>>
         /\ UNCHANGED <<phase, todo, askedAt, got, outcome, notes, clean, few, runs>>
         /\ call # None /\ result = None /\ call.req = Head(todo) /\ phase # "idle"
         /\ Asking /\ Asking' /\ ~Accepted
         /\ call' # None => call'.req = call.req
<1>1. RoundtripNext /\ UNCHANGED <<phase, todo, askedAt, got, outcome, notes, clean, few, runs>>
      BY DEF Roundtrip, cmdVars
<1>2. SessionTypes
      BY DEF TypeOK
<1>3. /\ SessionTypes' /\ UNCHANGED <<version, adjusting, owed, emitted>>
      /\ call # None /\ result = None
      /\ \/ call' # None /\ call'.req = call.req /\ result' = None
         \/ call' = None /\ result' # None
      BY <1>1, <1>2, RoundtripKeepsTypes
<1> QED BY <1>1, <1>2, <1>3 DEF TypeOK, Asking, Accepted

LEMMA RoundtripFits ==
  ASSUME TypeOK, Roundtrip
  PROVE  LET failed == result' = None \/ result' \in Errors
         IN  \/ wire' = wire /\ failed
             \/ /\ wire # <<>> /\ wire' = Tail(wire) /\ Head(wire) \in Reports
                /\ failed \/ (result' = Ok(Head(wire)) /\ Fits(Head(wire), Head(todo)))
BY RoundtripChanges, RoundtripSteps

LEMMA RoundtripKeepsTypeOK == ASSUME TypeOK, Roundtrip PROVE TypeOK'
<1>1. result' # None /\ result'.type = "ok" => Fits(result'.report, Head(todo))
      BY RoundtripFits DEF Errors, Ok
<1> QED BY <1>1, RoundtripChanges DEF TypeOK

LEMMA RoundtripKeepsHeard == ASSUME TypeOK, Heard, Roundtrip PROVE Heard'
<1>1. PICK x \in Seq(Measured) : OnWire = x \o OnWire' /\ EdgesIn(queue') = EdgesIn(queue) \o x
      BY RoundtripChanges, RoundtripHearsEdges
<1>2. EdgesIn(queue) \in Seq(Measured) /\ OnWire' \in Seq(Measured)
  <2>1. EdgesIn(queue) \in Seq(Measured)
        BY RoundtripChanges, OnWireIs
  <2>2. OnWire' = EdgesIn(EventsOf(wire')) /\ wire' \in Seq(Reports)
        BY RoundtripChanges DEF OnWire, EventsOf, SessionTypes
  <2>3. OnWire' \in Seq(Measured)
        BY <2>2, EventsType, EdgesType
  <2> QED BY <2>1, <2>3
<1>3. (EdgesIn(queue) \o x) \o OnWire' = EdgesIn(queue) \o (x \o OnWire')
      BY <1>2, EdgesAssociate
<1>4. EdgesIn(queue') \o OnWire' = EdgesIn(emitted')
      BY <1>1, <1>3, RoundtripChanges DEF Heard
<1> QED BY <1>4, RoundtripChanges DEF Heard

LEMMA RoundtripKeepsRows == ASSUME TypeOK, RowsInFront, Roundtrip PROVE RowsInFront'
<1> SUFFICES ASSUME phase' = "matrix", few' PROVE RowsAhead(wire', owed', RowsLeft')
    BY DEF RowsInFront
<1>1. phase = "matrix" /\ few /\ owed' = owed
      BY RoundtripChanges
<1>2. PICK left \in Int : left = RowsLeft
      BY <1>1, RowsLeftIs
<1>3. wire \in Seq(Reports) /\ owed \in Seq(Requests) /\ RowsAhead(wire, owed, left)
      BY <1>1, <1>2 DEF TypeOK, SessionTypes, RowsInFront
<1>4. RowsLeft' = IF RowHeld' THEN left - 1 ELSE left
  <2>1. ~RowHeld /\ todo' = todo
        BY RoundtripChanges DEF RowHeld
  <2>2. Len(todo) \in Nat /\ Len(RowPairs) \in Nat
        BY RowFacts, TodoParts, RoundtripChanges
  <2> QED BY <1>2, <2>1, <2>2 DEF RowsLeft
<1>5. CASE wire' = wire /\ (result' = None \/ result' \in Errors)
  <2>1. ~RowHeld'
        BY <1>5 DEF RowHeld, Errors
  <2> QED BY <1>1, <1>3, <1>4, <1>5, <2>1
<1>6. CASE wire # <<>> /\ wire' = Tail(wire)
  <2>1. RowHeld' => Head(wire) \in RowReplies
    <3> HAVE RowHeld'
    <3>1. Head(wire) \in Reports /\ Fits(Head(wire), Head(todo)) /\ Head(todo) \in Rows
          BY <1>6, RoundtripFits, RoundtripChanges DEF RowHeld, Errors
    <3> QED BY <3>1, RowFacts
  <2>2. RowsAhead(wire', owed', IF Head(wire) \in RowReplies THEN left - 1 ELSE left)
        BY <1>1, <1>3, <1>6, AheadTaken
  <2>3. wire' \in Seq(Reports) /\ owed' \in Seq(Requests)
        BY RoundtripChanges DEF SessionTypes
  <2>4. RowsAhead(wire', owed', left - 1) => RowsAhead(wire', owed', left)
        BY <2>3, AheadMore
  <2> QED BY <1>4, <2>1, <2>2, <2>4
<1> QED BY <1>5, <1>6, RoundtripFits

LEMMA RoundtripKeepsAsked ==
  ASSUME TypeOK, NEW S, OnlyAsked(S), S = Requests \/ Head(todo) \in Echoed \cap S, Roundtrip
  PROVE  OnlyAsked(S)'
<1>1. wire \in Seq(Reports) /\ owed \in Seq(Requests)
      BY DEF TypeOK, SessionTypes
<1>2. PICK q : q = Head(todo)
      OBVIOUS
<1>3. OnePending(wire, owed, S, q, askedAt, version)
      BY <1>2 DEF OnlyAsked
<1>4. Asking' /\ UNCHANGED <<owed, todo, askedAt, version>>
      BY RoundtripChanges
<1>5. CASE wire' = wire /\ (result' = None \/ result' \in Errors)
  <2>1. ~Accepted'
        BY <1>5 DEF Accepted, Errors
  <2> QED BY <1>2, <1>3, <1>4, <1>5, <2>1 DEF OnlyAsked
<1>6. CASE wire # <<>> /\ wire' = Tail(wire)
  <2>1. /\ OnePending(wire', owed, S, q, askedAt, version)
        /\ AnswerTo(S, Head(wire)) => Fresh(Head(wire), q, askedAt, version) /\ NonePending(wire', owed, S)
        BY <1>1, <1>3, <1>6, OneTaken
  <2>2. Accepted' => result'.report = Head(wire) /\ AnswerTo(S, Head(wire))
    <3> HAVE Accepted'
    <3>1. result' = Ok(Head(wire)) /\ Head(wire) \in Reports
          BY <1>6, RoundtripFits DEF Accepted, Errors
    <3>2. result'.report = Head(wire) /\ Decodes(Head(wire), Head(todo)) /\ Fits(Head(wire), Head(todo))
          BY <1>4, <1>6, <3>1, RoundtripFits DEF Accepted, Ok, Errors
    <3>3. IsReply(Head(wire)) /\ Head(wire).req \in Requests
          BY <3>1, <3>2, ReportParts DEF Decodes, IsReply, Replies
    <3> QED BY <3>2, <3>3 DEF Decodes, AnswerTo
  <2> QED BY <1>2, <1>4, <2>1, <2>2 DEF OnlyAsked
<1> QED BY <1>5, <1>6, RoundtripFits

LEMMA RoundtripKeepsOInv == ASSUME OInv, Roundtrip PROVE OInv'
<1>0. TypeOK
      BY DEF OInv
<1>1. TypeOK' /\ Heard' /\ RowsInFront'
      BY RoundtripKeepsTypeOK, RoundtripKeepsHeard, RoundtripKeepsRows DEF OInv
<1>2. KeysOnlyAsked'
  <2>1. ASSUME phase = "keys", few PROVE OnlyAsked(Echoed)'
    <3>1. OnlyAsked(Echoed) /\ Head(todo) \in Echoed
          BY <1>0, <2>1, TodoParts DEF OInv, KeysOnlyAsked
    <3> QED BY <1>0, <3>1, RoundtripKeepsAsked
  <2> QED BY <1>0, <2>1, RoundtripChanges DEF KeysOnlyAsked
<1>3. AllOnlyAsked'
  <2>1. phase # "idle" /\ clean => OnlyAsked(Requests)'
        BY <1>0, RoundtripKeepsAsked DEF OInv, AllOnlyAsked
  <2> QED BY <1>0, <2>1, RoundtripChanges DEF AllOnlyAsked
<1>4. RowsLast' /\ KeysToCome' /\ KeyValuesAreTrue'
      BY <1>0, RoundtripChanges DEF OInv, RowsLast, KeysToCome, KeyValuesAreTrue, Reads, KeysRead
<1> QED BY <1>1, <1>2, <1>3, <1>4 DEF OInv

LEMMA AskSteps ==
  ASSUME TypeOK, AskNext
  PROVE  /\ SessionTypes' /\ UNCHANGED <<version, adjusting, wire, emitted, queue>>
         /\ UNCHANGED <<phase, todo, got, outcome, notes, clean, few, runs>> /\ askedAt' = version
         /\ phase # "idle" /\ ~Asking /\ Asking' /\ ~RowHeld /\ ~RowHeld'
         /\ ~Accepted' /\ (result' # None => result'.type # "ok")
         /\ call' # None => call'.req = Head(todo)
         /\ owed' = owed \/ owed' = Append(owed, Head(todo))
<1>1. phase # "idle" /\ ~Asking /\ Ask(Head(todo)) /\ askedAt' = version
      /\ UNCHANGED <<phase, todo, got, outcome, notes, clean, few, runs>>
      BY DEF AskNext
<1>2. Head(todo) \in Requests /\ SessionTypes
      BY <1>1, TodoParts DEF TypeOK
<1>3. /\ SessionTypes' /\ UNCHANGED <<version, adjusting, wire, emitted, queue>>
      /\ (call' # None \/ result' # None)
      BY <1>1, <1>2, AskKeepsTypes
<1>4. call = None /\ result = None
      BY <1>1 DEF Asking
<1>5. \/ call'.req = Head(todo) /\ owed' = Append(owed, Head(todo)) /\ result' = None
      \/ call' = None /\ owed' = owed /\ result' = Error("io")
      BY <1>1, <1>4 DEF Ask
<1>6. (result' = None \/ result'.type # "ok")
      BY <1>5 DEF Error
<1> QED BY <1>1, <1>3, <1>4, <1>5, <1>6 DEF Asking, RowHeld, Accepted

LEMMA AskKeepsTypeOK == ASSUME TypeOK, AskNext PROVE TypeOK'
<1>1. version \in Nat
      BY SessionAssumption DEF TypeOK, SessionTypes
<1> QED BY <1>1, AskSteps DEF TypeOK

LEMMA AskKeepsRows == ASSUME TypeOK, RowsInFront, AskNext PROVE RowsInFront'
<1> SUFFICES ASSUME phase' = "matrix", few' PROVE RowsAhead(wire', owed', RowsLeft')
    BY DEF RowsInFront
<1>1. phase = "matrix" /\ few /\ wire' = wire /\ RowsLeft' = RowsLeft
      BY AskSteps DEF RowsLeft
<1>2. PICK left \in Int : left = RowsLeft
      BY <1>1, RowsLeftIs
<1>3. wire \in Seq(Reports) /\ owed \in Seq(Requests) /\ RowsAhead(wire, owed, left)
      BY <1>1, <1>2 DEF TypeOK, SessionTypes, RowsInFront
<1>4. Head(todo) \in Requests \ Echoed
      BY <1>1, TodoParts
<1>5. RowsAhead(wire, Append(owed, Head(todo)), left)
      BY <1>3, <1>4, AheadAsked
<1>6. owed' = owed \/ owed' = Append(owed, Head(todo))
      BY AskSteps
<1> QED BY <1>1, <1>2, <1>3, <1>5, <1>6

LEMMA AskKeepsAsked == ASSUME TypeOK, NEW S, OnlyAsked(S), AskNext PROVE OnlyAsked(S)'
<1>1. NonePending(wire, owed, S)
      BY AskSteps DEF OnlyAsked
<1>2. owed \in Seq(Requests)
      BY DEF TypeOK, SessionTypes
<1>3. PICK q : q = Head(todo)
      OBVIOUS
<1>4. OnePending(wire, owed, S, q, version, version) /\ OnePending(wire, Append(owed, q), S, q, version, version)
      BY <1>1, <1>2, NoneIsOne, OneAsked
<1>5. OnePending(wire', owed', S, q, askedAt', version')
      BY <1>3, <1>4, AskSteps
<1> QED BY <1>3, <1>5, AskSteps DEF OnlyAsked

LEMMA AskKeepsOInv == ASSUME OInv, AskNext PROVE OInv'
<1>0. TypeOK
      BY DEF OInv
<1>1. TypeOK' /\ RowsInFront'
      BY AskKeepsTypeOK, AskKeepsRows DEF OInv
<1>2. KeysOnlyAsked'
  <2>1. phase = "keys" /\ few => OnlyAsked(Echoed)'
        BY AskKeepsAsked DEF OInv, KeysOnlyAsked
  <2> QED BY <1>0, <2>1, AskSteps DEF KeysOnlyAsked
<1>3. AllOnlyAsked'
  <2>1. phase # "idle" /\ clean => OnlyAsked(Requests)'
        BY AskKeepsAsked DEF OInv, AllOnlyAsked
  <2> QED BY <1>0, <2>1, AskSteps DEF AllOnlyAsked
<1>4. Heard'
      BY <1>0, AskSteps DEF OInv, Heard, OnWire
<1>5. RowsLast' /\ KeysToCome' /\ KeyValuesAreTrue'
      BY <1>0, AskSteps DEF OInv, RowsLast, KeysToCome, KeyValuesAreTrue, Reads, KeysRead
<1> QED BY <1>1, <1>2, <1>3, <1>4, <1>5 DEF OInv

LEMMA TakenIs ==
  ASSUME OInv, TakeReply
  PROVE  \E g \in Taken :
           /\ got' = Append(got, g) /\ g.asked = Head(todo) /\ g.reply = result.report /\ g.from = askedAt
           /\ got' \in Seq(Taken) /\ Len(got) \in Nat /\ Len(got') = Len(got) + 1 /\ got'[Len(got) + 1] = g
           /\ \A i \in 1..Len(got) : got'[i] = got[i]
           /\ \A i \in 1..Len(got') : i = Len(got) + 1 \/ i \in 1..Len(got)
<1>1. phase # "idle" /\ Accepted
      /\ got' = Append(got, [asked |-> Head(todo), from |-> askedAt, reply |-> result.report])
      BY DEF TakeReply
<1>2. result.report \in Replies
  <2>1. result \in Oks
        BY <1>1 DEF OInv, Accepted, TypeOK, SessionTypes, Oks, Errors
  <2> QED BY <1>1, <2>1, ReportParts DEF Accepted, Decodes, IsReply, Oks
<1>3. PICK g \in Taken : g = [asked |-> Head(todo), from |-> askedAt, reply |-> result.report]
      BY <1>1, <1>2, TodoParts DEF OInv, TypeOK, Taken
<1>4. got \in Seq(Taken)
      BY DEF OInv, TypeOK
<1>5. got' = Append(got, g) /\ got' \in Seq(Taken)
      BY <1>1, <1>3, <1>4, AppendProperties
<1>6. /\ Len(got) \in Nat /\ Len(Append(got, g)) = Len(got) + 1 /\ Append(got, g)[Len(got) + 1] = g
      /\ \A i \in 1..Len(got) : Append(got, g)[i] = got[i]
      /\ \A i \in 1..(Len(got) + 1) : i = Len(got) + 1 \/ i \in 1..Len(got)
      BY <1>4, AppendElements
<1> QED BY <1>3, <1>5, <1>6

LEMMA TakeChanges ==
  ASSUME OInv, TakeReply
  PROVE  /\ TypeOK /\ phase # "idle" /\ Accepted /\ result.report \in Reports
         /\ UNCHANGED <<version, adjusting, owed, wire, emitted, call, askedAt, clean, few, runs>>
         /\ ~Asking' /\ result' = None /\ ~Accepted' /\ Fits(result.report, Head(todo))
         /\ result # None /\ result.type = "ok"
<1>1. /\ phase # "idle" /\ Accepted /\ result' = None
      /\ UNCHANGED <<version, adjusting, owed, wire, emitted, call, askedAt, clean, few, runs>>
      BY DEF TakeReply, boardVars
<1>2. TypeOK /\ call = None
      BY <1>1 DEF OInv, TypeOK, SessionTypes, Accepted
<1>3. result.report \in Reports
      BY <1>1 DEF OInv, Accepted, TypeOK, SessionTypes, Oks, Errors
<1> QED BY <1>1, <1>2, <1>3 DEF Asking, Accepted, TypeOK

\* What it asks next, if anything.
LEMMA TakeCases ==
  ASSUME OInv, TakeReply
  PROVE  \/ /\ Len(todo) > 1 /\ todo' = Tail(todo)
            /\ UNCHANGED <<phase, outcome, notes, queue>>
         \/ /\ Len(todo) = 1 /\ phase = "matrix" /\ phase' = "keys" /\ todo' = KeysOf(got')
            /\ UNCHANGED <<outcome, notes, queue>>
         \/ /\ Len(todo) = 1 /\ phase = "keys" /\ Finish("done")
BY DEF TakeReply

LEMMA LastRow ==
  ASSUME OInv, TakeReply, phase = "matrix", Len(todo) = 1
  PROVE  Head(todo) \in Rows /\ RowHeld /\ RowsLeft = 0 /\ result.report.req \in Rows
<1>1. Head(todo) = todo[1] /\ Len(RowPairs) \in Nat \ {0}
      BY TodoParts, RowFacts DEF OInv
<1>2. Head(todo) \in Rows
  <2>1. 1 \in 1..Len(todo) /\ 1 > Len(todo) - Len(RowPairs)
        BY <1>1
  <2>2. todo[1] \in Rows
        BY <2>1 DEF OInv, RowsLast
  <2> QED BY <1>1, <2>2
<1>3. RowHeld
      BY <1>2, TakeChanges DEF RowHeld
<1>4. RowsLeft = 0
  <2>1. (IF Len(todo) < Len(RowPairs) THEN Len(todo) ELSE Len(RowPairs)) = 1
        BY <1>1
  <2> QED BY <1>3, <2>1 DEF RowsLeft
<1>5. result.report.req \in Rows
      BY <1>2, TakeChanges, RowFacts
<1> QED BY <1>2, <1>3, <1>4, <1>5

LEMMA TakeKeepsTypeOK == ASSUME OInv, TakeReply PROVE TypeOK'
<1>1. PICK g \in Taken :
        /\ got' = Append(got, g) /\ g.asked = Head(todo) /\ g.reply = result.report /\ g.from = askedAt
        /\ got' \in Seq(Taken) /\ Len(got) \in Nat /\ Len(got') = Len(got) + 1 /\ got'[Len(got) + 1] = g
        /\ \A i \in 1..Len(got) : got'[i] = got[i]
        /\ \A i \in 1..Len(got') : i = Len(got) + 1 \/ i \in 1..Len(got)
      BY TakenIs
<1>2. TypeOK /\ todo \in Seq(Requests) /\ todo # <<>>
      BY TakeChanges, TodoParts
<1>3. call = None
      BY TakeChanges DEF TypeOK, SessionTypes
<1>4. ASSUME queue' \in Seq(Events) PROVE SessionTypes'
      BY <1>2, <1>3, <1>4, TakeChanges DEF TypeOK, SessionTypes
<1>5. call' = None /\ result' = None /\ askedAt' \in Nat /\ askedAt' <= version'
      /\ clean' \in BOOLEAN /\ few' \in BOOLEAN /\ ~Asking'
      BY <1>2, <1>3, TakeChanges DEF TypeOK
<1>6. phase = "matrix" => \A i \in 1..Len(got') : got'[i].asked \notin Echoed
      BY <1>1, <1>2, TodoParts DEF TypeOK
<1>7. CASE Len(todo) > 1 /\ todo' = Tail(todo) /\ UNCHANGED <<phase, outcome, notes, queue>>
  <2>1. Tail(todo) # <<>> /\ Tail(todo) \in Seq(Requests)
    <3>1. Len(Tail(todo)) = Len(todo) - 1 /\ Tail(todo) \in Seq(Requests) /\ Len(todo) \in Nat
          BY <1>2, TailElements
    <3>2. Len(todo) > 1
          BY <1>7
    <3>3. Tail(todo) # <<>>
      <4>1. PICK n \in Nat : n = Len(todo)
            BY <3>1
      <4>2. PICK t : t = Tail(todo)
            OBVIOUS
      <4>3. t \in Seq(Requests) /\ Len(t) = n - 1 /\ n > 1
            BY <3>1, <3>2, <4>1, <4>2
      <4> QED BY <4>2, <4>3
    <3> QED BY <3>1, <3>3
  <2>2. phase = "matrix" => Tail(todo) \in Seq(Requests \ Echoed)
        BY <1>2, HeadTailProperties DEF TypeOK
  <2>3. phase = "keys" => Tail(todo) \in Seq(Echoed)
        BY <1>2, HeadTailProperties DEF TypeOK
  <2>4. SessionTypes'
        BY <1>2, <1>4, <1>7 DEF TypeOK, SessionTypes
  <2>5. phase # "idle"
        BY TakeChanges
  <2> QED BY <1>1, <1>2, <1>5, <1>6, <1>7, <2>1, <2>2, <2>3, <2>4, <2>5 DEF TypeOK
<1>8. CASE /\ Len(todo) = 1 /\ phase = "matrix" /\ phase' = "keys" /\ todo' = KeysOf(got')
           /\ UNCHANGED <<outcome, notes, queue>>
  <2> DEFINE read == {got'[i].reply.req : i \in 1..Len(got')} \cap Rows
  <2>1. KeysOf(got') \in Seq(Echoed) /\ Range(KeysOf(got')) = UNION {Range(KeysIn[r]) : r \in read}
        BY <1>1, KeysOfIs
  <2>2. result.report.req \in read
    <3>1. Len(got) + 1 \in 1..Len(got') /\ got'[Len(got) + 1].reply.req = result.report.req
          BY <1>1
    <3> QED BY <1>8, <3>1, LastRow
  <2>3. Range(KeysIn[result.report.req]) # {}
    <3>1. PICK s : s = KeysIn[result.report.req]
          OBVIOUS
    <3>2. s \in Seq(Echoed) /\ s # <<>>
          BY <1>8, <3>1, LastRow, RowFacts
    <3>3. 1 \in 1..Len(s) /\ Range(s) = {s[i] : i \in 1..Len(s)}
          BY <3>2, RangeIs, TailElements
    <3> QED BY <3>1, <3>3
  <2> HIDE DEF read
  <2>4. Range(KeysOf(got')) # {}
        BY <2>1, <2>2, <2>3
  <2>5. todo' # <<>>
        BY <1>8, <2>4 DEF Range
  <2>6. todo' \in Seq(Echoed) /\ todo' \in Seq(Requests)
    <3>1. Seq(Echoed) \subseteq Seq(Requests)
          BY RowFacts, SeqMonotonic
    <3> QED BY <1>8, <2>1, <3>1
  <2>7. SessionTypes'
        BY <1>2, <1>4, <1>8 DEF TypeOK, SessionTypes
  <2>8. outcome' = "none"
        BY <1>2, <1>8 DEF TypeOK
  <2> QED BY <1>1, <1>2, <1>5, <1>6, <1>8, <2>5, <2>6, <2>7, <2>8 DEF TypeOK
<1>9. CASE Finish("done")
  <2>1. phase' = "idle" /\ queue' = <<>>
        BY <1>9 DEF Finish
  <2>2. SessionTypes'
        BY <1>4, <2>1, EmptySeq
  <2> QED BY <1>1, <1>5, <2>1, <2>2 DEF TypeOK
<1> QED BY <1>7, <1>8, <1>9, TakeCases

\* The notes are about what the queue held at the end.
LEMMA FinishKeepsHeard ==
  ASSUME TypeOK, Heard, phase # "idle", NEW how, Finish(how), UNCHANGED <<wire, emitted>>
  PROVE  Heard'
<1>1. EdgesIn(queue) \in Seq(Measured) /\ Told(Notes(queue), EdgesIn(queue))
  <2>1. queue \in Seq(Events)
        BY DEF TypeOK, SessionTypes
  <2> QED BY <2>1, NotesTell, EdgesType
<1>2. EdgesIn(queue) \o OnWire = EdgesIn(emitted)
      BY DEF Heard
<1>3. phase' = "idle" /\ OnWire' = OnWire /\ EdgesIn(emitted') = EdgesIn(emitted) /\ notes' = Notes(queue)
      BY DEF Finish, OnWire
<1>4. EdgesIn(queue) \o OnWire' = EdgesIn(emitted') /\ Told(notes', EdgesIn(queue))
      BY <1>1, <1>2, <1>3
<1> QED BY <1>1, <1>3, <1>4 DEF Heard

LEMMA TakeKeepsHeard == ASSUME OInv, TakeReply PROVE Heard'
<1>1. TypeOK /\ Heard /\ phase # "idle" /\ UNCHANGED <<wire, emitted>>
      BY TakeChanges DEF OInv
<1>2. CASE UNCHANGED <<outcome, notes, queue>> /\ phase' # "idle"
      BY <1>1, <1>2 DEF Heard, OnWire
<1>3. CASE Finish("done")
      BY <1>1, <1>3, FinishKeepsHeard
<1> QED BY <1>1, <1>2, <1>3, TakeCases

LEMMA TakeKeepsRows == ASSUME OInv, TakeReply PROVE RowsLast' /\ RowsInFront'
<1> SUFFICES ASSUME phase' = "matrix"
             PROVE  /\ \A i \in 1..Len(todo') : todo'[i] \in Rows <=> i > Len(todo') - Len(RowPairs)
                    /\ few' => RowsAhead(wire', owed', RowsLeft')
    BY DEF RowsLast, RowsInFront
<1>1. phase = "matrix" /\ Len(todo) > 1 /\ todo' = Tail(todo)
      BY TakeCases DEF Finish
<1>2. TypeOK /\ RowsLast /\ RowsInFront
      BY DEF OInv
<1>3. PICK n \in Nat : n = Len(todo)
      BY <1>1, <1>2, TodoParts
<1>4. PICK k \in Nat \ {0} : k = Len(RowPairs)
      BY RowFacts
<1>5. /\ Len(Tail(todo)) = n - 1 /\ Head(todo) = todo[1]
      /\ \A i \in 1..(n - 1) : Tail(todo)[i] = todo[i + 1]
  <2>1. todo \in Seq(Requests) /\ todo # <<>>
        BY <1>1, <1>2, TodoParts
  <2> QED BY <1>3, <2>1, TailElements
<1>6. n > 1
      BY <1>1, <1>3
<1>7. \A i \in 1..n : todo[i] \in Rows <=> i > n - k
      BY <1>1, <1>2, <1>3, <1>4 DEF RowsLast
<1>8. ASSUME NEW i \in 1..(n - 1) PROVE Tail(todo)[i] \in Rows <=> i > (n - 1) - k
  <2>1. i + 1 \in 1..n /\ Tail(todo)[i] = todo[i + 1]
        BY <1>5
  <2>2. todo[i + 1] \in Rows <=> i + 1 > n - k
        BY <1>7, <2>1
  <2>3. i + 1 > n - k <=> i > (n - 1) - k
        OBVIOUS
  <2> QED BY <2>1, <2>2, <2>3
<1>9. PICK t : t = Tail(todo) /\ t = todo'
      BY <1>1
<1>10. Len(t) = n - 1 /\ \A i \in 1..(n - 1) : t[i] \in Rows <=> i > (n - 1) - k
       BY <1>5, <1>8, <1>9
<1>11. ASSUME few' PROVE RowsAhead(wire', owed', RowsLeft')
  <2>1. RowsAhead(wire, owed, RowsLeft) /\ wire' = wire /\ owed' = owed
        BY <1>1, <1>2, <1>11, TakeChanges DEF RowsInFront
  <2>2. RowHeld <=> n <= k
    <3>1. 1 \in 1..n
          BY <1>6
    <3>2. Head(todo) \in Rows <=> 1 > n - k
          BY <1>5, <1>7, <3>1
    <3> QED BY <3>2, TakeChanges DEF RowHeld
  <2>3. RowsLeft = (IF n < k THEN n ELSE k) - (IF RowHeld THEN 1 ELSE 0)
        BY <1>3, <1>4 DEF RowsLeft
  <2>4. ~RowHeld'
        BY TakeChanges DEF RowHeld
  <2>5. RowsLeft' = (IF n - 1 < k THEN n - 1 ELSE k)
    <3>1. RowsLeft' = (IF Len(todo') < Len(RowPairs) THEN Len(todo') ELSE Len(RowPairs)) - 0
          BY <2>4 DEF RowsLeft
    <3>2. Len(todo') = n - 1
          BY <1>9, <1>10
    <3> QED BY <1>4, <3>1, <3>2
  <2>6. RowsLeft' = RowsLeft
        BY <1>6, <2>2, <2>3, <2>5
  <2> QED BY <2>1, <2>6
<1> QED BY <1>9, <1>10, <1>4, <1>11

LEMMA NoneMeansAsked ==
  ASSUME NEW S, NonePending(wire', owed', S), ~Accepted'
  PROVE  OnlyAsked(S)'
<1>1. \A q, from, now : OnePending(wire', owed', S, q, from, now)
      BY NoneIsOne
<1> QED BY <1>1 DEF OnlyAsked

LEMMA TakeKeepsAsked == ASSUME OInv, TakeReply PROVE KeysOnlyAsked' /\ AllOnlyAsked'
<1>1. TypeOK /\ ~Accepted' /\ wire' = wire /\ owed' = owed /\ Accepted /\ phase # "idle"
      /\ UNCHANGED <<clean, few>>
      BY TakeChanges
<1>2. ASSUME phase' # "idle", clean' PROVE OnlyAsked(Requests)'
  <2>1. NonePending(wire, owed, Requests)
        BY <1>1, <1>2 DEF OInv, AllOnlyAsked, OnlyAsked
  <2> QED BY <1>1, <2>1, NoneMeansAsked
<1>3. ASSUME phase' = "keys", few' PROVE OnlyAsked(Echoed)'
  <2>1. CASE phase = "keys"
    <3>1. NonePending(wire, owed, Echoed)
          BY <1>1, <1>3, <2>1 DEF OInv, KeysOnlyAsked, OnlyAsked
    <3> QED BY <1>1, <3>1, NoneMeansAsked
  <2>2. CASE phase = "matrix"
    <3>1. Len(todo) = 1
          BY <1>3, <2>2, TakeCases
    <3>2. RowsAhead(wire, owed, 0)
          BY <1>1, <1>3, <2>2, <3>1, LastRow DEF OInv, RowsInFront
    <3>3. wire \in Seq(Reports) /\ owed \in Seq(Requests)
          BY <1>1 DEF TypeOK, SessionTypes
    <3>4. NonePending(wire, owed, Echoed)
          BY <3>2, <3>3, AheadNone DEF NonePending, AnswerTo
    <3> QED BY <1>1, <3>4, NoneMeansAsked
  <2> QED BY <1>1, <2>1, <2>2 DEF TypeOK
<1> QED BY <1>2, <1>3 DEF KeysOnlyAsked, AllOnlyAsked

LEMMA TakenFresh ==
  ASSUME OInv, TakeReply
  PROVE  /\ clean => result.report.req = Head(todo) /\ Fresh(result.report, Head(todo), askedAt, version)
         /\ phase = "keys" /\ few => Fresh(result.report, Head(todo), askedAt, version)
         /\ phase = "keys" => result.report.req = Head(todo)
<1>1. phase # "idle" /\ Accepted /\ TypeOK
      BY TakeChanges
<1>2. clean => Fresh(result.report, Head(todo), askedAt, version)
      BY <1>1 DEF OInv, AllOnlyAsked, OnlyAsked
<1>3. phase = "keys" /\ few => Fresh(result.report, Head(todo), askedAt, version)
      BY <1>1 DEF OInv, KeysOnlyAsked, OnlyAsked
<1>4. phase = "keys" => result.report.req = Head(todo)
      BY <1>1, TodoParts DEF Accepted, Decodes
<1> QED BY <1>2, <1>3, <1>4 DEF Fresh

LEMMA TakeKeepsValues == ASSUME OInv, TakeReply PROVE KeyValuesAreTrue'
<1>1. PICK g \in Taken :
        /\ got' = Append(got, g) /\ g.asked = Head(todo) /\ g.reply = result.report /\ g.from = askedAt
        /\ got' \in Seq(Taken) /\ Len(got) \in Nat /\ Len(got') = Len(got) + 1 /\ got'[Len(got) + 1] = g
        /\ \A i \in 1..Len(got) : got'[i] = got[i]
        /\ \A i \in 1..Len(got') : i = Len(got) + 1 \/ i \in 1..Len(got)
      BY TakenIs
<1>2. DOMAIN got' = 1..Len(got') /\ DOMAIN got = 1..Len(got)
  <2>1. got \in Seq(Taken)
        BY DEF OInv, TypeOK
  <2> QED BY <1>1, <2>1, LenProperties
<1>3. few' = few /\ TypeOK /\ phase # "idle"
      BY TakeChanges
<1>4. ASSUME g.asked \in Echoed
      PROVE  g.reply.req = g.asked /\ (few => g.reply.version >= g.from)
  <2>1. phase = "keys"
        BY <1>1, <1>3, <1>4, TodoParts DEF TypeOK
  <2>2. Head(todo) \notin Fixed
        BY <1>1, <1>4, OneShotAssumption
  <2>3. g.reply.req = Head(todo) /\ (few => askedAt <= g.reply.version)
        BY <1>1, <2>1, <2>2, TakenFresh DEF Fresh
  <2>4. g.reply.version \in Nat /\ askedAt \in Nat
        BY <1>3, SessionAssumption DEF Taken, Replies, TypeOK
  <2> QED BY <1>1, <2>3, <2>4
<1>5. ASSUME NEW i \in 1..Len(got'), got'[i].asked \in Echoed
      PROVE  got'[i].reply.req = got'[i].asked /\ (few' => got'[i].reply.version >= got'[i].from)
  <2>1. CASE i = Len(got) + 1
        BY <1>1, <1>3, <1>4, <1>5, <2>1
  <2>2. CASE i \in 1..Len(got)
    <3>1. got'[i] = got[i]
          BY <1>1, <2>2
    <3>2. got[i].reply.req = got[i].asked /\ (few => got[i].reply.version >= got[i].from)
          BY <1>2, <1>5, <2>2, <3>1 DEF OInv, KeyValuesAreTrue
    <3> QED BY <1>3, <3>1, <3>2
  <2> QED BY <1>1, <2>1, <2>2
<1> QED BY <1>2, <1>5 DEF KeyValuesAreTrue

LEMMA TakeKeepsKeys == ASSUME OInv, TakeReply PROVE KeysToCome'
<1> SUFFICES ASSUME clean'
             PROVE  /\ phase' = "matrix" => Rows \subseteq Reads' \cup Range(todo')
                    /\ phase' = "keys" => KeysRead' \cup Range(todo') = AllKeys
                    /\ outcome' = "done" => KeysRead' = AllKeys
    BY DEF KeysToCome
<1>1. PICK g \in Taken :
        /\ got' = Append(got, g) /\ g.asked = Head(todo) /\ g.reply = result.report /\ g.from = askedAt
        /\ got' \in Seq(Taken) /\ Len(got) \in Nat /\ Len(got') = Len(got) + 1 /\ got'[Len(got) + 1] = g
        /\ \A i \in 1..Len(got) : got'[i] = got[i]
        /\ \A i \in 1..Len(got') : i = Len(got) + 1 \/ i \in 1..Len(got)
      BY TakenIs
<1>2. DOMAIN got' = 1..Len(got') /\ DOMAIN got = 1..Len(got)
  <2>1. got \in Seq(Taken)
        BY DEF OInv, TypeOK
  <2> QED BY <1>1, <2>1, LenProperties
<1>3. clean /\ TypeOK /\ phase # "idle" /\ outcome = "none" /\ KeysToCome
      BY TakeChanges DEF TypeOK, OInv
<1>4. g.reply.req = Head(todo)
      BY <1>1, <1>3, TakenFresh
<1>5. Reads' = Reads \cup {Head(todo)}
  <2>1. Len(got) + 1 \in 1..Len(got') /\ \A i \in 1..Len(got) : i \in 1..Len(got')
        BY <1>1
  <2> QED BY <1>1, <1>4, <2>1 DEF Reads
<1>6. KeysRead' = KeysRead \cup (IF Head(todo) \in Echoed THEN {Head(todo)} ELSE {})
  <2>1. Len(got) + 1 \in 1..Len(got') /\ \A i \in 1..Len(got) : i \in 1..Len(got')
        BY <1>1
  <2>2. KeysRead = {got[i].reply.req : i \in {j \in 1..Len(got) : got[j].asked \in Echoed}}
        BY <1>2 DEF KeysRead
  <2>3. KeysRead' = {got'[i].reply.req : i \in {j \in 1..Len(got') : got'[j].asked \in Echoed}}
        BY <1>2 DEF KeysRead
  <2>4. KeysRead' \subseteq KeysRead \cup (IF Head(todo) \in Echoed THEN {Head(todo)} ELSE {})
        BY <1>1, <1>4, <2>2, <2>3
  <2>5. KeysRead \subseteq KeysRead'
        BY <1>1, <2>1, <2>2, <2>3
  <2>6. Head(todo) \in Echoed => Head(todo) \in KeysRead'
        BY <1>1, <1>4, <2>1, <2>3
  <2> QED BY <2>4, <2>5, <2>6
<1>7. Range(todo) = {Head(todo)} \cup Range(Tail(todo))
  <2>2. todo \in Seq(Requests) /\ todo # <<>>
        BY <1>3, TodoParts
  <2>3. /\ Len(todo) \in Nat /\ Len(todo) > 0 /\ Len(Tail(todo)) = Len(todo) - 1 /\ Tail(todo) \in Seq(Requests)
        /\ Head(todo) = todo[1]
        /\ \A i \in 1..(Len(todo) - 1) : Tail(todo)[i] = todo[i + 1]
        BY <2>2, TailElements
  <2>4. PICK t : t = Tail(todo)
        OBVIOUS
  <2>5. Range(todo) = {todo[i] : i \in 1..Len(todo)} /\ Range(t) = {t[i] : i \in 1..(Len(todo) - 1)}
    <3>1. Range(todo) = {todo[i] : i \in 1..Len(todo)}
          BY <2>2, RangeIs
    <3>2. t \in Seq(Requests) /\ Len(t) = Len(todo) - 1
          BY <2>3, <2>4
    <3>3. Range(t) = {t[i] : i \in 1..Len(t)}
          BY <3>2, RangeIs
    <3> QED BY <3>1, <3>2, <3>3
  <2>6. PICK n \in Nat : n = Len(todo) /\ n > 0
        BY <2>3
  <2>7. \A i \in 1..n : i = 1 \/ (i - 1 \in 1..(n - 1) /\ (i - 1) + 1 = i)
        OBVIOUS
  <2>8. \A i \in 1..(n - 1) : t[i] = todo[i + 1] /\ i + 1 \in 1..n
        BY <2>3, <2>4, <2>6
  <2>9. Range(todo) \subseteq {todo[1]} \cup Range(t)
    <3> SUFFICES ASSUME NEW i \in 1..n, i # 1 PROVE todo[i] \in Range(t)
        BY <2>5, <2>6
    <3>1. i - 1 \in 1..(n - 1) /\ t[i - 1] = todo[i]
          BY <2>7, <2>8
    <3> QED BY <2>5, <2>6, <3>1
  <2>10. {todo[1]} \cup Range(t) \subseteq Range(todo)
         BY <2>5, <2>6, <2>8
  <2> QED BY <2>3, <2>4, <2>9, <2>10
<1>8. CASE Len(todo) > 1 /\ todo' = Tail(todo) /\ UNCHANGED <<phase, outcome, notes, queue>>
  <2>1. phase' = "matrix" => Rows \subseteq Reads' \cup Range(todo')
        BY <1>3, <1>5, <1>7, <1>8 DEF KeysToCome
  <2>2. phase' = "keys" => KeysRead' \cup Range(todo') = AllKeys
    <3> HAVE phase' = "keys"
    <3>1. Head(todo) \in Echoed
          BY <1>3, <1>8, TodoParts
    <3>2. KeysRead \cup Range(todo) = AllKeys
          BY <1>3, <1>8 DEF KeysToCome
    <3> QED BY <1>6, <1>7, <1>8, <3>1, <3>2
  <2> QED BY <1>3, <1>8, <2>1, <2>2
<1>9. CASE Len(todo) = 1
  <2>1. Range(Tail(todo)) = {}
    <3>1. todo \in Seq(Requests) /\ todo # <<>>
          BY <1>3, TodoParts
    <3>2. PICK t : t = Tail(todo)
          OBVIOUS
    <3>3. t \in Seq(Requests) /\ Len(t) = 0
          BY <1>9, <3>1, <3>2, TailElements
    <3>4. Range(t) = {t[i] : i \in 1..Len(t)}
          BY <3>3, RangeIs
    <3> QED BY <3>2, <3>3, <3>4
  <2>2. CASE phase = "matrix"
    <3>1. phase' = "keys" /\ todo' = KeysOf(got') /\ outcome' = outcome
          BY <1>9, <2>2, TakeCases
    <3>2. Rows \subseteq Reads'
          BY <1>3, <1>5, <1>7, <2>1, <2>2 DEF KeysToCome
    <3>3. Range(KeysOf(got')) = UNION {Range(KeysIn[r]) : r \in {got'[i].reply.req : i \in 1..Len(got')} \cap Rows}
          BY <1>1, KeysOfIs
    <3>4. {got'[i].reply.req : i \in 1..Len(got')} \cap Rows = Rows
          BY <3>2 DEF Reads
    <3>5. Range(todo') = AllKeys
          BY <3>1, <3>3, <3>4 DEF AllKeys
    <3>6. KeysRead' = {}
      <4>1. Head(todo) \notin Echoed
            BY <1>3, <2>2, TodoParts
      <4>2. KeysRead = {}
            BY <1>2, <1>3, <2>2 DEF KeysRead, TypeOK
      <4> QED BY <1>6, <4>1, <4>2
    <3> QED BY <1>3, <3>1, <3>5, <3>6
  <2>3. CASE phase = "keys"
    <3>1. phase' = "idle"
          BY <1>9, <2>3, TakeCases DEF Finish
    <3>2. Head(todo) \in Echoed /\ KeysRead \cup Range(todo) = AllKeys
          BY <1>3, <2>3, TodoParts DEF KeysToCome
    <3>3. KeysRead' = AllKeys
          BY <1>6, <1>7, <2>1, <3>2
    <3> QED BY <3>1, <3>3
  <2> QED BY <1>3, <2>2, <2>3 DEF TypeOK
<1> QED BY <1>8, <1>9, TakeCases

LEMMA TakeKeepsOInv == ASSUME OInv, TakeReply PROVE OInv'
BY TakeKeepsTypeOK, TakeKeepsHeard, TakeKeepsRows, TakeKeepsAsked, TakeKeepsKeys, TakeKeepsValues DEF OInv

LEMMA FailKeepsOInv == ASSUME OInv, ReadFails PROVE OInv'
<1>1. /\ phase # "idle" /\ result # None /\ result' = None /\ Finish("failed")
      /\ UNCHANGED <<version, adjusting, owed, wire, emitted, call, askedAt, got, clean, few, runs>>
      BY DEF ReadFails, boardVars
<1>2. phase' = "idle" /\ outcome' = "failed" /\ queue' = <<>>
      BY <1>1 DEF Finish
<1>3. TypeOK /\ call = None
      BY <1>1 DEF OInv, TypeOK, SessionTypes
<1>4. SessionTypes'
      BY <1>1, <1>2, <1>3, EmptySeq DEF TypeOK, SessionTypes
<1>5. TypeOK'
      BY <1>1, <1>2, <1>3, <1>4 DEF TypeOK, Asking
<1>6. Heard'
      BY <1>1, <1>3, FinishKeepsHeard DEF OInv
<1>7. RowsLast' /\ RowsInFront' /\ KeysOnlyAsked' /\ AllOnlyAsked' /\ KeysToCome'
      BY <1>2 DEF RowsLast, RowsInFront, KeysOnlyAsked, AllOnlyAsked, KeysToCome
<1>8. KeyValuesAreTrue'
      BY <1>1 DEF OInv, KeyValuesAreTrue
<1> QED BY <1>5, <1>6, <1>7, <1>8 DEF OInv

LEMMA NoneOnWire == ASSUME wire' = <<>> PROVE OnWire' = <<>>
<1>1. [i \in 1..Len(<<>>) |-> EventOf(<<>>[i])] = <<>>
      OBVIOUS
<1>2. EdgesIn(<<>>) = <<>>
      BY KeepingEmpty DEF EdgesIn
<1> QED BY <1>1, <1>2 DEF OnWire

\* What a command asks before the keys: the rows last.
LEMMA Prologue ==
  ASSUME NEW p \in Prologues, NEW t, t = p \o RowPairs
  PROVE  /\ t \in Seq(Requests \ Echoed) /\ t # <<>> /\ Len(t) \in Nat /\ Len(t) >= Len(RowPairs)
         /\ Rows \subseteq Range(t)
         /\ \A i \in 1..Len(t) : t[i] \in Rows <=> i > Len(t) - Len(RowPairs)
<1>1. p \in Seq(Requests \ (Rows \cup Echoed)) /\ RowPairs \in Seq(Requests \ Echoed)
      BY OneShotAssumption DEF Rows
<1>2. p \in Seq(Requests \ Echoed)
  <2>1. Seq(Requests \ (Rows \cup Echoed)) \subseteq Seq(Requests \ Echoed)
        BY SeqMonotonic
  <2> QED BY <1>1, <2>1
<1>3. /\ t \in Seq(Requests \ Echoed) /\ Len(t) = Len(p) + Len(RowPairs)
      /\ \A i \in 1..(Len(p) + Len(RowPairs)) : t[i] = IF i <= Len(p) THEN p[i] ELSE RowPairs[i - Len(p)]
      BY <1>1, <1>2, ConcatProperties
<1>4. PICK m \in Nat : m = Len(p)
      BY <1>1, LenProperties
<1>5. PICK k \in Nat \ {0} : k = Len(RowPairs)
      BY RowFacts
<1>6. \A i \in 1..m : p[i] \notin Rows
      BY <1>1, <1>4, ElementOfSeq
<1>7. Rows = {RowPairs[i] : i \in 1..k}
      BY <1>1, <1>5, RangeIs DEF Rows
<1>8. /\ Len(t) = m + k
      /\ \A i \in 1..(m + k) : t[i] = IF i <= m THEN p[i] ELSE RowPairs[i - m]
      BY <1>3, <1>4, <1>5
<1>9. Range(t) = {t[i] : i \in 1..(m + k)}
  <2>1. PICK u \in Seq(Requests \ Echoed) : u = t
        BY <1>3
  <2>2. Range(u) = {u[i] : i \in 1..Len(u)}
        BY RangeIs
  <2> QED BY <1>8, <2>1, <2>2
<1>10. ASSUME NEW i \in 1..(m + k) PROVE t[i] \in Rows <=> i > (m + k) - k
  <2>1. (m + k) - k = m
        OBVIOUS
  <2>2. i <= m => t[i] \notin Rows
    <3> HAVE i <= m
    <3>1. i \in 1..m
          OBVIOUS
    <3>2. t[i] = p[i]
          BY <1>8
    <3> QED BY <1>6, <3>1, <3>2
  <2>3. i > m => t[i] \in Rows
    <3> HAVE i > m
    <3>1. i - m \in 1..k
          OBVIOUS
    <3>2. ~(i <= m)
          OBVIOUS
    <3>3. t[i] = RowPairs[i - m]
          BY <1>8, <3>2
    <3> QED BY <1>7, <3>1, <3>3
  <2>4. i <= m \/ i > m
        OBVIOUS
  <2> QED BY <2>1, <2>2, <2>3, <2>4
<1>11. \A i \in 1..k : RowPairs[i] \in Range(t)
  <2> TAKE i \in 1..k
  <2>1. m + i \in 1..(m + k) /\ ~(m + i <= m) /\ (m + i) - m = i
        OBVIOUS
  <2>2. t[m + i] = RowPairs[i]
        BY <1>8, <2>1
  <2> QED BY <1>9, <2>1, <2>2
<1>12. Len(t) # 0
       BY <1>8
<1>13. t # <<>>
       BY <1>12, EmptySeq
<1>14. t \in Seq(Requests \ Echoed)
       BY <1>3
<1>15. Rows \subseteq Range(t)
       BY <1>7, <1>11
<1> QED BY <1>5, <1>8, <1>10, <1>13, <1>14, <1>15

LEMMA BeginKeepsOInv == ASSUME OInv, NEW p \in Prologues, Begin(p) PROVE OInv'
<1>1. /\ phase = "idle" /\ phase' = "matrix" /\ todo' = p \o RowPairs /\ got' = <<>> /\ outcome' = "none"
      /\ Owing /\ wire' = <<>> /\ emitted' = <<>>
      /\ UNCHANGED <<version, adjusting, owed, queue, call, result, askedAt>>
      BY DEF Begin, hostVars
<1>2. TypeOK /\ ~Asking /\ queue = <<>>
      BY <1>1 DEF OInv, TypeOK
<1>3. call = None /\ result = None /\ owed \in Seq(Requests)
      BY <1>2 DEF Asking, TypeOK, SessionTypes
<1>4. PICK t : t = todo'
      OBVIOUS
<1>5. /\ t \in Seq(Requests \ Echoed) /\ t # <<>> /\ Len(t) \in Nat /\ Len(t) >= Len(RowPairs)
      /\ Rows \subseteq Range(t)
      /\ \A i \in 1..Len(t) : t[i] \in Rows <=> i > Len(t) - Len(RowPairs)
      BY <1>1, <1>4, Prologue
<1>6. t \in Seq(Requests)
  <2>1. Seq(Requests \ Echoed) \subseteq Seq(Requests)
        BY SeqMonotonic
  <2> QED BY <1>5, <2>1
<1>7. \A X : <<>> \in Seq(X)
      BY EmptySeq
<1>8. ~Asking' /\ ~Accepted' /\ ~RowHeld'
      BY <1>1, <1>3 DEF Asking, Accepted, RowHeld
<1>9. SessionTypes'
      BY <1>1, <1>2, <1>3, <1>7 DEF TypeOK, SessionTypes
<1>10. clean' \in BOOLEAN /\ few' \in BOOLEAN
       BY <1>1, <1>2 DEF Owing, TypeOK
<1>11. TypeOK'
  <2>1. \A i \in 1..Len(got') : got'[i].asked \notin Echoed
        BY <1>1
  <2>2. call' = None /\ result' = None /\ askedAt' \in Nat /\ askedAt' <= version' /\ got' \in Seq(Taken)
        BY <1>1, <1>2, <1>3, <1>7 DEF TypeOK
  <2> QED BY <1>1, <1>4, <1>5, <1>6, <1>8, <1>9, <1>10, <2>1, <2>2 DEF TypeOK
<1>12. Heard'
  <2>1. EdgesIn(<<>>) = <<>>
        BY KeepingEmpty DEF EdgesIn
  <2>2. <<>> \o <<>> = <<>>
        BY EmptySeq, ConcatEmptySeq
  <2>3. OnWire' = <<>>
        BY <1>1, NoneOnWire
  <2>4. EdgesIn(queue') \o OnWire' = EdgesIn(emitted')
        BY <1>1, <1>2, <2>1, <2>2, <2>3
  <2> QED BY <1>1, <2>4 DEF Heard
<1>13. RowsLast'
       BY <1>4, <1>5 DEF RowsLast
<1>14. RowsInFront'
  <2> SUFFICES ASSUME few' PROVE RowsAhead(wire', owed', RowsLeft')
      BY DEF RowsInFront
  <2>1. PICK k \in Nat \ {0} : k = Len(RowPairs)
        BY RowFacts
  <2>2. RowsLeft' = k
    <3>1. RowsLeft' = (IF Len(todo') < Len(RowPairs) THEN Len(todo') ELSE Len(RowPairs)) - 0
          BY <1>8 DEF RowsLeft
    <3> QED BY <1>4, <1>5, <2>1, <3>1
  <2>3. Count(owed, Rows, Len(owed)) < k
    <3>1. DOMAIN owed = 1..Len(owed)
          BY <1>3, LenProperties
    <3> QED BY <1>1, <2>1, <3>1 DEF Owing, Count, Rows
  <2>4. RowsAhead(<<>>, owed, k)
        BY <1>3, <2>1, <2>3, AheadBegins
  <2> QED BY <1>1, <2>2, <2>4
<1>15. AllOnlyAsked'
  <2> SUFFICES ASSUME clean' PROVE OnlyAsked(Requests)'
      BY DEF AllOnlyAsked
  <2>1. owed = <<>>
        BY <1>1 DEF Owing
  <2>2. NonePending(wire', owed', Requests)
        BY <1>1, <2>1 DEF NonePending
  <2> QED BY <1>8, <2>2, NoneMeansAsked
<1>16. KeysToCome'
       BY <1>1, <1>4, <1>5 DEF KeysToCome
<1>17. KeyValuesAreTrue'
       BY <1>1 DEF KeyValuesAreTrue
<1> QED BY <1>1, <1>11, <1>12, <1>13, <1>14, <1>15, <1>16, <1>17 DEF OInv, KeysOnlyAsked

LEMMA InitOInv == ASSUME Init PROVE OInv
<1>1. /\ version = 0 /\ adjusting \in BOOLEAN /\ owed = <<>> /\ wire = <<>> /\ emitted = <<>>
      /\ queue = <<>> /\ call = None /\ result = None /\ phase = "idle" /\ todo = <<>> /\ askedAt = 0
      /\ got = <<>> /\ outcome = "none" /\ clean = TRUE /\ few = TRUE
      BY DEF Init, BoardInit, HostInit
<1>2. 0 \in 0..MaxVersion
      BY SessionAssumption
<1>3. \A X : <<>> \in Seq(X)
      BY EmptySeq
<1>4. TypeOK
      BY <1>1, <1>2, <1>3 DEF TypeOK, SessionTypes, Asking
<1>5. Heard /\ RowsLast /\ RowsInFront /\ KeysOnlyAsked /\ AllOnlyAsked /\ KeysToCome /\ KeyValuesAreTrue
      BY <1>1 DEF Heard, RowsLast, RowsInFront, KeysOnlyAsked, AllOnlyAsked, KeysToCome, KeyValuesAreTrue
<1> QED BY <1>4, <1>5 DEF OInv

\* The invariant is inductive.
THEOREM OneShotInductive ==
  /\ Init => OInv
  /\ OInv /\ [Next]_vars => OInv'
<1>1. Init => OInv
      BY InitOInv
<1>2. ASSUME OInv, [Next]_vars PROVE OInv'
  <2>1. CASE UNCHANGED vars
    <3>1. /\ UNCHANGED <<version, adjusting, owed, wire, emitted, queue, call, result>>
          /\ UNCHANGED <<phase, todo, askedAt, got, outcome, notes, clean, few, runs>>
          BY <2>1 DEF vars, sessionVars, boardVars, hostVars, cmdVars
    <3>2. TypeOK' /\ Heard' /\ RowsLast' /\ KeysToCome' /\ KeyValuesAreTrue'
          BY <1>2, <3>1 DEF OInv, TypeOK, SessionTypes, Asking, Heard, OnWire, RowsLast, KeysToCome, Reads, KeysRead, KeyValuesAreTrue
    <3>3. RowsInFront' /\ KeysOnlyAsked' /\ AllOnlyAsked'
          BY <1>2, <3>1 DEF OInv, RowsInFront, RowsLeft, RowHeld, KeysOnlyAsked, AllOnlyAsked, OnlyAsked, Asking, Accepted
    <3> QED BY <3>2, <3>3 DEF OInv
  <2> QED BY <1>2, <2>1, BoardKeepsOInv, RoundtripKeepsOInv, AskKeepsOInv, TakeKeepsOInv, FailKeepsOInv,
             BeginKeepsOInv DEF Next
<1> QED BY <1>1, <1>2

THEOREM OneShotInvariant == Spec => []OInv
BY OneShotInductive, PTL DEF Spec

\* For any number of commands, keys, rows and any order in which answers are
\* late or lost: a key's value is that key's, and unless as many matrix answers
\* are late as the command asks for, as it was after the command asked.
THEOREM KeyValuesAreAlwaysTrue == Spec => []KeyValuesAreTrue
<1>1. OInv => KeyValuesAreTrue
      BY DEF OInv
<1> QED BY <1>1, OneShotInvariant, PTL

\* However many edges a session queues, the notes name each kind heard, and
\* the last note names the last edge heard.
THEOREM NotesAlwaysTellTheLast == Spec => []NotesTellTheLast
<1>1. ASSUME OInv PROVE NotesTellTheLast
  <2> SUFFICES ASSUME phase = "idle", outcome # "none"
               PROVE  LET sent  == EdgesIn(emitted)
                          heard == SubSeq(sent, 1, Len(sent) - Len(OnWire))
                      IN  Range(notes) = Range(heard) /\ (heard # <<>> => Last(notes) = Last(heard))
      BY DEF NotesTellTheLast
  <2>1. PICK told \in Seq(Measured) : told \o OnWire = EdgesIn(emitted) /\ Told(notes, told)
        BY <1>1 DEF OInv, Heard
  <2>2. PICK rest \in Seq(Measured) : rest = OnWire
        BY <1>1, OnWireIs DEF OInv, TypeOK
  <2>3. PICK sent \in Seq(Measured) : sent = told \o rest
        BY ConcatProperties
  <2>4. SubSeq(sent, 1, Len(sent) - Len(rest)) = told
    <3>1. /\ Len(sent) = Len(told) + Len(rest) /\ Len(told) \in Nat /\ Len(rest) \in Nat
          BY <2>3, LenProperties, ConcatProperties
    <3>2. Len(sent) - Len(rest) = Len(told)
          BY <3>1
    <3>3. SubSeq(told \o rest, 1, Len(told)) = told
          BY <3>1, SubSeqOfConcat1, SubSeqFull
    <3> QED BY <2>3, <3>2, <3>3
  <2> QED BY <2>1, <2>2, <2>3, <2>4 DEF Told
<1> QED BY <1>1, OneShotInvariant, PTL

-----------------------------------------------------------------------------
(* With nothing owed at the start, a session is a reliable reader.          *)

Question == IF Asking THEN [req |-> Head(todo), from |-> askedAt] ELSE None

Seen == [i \in DOMAIN got |-> [req |-> got[i].reply.req, version |-> got[i].reply.version]]

LEMMA ReaderSteps ==
  /\ UNCHANGED <<version, Question, Seen>> => UNCHANGED RR!vars
  /\ version' = version + 1 /\ UNCHANGED <<Question, Seen>> => RR!Next
  /\ (\E r \in Requests : Question = None /\ Question' = [req |-> r, from |-> version] /\ UNCHANGED <<version, Seen>>) => RR!Next
  /\ Question # None /\ Question' = None /\ UNCHANGED <<version, Seen>> => RR!Next
  /\ Question = None /\ Seen' = <<>> /\ UNCHANGED <<version, Question>> => RR!Next
<1>1. UNCHANGED <<version, Question, Seen>> => UNCHANGED RR!vars
      BY DEF RR!vars, Question, Seen
<1>2. version' = version + 1 /\ UNCHANGED <<Question, Seen>> => RR!Next
      BY DEF RR!Next, RR!Edit, Question, Seen
<1>3. ASSUME NEW r \in Requests, Question = None, Question' = [req |-> r, from |-> version], UNCHANGED <<version, Seen>>
      PROVE  RR!Next
      BY <1>3 DEF RR!Next, RR!Ask, Question, Seen
<1>4. Question # None /\ Question' = None /\ UNCHANGED <<version, Seen>> => RR!Next
      BY DEF RR!Next, RR!Fail, Question, Seen
<1>5. Question = None /\ Seen' = <<>> /\ UNCHANGED <<version, Question>> => RR!Next
      BY DEF RR!Next, RR!NewCommand, Question, Seen
<1> QED BY <1>1, <1>2, <1>3, <1>4, <1>5

LEMMA ReaderReturns ==
  ASSUME Question # None, Question' = None, version' = version,
         NEW v, v \in (IF Question.req \in Fixed THEN {0} ELSE Question.from..version),
         Seen' = Append(Seen, [req |-> Question.req, version |-> v])
  PROVE  RR!Next
<1>1. [req |-> Question.req, version |-> v] \in RR!Answers(Question.req, Question.from, version)
      BY DEF RR!Answers
<1> QED BY <1>1 DEF RR!Next, RR!Return, Question, Seen

LEMMA QuestionIs ==
  ASSUME TypeOK
  PROVE  Asking => Question # None /\ Question = [req |-> Head(todo), from |-> askedAt] /\ Head(todo) \in Requests
<1>1. Asking => Head(todo) \in Requests /\ askedAt \in Nat
      BY TodoParts DEF TypeOK
<1> QED BY <1>1, OneShotAssumption DEF Question

LEMMA TakeIsReturn == ASSUME OInv, TakeReply, clean' PROVE RR!Next
<1>1. PICK g \in Taken :
        /\ got' = Append(got, g) /\ g.asked = Head(todo) /\ g.reply = result.report /\ g.from = askedAt
        /\ got' \in Seq(Taken) /\ Len(got) \in Nat /\ Len(got') = Len(got) + 1 /\ got'[Len(got) + 1] = g
        /\ \A i \in 1..Len(got) : got'[i] = got[i]
        /\ \A i \in 1..Len(got') : i = Len(got) + 1 \/ i \in 1..Len(got)
      BY TakenIs
<1>2. /\ TypeOK /\ clean /\ version' = version /\ ~Asking' /\ Asking
      BY TakeChanges DEF Asking
<1>3. Fresh(g.reply, Head(todo), askedAt, version)
      BY <1>1, <1>2, TakenFresh
<1>4. Question # None /\ Question.req = Head(todo) /\ Question.from = askedAt /\ Question' = None
  <2>1. Question' = None
        BY <1>2 DEF Question
  <2> QED BY <1>2, <2>1, QuestionIs
<1>5. PICK v : v = g.reply.version
      OBVIOUS
<1>6. v \in (IF Question.req \in Fixed THEN {0} ELSE Question.from..version)
  <2>1. v \in Int /\ askedAt \in Int /\ version \in Int
        BY <1>2, <1>5, SessionAssumption DEF Taken, Replies, TypeOK, SessionTypes
  <2> QED BY <1>3, <1>4, <1>5, <2>1 DEF Fresh
<1>7. Seen' = Append(Seen, [req |-> Question.req, version |-> v])
  <2>1. PICK n \in Nat : n = Len(got)
        BY <1>1
  <2>2. got \in Seq(Taken) /\ DOMAIN got = 1..n /\ DOMAIN got' = 1..(n + 1)
    <3>1. got \in Seq(Taken)
          BY <1>2 DEF TypeOK
    <3> QED BY <1>1, <2>1, <3>1, LenProperties
  <2> DEFINE A == [req : Requests, version : 0..MaxVersion]
             a == [req |-> Question.req, version |-> v]
  <2>3. \A i \in 1..n : [req |-> got[i].reply.req, version |-> got[i].reply.version] \in A
    <3>1. \A i \in 1..n : got[i] \in Taken
          BY <2>1, <2>2, ElementOfSeq
    <3> QED BY <3>1 DEF Taken, Replies
  <2>4. Seen \in Seq(A) /\ Len(Seen) = n /\ \A i \in 1..n : Seen[i] = [req |-> got[i].reply.req, version |-> got[i].reply.version]
        BY <2>2, <2>3 DEF Seen
  <2>5. a = [req |-> g.reply.req, version |-> g.reply.version] /\ a \in A
        BY <1>3, <1>4, <1>5 DEF Fresh, Taken, Replies
  <2> HIDE DEF A, a
  <2>6. /\ Append(Seen, a) \in Seq(A) /\ Len(Append(Seen, a)) = n + 1
        /\ \A i \in 1..(n + 1) : Append(Seen, a)[i] = IF i = n + 1 THEN a ELSE Seen[i]
        BY <2>4, <2>5, AppendProperties
  <2>7. /\ DOMAIN Seen' = 1..(n + 1)
        /\ \A i \in 1..(n + 1) : Seen'[i] = [req |-> got'[i].reply.req, version |-> got'[i].reply.version]
        BY <2>2 DEF Seen
  <2>8. ASSUME NEW i \in 1..(n + 1) PROVE Seen'[i] = Append(Seen, a)[i]
    <3>1. CASE i = n + 1
          BY <1>1, <2>1, <2>5, <2>6, <2>7, <3>1
    <3>2. CASE i # n + 1
      <4>1. i \in 1..n
            BY <3>2
      <4>2. got'[i] = got[i]
            BY <1>1, <2>1, <4>1
      <4> QED BY <2>4, <2>6, <2>7, <3>2, <4>1, <4>2
    <3> QED BY <3>1, <3>2
  <2>9. Seen' = [i \in 1..(n + 1) |-> Seen'[i]]
        BY <2>2 DEF Seen
  <2>10. Append(Seen, a) = [i \in 1..(n + 1) |-> Append(Seen, a)[i]]
         BY <2>6, LenProperties
  <2> QED BY <2>8, <2>9, <2>10 DEF a
<1> QED BY <1>2, <1>4, <1>6, <1>7, ReaderReturns

LEMMA StepIsRead == ASSUME OInv, [Next]_vars PROVE [clean' => RR!Next]_(RR!vars)
<1>0. TypeOK
      BY DEF OInv
<1>1. CASE Board
  <2>1. UNCHANGED <<call, result, todo, askedAt, got>> /\ BoardNext
        BY <1>1, BoardChanges
  <2>2. version' = version \/ version' = version + 1
        BY <2>1 DEF BoardNext, Answer, LoseRequest, EditByHand, SendEdge, SendNoise
  <2>3. UNCHANGED <<Question, Seen>>
        BY <2>1 DEF Question, Seen, Asking
  <2> QED BY <2>2, <2>3, ReaderSteps
<1>2. CASE Roundtrip
  <2>1. UNCHANGED <<version, Question, Seen>>
        BY <1>0, <1>2, RoundtripChanges DEF Question, Seen
  <2> QED BY <2>1, ReaderSteps
<1>3. CASE AskNext
  <2>1. /\ UNCHANGED <<version, todo, got>> /\ askedAt' = version /\ phase # "idle" /\ ~Asking /\ Asking'
        BY <1>0, <1>3, AskSteps
  <2>2. Head(todo) \in Requests
        BY <1>0, <2>1, TodoParts
  <2>3. Question = None /\ Question' = [req |-> Head(todo), from |-> version] /\ UNCHANGED <<version, Seen>>
        BY <2>1 DEF Question, Seen
  <2> QED BY <2>2, <2>3, ReaderSteps
<1>4. CASE TakeReply
      BY <1>4, TakeIsReturn
<1>5. CASE ReadFails
  <2>1. result # None /\ result' = None /\ UNCHANGED <<version, call, got>>
        BY <1>5 DEF ReadFails, boardVars
  <2>2. Asking /\ ~Asking'
        BY <1>0, <2>1 DEF Asking, TypeOK, SessionTypes
  <2>3. Question # None
        BY <1>0, <2>2, QuestionIs
  <2>4. Question' = None /\ UNCHANGED <<version, Seen>>
        BY <2>1, <2>2 DEF Question, Seen
  <2> QED BY <2>3, <2>4, ReaderSteps
<1>6. ASSUME NEW p \in Prologues, Begin(p) PROVE RR!Next
  <2>1. phase = "idle" /\ got' = <<>> /\ UNCHANGED <<version, call, result>>
        BY <1>6 DEF Begin, hostVars
  <2>2. ~Asking /\ ~Asking'
        BY <1>0, <2>1 DEF TypeOK, Asking
  <2>3. Question = None /\ Question' = None
        BY <2>2 DEF Question
  <2>4. Seen' = <<>>
        BY <2>1 DEF Seen
  <2> QED BY <2>1, <2>3, <2>4, ReaderSteps
<1>7. CASE UNCHANGED vars
  <2>1. UNCHANGED <<version, call, result, todo, askedAt, got>>
        BY <1>7 DEF vars, sessionVars, boardVars, hostVars, cmdVars
  <2>2. UNCHANGED <<version, Question, Seen>>
        BY <2>1 DEF Question, Seen, Asking
  <2> QED BY <2>2, ReaderSteps
<1> QED BY <1>1, <1>2, <1>3, <1>4, <1>5, <1>6, <1>7 DEF Next

LEMMA InitIsRead == Init => RR!Init
<1> SUFFICES ASSUME Init PROVE RR!Init
    OBVIOUS
<1>1. version = 0 /\ call = None /\ result = None /\ got = <<>>
      BY DEF Init, BoardInit, HostInit
<1>2. Question = None /\ Seen = <<>>
      BY <1>1 DEF Question, Seen, Asking
<1> QED BY <1>1, <1>2 DEF RR!Init, Question, Seen

\* For any number of commands, keys, rows and prologues: as long as no command
\* began with something still owed, every roundtrip that returns an answer
\* returns one to the question asked, from after it was asked, and a command
\* that succeeds has read every key on every row.
THEOREM ReadsAreAlwaysReliable == Spec => ReadsAreReliable
<1>1. OInv => (clean => WholeBoard)
      BY DEF OInv, KeysToCome, WholeBoard, AllKeys, Rows
<1>2. OInv /\ [Next]_vars => [clean' => RR!Next]_(RR!vars)
      BY StepIsRead
<1> QED BY <1>1, <1>2, InitIsRead, OneShotInvariant, PTL DEF Spec, ReadsAreReliable

=============================================================================
