------------------------------- MODULE DataLemmas -------------------------------
(***************************************************************************)
(* Induction over the natural numbers for sets, the smallest element of a   *)
(* set of them, and functions defined by recursion over 0..n.  The sets     *)
(* take the place of the predicates of NaturalsInduction.  And sequences     *)
(* without one of their elements, or with one more.                          *)
(***************************************************************************)
EXTENDS Lists, SequencesExt, FiniteSetsExt, TLAPS, WellFoundedInduction, SequenceTheorems

\* A set of numbers has a smallest one.
LEMMA NatMin == ASSUME NEW T \in SUBSET Nat, T # {} PROVE \E m \in T : \A k \in T : m <= k
<1> DEFINE R == OpToRel(<, Nat)
<1>1. IsWellFoundedOn(R, Nat)
  BY NatLessThanWellFounded
<1>2. \E x \in T : \A y \in T : ~ (<<y, x>> \in R)
  <2> HIDE DEF R
  <2> QED BY <1>1, WFMin
<1>3. \A x, y \in Nat : y < x => <<y, x>> \in R
  BY DEF OpToRel
<1>4. PICK m \in T : \A y \in T : ~ (<<y, m>> \in R)
  BY <1>2
<1>5. ASSUME NEW k \in T PROVE m <= k
  <2>1. ~(k < m)
    BY <1>3, <1>4
  <2> QED
    BY <2>1
<1> QED
  BY <1>5

\* Induction over the numbers, for a set instead of a predicate.
LEMMA NatInd == ASSUME NEW T, 0 \in T, \A n \in Nat : n \in T => n + 1 \in T PROVE Nat \subseteq T
<1> DEFINE U == Nat \ T
<1> SUFFICES ASSUME U # {} PROVE FALSE
  OBVIOUS
<1>1. PICK m \in U : \A k \in U : m <= k
  BY NatMin
<1>2. m - 1 \in Nat /\ m - 1 \notin U
  BY <1>1
<1> QED
  BY <1>1, <1>2

\* The smallest and the largest element are what their names say.
LEMMA MinOf ==
  ASSUME NEW T \in SUBSET Nat, T # {}
  PROVE  Min(T) \in T /\ \A k \in T : Min(T) <= k
BY NatMin DEF Min

\* The smaller and the larger of two numbers.
LEMMA MinMaxOfTwo ==
  ASSUME NEW m \in Int, NEW n \in Int
  PROVE  /\ Min({m, n}) = IF m <= n THEN m ELSE n
         /\ Max({m, n}) = IF m >= n THEN m ELSE n
<1>1. ASSUME NEW x \in {m, n}, \A y \in {m, n} : x <= y PROVE x = IF m <= n THEN m ELSE n
  BY <1>1
<1>2. ASSUME NEW x \in {m, n}, \A y \in {m, n} : x >= y PROVE x = IF m >= n THEN m ELSE n
  BY <1>2
<1>3. \E x \in {m, n} : \A y \in {m, n} : x <= y
  OBVIOUS
<1>4. \E x \in {m, n} : \A y \in {m, n} : x >= y
  OBVIOUS
<1> QED
  BY <1>1, <1>2, <1>3, <1>4 DEF Min, Max

\* The functions on 0..n that have the value v at 0 and are made by a step from each value to
\* the next one.
Recursive(n, V, v, step) ==
  {g \in [0..n -> V] : g[0] = v /\ \A i \in 1..n : g[i] = step[i][g[i - 1]]}

\* Whoever defines a function so gets it.
LEMMA Recursion ==
  ASSUME NEW n \in Nat, NEW V, NEW v \in V, NEW step \in [1..n -> [V -> V]]
  PROVE  Recursive(n, V, v, step) # {}
<1> DEFINE Good(k) == \E g \in [0..k -> V] :
             g[0] = v /\ \A i \in 1..k : g[i] = step[i][g[i - 1]]
           T == {k \in Nat : k <= n => Good(k)}
<1>1. 0 \in T
  <2> DEFINE h == [i \in 0..0 |-> v]
  <2>1. h \in [0..0 -> V] /\ h[0] = v /\ 1..0 = {}
    OBVIOUS
  <2> HIDE DEF h
  <2>2. \A i \in 1..0 : h[i] = step[i][h[i - 1]]
    BY <2>1
  <2>3. Good(0)
    BY <2>1, <2>2
  <2> QED
    BY <2>3
<1>2. ASSUME NEW k \in Nat, k \in T PROVE k + 1 \in T
  <2> SUFFICES ASSUME k + 1 <= n PROVE Good(k + 1)
    OBVIOUS
  <2>1. PICK g \in [0..k -> V] : g[0] = v /\ \A i \in 1..k : g[i] = step[i][g[i - 1]]
    BY <1>2
  <2> DEFINE h == [i \in 0..(k + 1) |-> IF i <= k THEN g[i] ELSE step[k + 1][g[k]]]
  <2>2. step[k + 1][g[k]] \in V
    <3>1. k + 1 \in 1..n /\ g[k] \in V
      BY <2>1
    <3> QED
      BY <3>1
  <2>3. h \in [0..(k + 1) -> V]
    BY <2>1, <2>2
  <2>4. h[0] = v
    BY <2>1
  <2>5. ASSUME NEW i \in 1..(k + 1) PROVE h[i] = step[i][h[i - 1]]
    <3>1. CASE i <= k
      BY <2>1, <3>1
    <3>2. CASE i = k + 1
      BY <2>1, <3>2
    <3> QED
      BY <3>1, <3>2
  <2> HIDE DEF h
  <2> QED
    BY <2>3, <2>4, <2>5
<1>3. n \in T
  <2> HIDE DEF T
  <2> QED
    BY <1>1, <1>2, NatInd
<1>4. Good(n)
  BY <1>3
<1> QED
  BY <1>4 DEF Recursive

-----------------------------------------------------------------------------
(* Sequences. *)

\* Induction over the sequences that are made by appending.
LEMMA SeqInd ==
  ASSUME NEW T, NEW U \in SUBSET Seq(T), << >> \in U,
         \A s \in U, x \in T : Append(s, x) \in U
  PROVE  Seq(T) \subseteq U
<1> DEFINE W == {n \in Nat : \A s \in Seq(T) : Len(s) = n => s \in U}
<1>1. 0 \in W
  <2>1. ASSUME NEW s \in Seq(T), Len(s) = 0 PROVE s = << >>
    BY <2>1, EmptySeq
  <2> QED
    BY <2>1
<1>2. ASSUME NEW n \in Nat, n \in W PROVE n + 1 \in W
  <2> SUFFICES ASSUME NEW s \in Seq(T), Len(s) = n + 1 PROVE s \in U
    OBVIOUS
  <2>1. s # << >>
    BY EmptySeq
  <2>2. PICK b \in Seq(T), x \in T : s = Append(b, x)
    BY <2>1, SequenceEmptyOrAppend
  <2>3. Len(b) \in Nat /\ Len(s) = Len(b) + 1
    BY <2>2, LenProperties, AppendProperties
  <2>4. b \in U
    <3>1. Len(b) = n
      BY <2>3
    <3> QED
      BY <1>2, <3>1
  <2> QED
    BY <2>2, <2>4
<1>3. Nat \subseteq W
  <2> HIDE DEF W
  <2> QED
    BY <1>1, <1>2, NatInd
<1>4. ASSUME NEW s \in Seq(T) PROVE s \in U
  <2>1. Len(s) \in Nat
    BY LenProperties
  <2> QED
    BY <1>3, <2>1
<1> QED
  BY <1>4

\* The elements of sequences.
LEMMA SeqRange ==
  ASSUME NEW T, NEW s \in Seq(T)
  PROVE  /\ \A i \in 1..Len(s) : s[i] \in Range(s)
         /\ Range(s) \subseteq T
         /\ \A y \in Range(s) : \E i \in 1..Len(s) : s[i] = y
BY RangeOfSeq, RangeEquality

LEMMA RangeOfAppend ==
  ASSUME NEW T, NEW s \in Seq(T), NEW x \in T
  PROVE  Range(Append(s, x)) = Range(s) \union {x}
<1>1. <<x>> \in Seq(T) /\ Range(<<x>>) = {x}
  BY DEF Range
<1>2. Append(s, x) = s \o <<x>>
  BY AppendIsConcat
<1>3. Range(s \o <<x>>) = Range(s) \cup Range(<<x>>)
  BY <1>1, RangeConcatenation, ZenonT(30)
<1> QED
  BY <1>1, <1>2, <1>3

LEMMA EmptyRange == ASSUME NEW T, NEW s \in Seq(T), Range(s) = {} PROVE s = << >>
<1>1. s # << >> => 1 \in 1..Len(s)
  <2>1. s # << >> => Len(s) \in Nat \ {0}
    BY EmptySeq
  <2> QED
    BY <2>1
<1>2. \A i \in 1..Len(s) : s[i] \in Range(s)
  BY SeqRange
<1> QED
  BY <1>1, <1>2

LEMMA AppendConcat ==
  ASSUME NEW T, NEW a \in Seq(T), NEW b \in Seq(T), NEW x \in T
  PROVE  a \o Append(b, x) = Append(a \o b, x)
<1>1. <<x>> \in Seq(T) /\ a \o b \in Seq(T)
  BY ConcatProperties
<1>2. Append(b, x) = b \o <<x>> /\ Append(a \o b, x) = (a \o b) \o <<x>>
  BY <1>1, AppendIsConcat
<1>3. (a \o b) \o <<x>> = a \o (b \o <<x>>)
  BY <1>1, ConcatAssociative
<1> QED
  BY <1>2, <1>3

\* What is left of a sequence without one of its elements are the others, in their order.
LEMMA Removed ==
  ASSUME NEW S, NEW s \in Seq(S), NEW i \in DOMAIN s
  PROVE  /\ RemoveAt(s, i) \in Seq(S) /\ Len(RemoveAt(s, i)) \in Nat /\ Len(RemoveAt(s, i)) + 1 = Len(s)
         /\ DOMAIN RemoveAt(s, i) = 1..Len(RemoveAt(s, i))
         /\ \A j \in 1..Len(RemoveAt(s, i)) : RemoveAt(s, i)[j] = s[IF j < i THEN j ELSE j + 1]
<1> DEFINE l == Len(s)
           a == SubSeq(s, 1, i - 1)
           b == SubSeq(s, i + 1, l)
           r == RemoveAt(s, i)
<1>1. l \in Nat /\ DOMAIN s = 1..l /\ i \in 1..l /\ \A j \in 1..l : s[j] \in S
  BY LenProperties, ElementOfSeq
<1>2. r = a \o b /\ l = Len(s)
  BY DEF RemoveAt
<1> HIDE DEF l
<1>3. a \in Seq(S) /\ Len(a) = i - 1 /\ \A j \in 1..(i - 1) : a[j] = s[j]
  <2>1. 1 \in Int /\ i - 1 \in Int /\ (i - 1) - 1 + 1 = i - 1 /\ \A j \in 1..(i - 1) : s[j] \in S /\ 1 + j - 1 = j
    BY <1>1
  <2>2. /\ a \in Seq(S) /\ Len(a) = IF 1 <= i - 1 THEN (i - 1) - 1 + 1 ELSE 0
        /\ \A j \in 1..((i - 1) - 1 + 1) : a[j] = s[1 + j - 1]
    BY <2>1, SubSeqProperties
  <2> HIDE DEF a
  <2> QED
    BY <1>1, <2>1, <2>2
<1>4. b \in Seq(S) /\ Len(b) = l - i /\ \A j \in 1..(l - i) : b[j] = s[i + j]
  <2>1. /\ i + 1 \in Int /\ l \in Int /\ l - (i + 1) + 1 = l - i
        /\ \A j \in (i + 1)..l : s[j] \in S
        /\ \A j \in 1..(l - i) : (i + 1) + j - 1 = i + j
    BY <1>1
  <2>2. /\ b \in Seq(S) /\ Len(b) = IF i + 1 <= l THEN l - (i + 1) + 1 ELSE 0
        /\ \A j \in 1..(l - (i + 1) + 1) : b[j] = s[(i + 1) + j - 1]
    BY <2>1, SubSeqProperties
  <2> HIDE DEF b
  <2> QED
    BY <1>1, <2>1, <2>2, SMTT(30)
<1> HIDE DEF a, b, r
<1>5. r \in Seq(S) /\ Len(r) = Len(a) + Len(b)
      /\ \A j \in 1..(Len(a) + Len(b)) : r[j] = IF j <= Len(a) THEN a[j] ELSE b[j - Len(a)]
  <2>1. Len(a) \in Nat /\ Len(b) \in Nat
    BY <1>3, <1>4, LenProperties
  <2>2. a \in Seq(S) /\ b \in Seq(S)
    BY <1>3, <1>4
  <2>3. /\ a \o b \in Seq(S) /\ Len(a \o b) = Len(a) + Len(b)
        /\ \A j \in 1..(Len(a) + Len(b)) : (a \o b)[j] = IF j <= Len(a) THEN a[j] ELSE b[j - Len(a)]
    BY <2>2, ConcatProperties
  <2> QED
    BY <1>2, <2>3
<1>6. Len(r) = l - 1 /\ Len(r) \in Nat
  BY <1>1, <1>3, <1>4, <1>5
<1>7. \A j \in 1..(l - 1) : r[j] = IF j <= i - 1 THEN a[j] ELSE b[j - (i - 1)]
  <2>1. Len(a) + Len(b) = l - 1
    BY <1>5, <1>6
  <2> QED
    BY <1>3, <1>5, <2>1
<1>8. ASSUME NEW j \in 1..(l - 1) PROVE r[j] = s[IF j < i THEN j ELSE j + 1]
  <2>1. CASE j < i
    <3>1. j \in 1..(i - 1) /\ j <= i - 1
      BY <1>1, <2>1
    <3> QED
      BY <1>3, <1>7, <2>1, <3>1
  <2>2. CASE ~(j < i)
    <3>1. j - (i - 1) \in 1..(l - i) /\ i + (j - (i - 1)) = j + 1 /\ ~(j <= i - 1)
      BY <1>1, <2>2
    <3>2. r[j] = b[j - (i - 1)]
      BY <1>7, <3>1
    <3>3. b[j - (i - 1)] = s[i + (j - (i - 1))]
      BY <1>4, <3>1
    <3> QED
      BY <2>2, <3>1, <3>2, <3>3
  <2> QED
    BY <2>1, <2>2
<1>9. DOMAIN r = 1..Len(r) /\ 1..Len(r) = 1..(l - 1) /\ Len(r) + 1 = Len(s)
  <2>1. DOMAIN r = 1..Len(r)
    BY <1>5, LenProperties
  <2>2. 1..Len(r) = 1..(l - 1) /\ Len(r) + 1 = l
    BY <1>1, <1>6
  <2> QED
    BY <1>2, <2>1, <2>2
<1> QED
  BY <1>5, <1>6, <1>8, <1>9 DEF r

\* With one more element the others stay in their order.
LEMMA Inserted ==
  ASSUME NEW S, NEW s \in Seq(S), NEW i \in 1..(Len(s) + 1), NEW e \in S
  PROVE  /\ InsertAt(s, i, e) \in Seq(S) /\ Len(InsertAt(s, i, e)) = Len(s) + 1
         /\ DOMAIN InsertAt(s, i, e) = 1..(Len(s) + 1)
         /\ \A j \in 1..(Len(s) + 1) :
              InsertAt(s, i, e)[j] = IF j < i THEN s[j] ELSE IF j = i THEN e ELSE s[j - 1]
<1> DEFINE l == Len(s)
           a == SubSeq(s, 1, i - 1)
           b == SubSeq(s, i, l)
           c == a \o <<e>>
           r == InsertAt(s, i, e)
<1>1. l \in Nat /\ DOMAIN s = 1..l /\ i \in 1..(l + 1) /\ \A j \in 1..l : s[j] \in S
  BY LenProperties, ElementOfSeq
<1>2. r = c \o b /\ l = Len(s)
  BY DEF InsertAt
<1> HIDE DEF l
<1>3. a \in Seq(S) /\ Len(a) = i - 1 /\ Len(a) \in Nat /\ \A j \in 1..(i - 1) : a[j] = s[j]
  <2>1. 1 \in Int /\ i - 1 \in Nat /\ (i - 1) - 1 + 1 = i - 1 /\ \A j \in 1..(i - 1) : s[j] \in S /\ 1 + j - 1 = j
    BY <1>1
  <2>2. /\ a \in Seq(S) /\ Len(a) = IF 1 <= i - 1 THEN (i - 1) - 1 + 1 ELSE 0
        /\ \A j \in 1..((i - 1) - 1 + 1) : a[j] = s[1 + j - 1]
    BY <2>1, SubSeqProperties
  <2> HIDE DEF a
  <2> QED
    BY <1>1, <2>1, <2>2
<1>4. b \in Seq(S) /\ Len(b) = l - i + 1 /\ Len(b) \in Nat /\ \A j \in 1..(l - i + 1) : b[j] = s[i + j - 1]
  <2>1. /\ i \in Int /\ l \in Int /\ l - i + 1 \in Nat
        /\ \A j \in i..l : s[j] \in S
    BY <1>1
  <2>2. /\ b \in Seq(S) /\ Len(b) = IF i <= l THEN l - i + 1 ELSE 0
        /\ \A j \in 1..(l - i + 1) : b[j] = s[i + j - 1]
    BY <2>1, SubSeqProperties
  <2> HIDE DEF b
  <2> QED
    BY <1>1, <2>1, <2>2
<1> HIDE DEF a, b
<1>5. c \in Seq(S) /\ Len(c) = i /\ c[i] = e /\ \A j \in 1..(i - 1) : c[j] = s[j]
  <2>1. <<e>> \in Seq(S) /\ Len(<<e>>) = 1 /\ <<e>>[1] = e
    OBVIOUS
  <2>2. /\ c \in Seq(S) /\ Len(c) = Len(a) + Len(<<e>>)
        /\ \A j \in 1..(Len(a) + Len(<<e>>)) : c[j] = IF j <= Len(a) THEN a[j] ELSE <<e>>[j - Len(a)]
    BY <1>3, <2>1, ConcatProperties
  <2> HIDE DEF c
  <2>3. Len(a) + Len(<<e>>) = i /\ i \in 1..i /\ ~(i <= i - 1) /\ i - (i - 1) = 1
        /\ \A j \in 1..(i - 1) : j \in 1..i /\ j <= i - 1
    BY <1>1, <1>3, <2>1
  <2>4. \A j \in 1..i : c[j] = IF j <= i - 1 THEN a[j] ELSE <<e>>[j - (i - 1)]
    BY <1>3, <2>2, <2>3
  <2> QED
    BY <1>3, <2>1, <2>2, <2>3, <2>4
<1> HIDE DEF c, r
<1>6. r \in Seq(S) /\ Len(r) = l + 1
      /\ \A j \in 1..(l + 1) : r[j] = IF j <= i THEN c[j] ELSE b[j - i]
  <2>1. c \in Seq(S) /\ b \in Seq(S)
    BY <1>4, <1>5
  <2>2. /\ c \o b \in Seq(S) /\ Len(c \o b) = Len(c) + Len(b)
        /\ \A j \in 1..(Len(c) + Len(b)) : (c \o b)[j] = IF j <= Len(c) THEN c[j] ELSE b[j - Len(c)]
    BY <2>1, ConcatProperties
  <2>3. Len(c) + Len(b) = l + 1 /\ Len(c) = i
    BY <1>1, <1>4, <1>5
  <2> QED
    BY <1>2, <2>2, <2>3
<1>7. ASSUME NEW j \in 1..(l + 1) PROVE r[j] = IF j < i THEN s[j] ELSE IF j = i THEN e ELSE s[j - 1]
  <2>1. CASE j < i
    <3>1. j \in 1..(i - 1) /\ j <= i
      BY <1>1, <2>1
    <3> QED
      BY <1>5, <1>6, <2>1, <3>1
  <2>2. CASE j = i
    <3>1. j <= i /\ ~(j < i)
      BY <1>1, <2>2
    <3> QED
      BY <1>5, <1>6, <2>2, <3>1
  <2>3. CASE j > i
    <3>1. j - i \in 1..(l - i + 1) /\ i + (j - i) - 1 = j - 1 /\ ~(j <= i) /\ ~(j < i) /\ j # i
      BY <1>1, <2>3
    <3>2. r[j] = b[j - i]
      BY <1>6, <3>1
    <3>3. b[j - i] = s[i + (j - i) - 1]
      BY <1>4, <3>1
    <3> QED
      BY <3>1, <3>2, <3>3
  <2> QED
    BY <1>1, <2>1, <2>2, <2>3
<1>8. DOMAIN r = 1..Len(r)
  BY <1>6, LenProperties
<1> QED
  BY <1>2, <1>6, <1>7, <1>8 DEF r

-----------------------------------------------------------------------------
(* What is kept of a list.                                                      *)

\* The steps by which Kept goes through a list.
KeptSteps(T, l, S) ==
  {k \in [0..Len(l) -> Seq(T)] :
    /\ k[0] = << >> /\ k[Len(l)] = Kept(l, S)
    /\ \A i \in 1..Len(l) : k[i] = IF l[i] \in S THEN Append(k[i - 1], l[i]) ELSE k[i - 1]}

\* The recursive definition of Kept defines these steps.
LEMMA KeptIs == ASSUME NEW T, NEW l \in Seq(T), NEW S PROVE KeptSteps(T, l, S) # {}
<1> DEFINE n == Len(l)
           V == Seq(T)
           step == [i \in 1..n |-> [m \in V |-> IF l[i] \in S THEN Append(m, l[i]) ELSE m]]
           IsKept(g) == g = [i \in 0..n |-> IF i = 0 THEN << >>
                                ELSE IF l[i] \in S THEN Append(g[i - 1], l[i]) ELSE g[i - 1]]
<1>1. n \in Nat /\ << >> \in V
  BY LenProperties, EmptySeq
<1>2. step \in [1..n -> [V -> V]]
  <2>1. ASSUME NEW i \in 1..n, NEW m \in V PROVE (IF l[i] \in S THEN Append(m, l[i]) ELSE m) \in V
    <3>1. l[i] \in T
      BY ElementOfSeq
    <3> QED
      BY <3>1, AppendProperties
  <2> HIDE DEF n, V
  <2> QED
    BY <2>1
<1>3. Recursive(n, V, << >>, step) # {}
  <2> HIDE DEF n, step, V
  <2> QED
    BY <1>1, <1>2, Recursion
<1> DEFINE g == CHOOSE g \in Recursive(n, V, << >>, step) : TRUE
<1>4. g \in [0..n -> V] /\ g[0] = << >> /\ \A i \in 1..n : g[i] = step[i][g[i - 1]]
  <2>1. g \in Recursive(n, V, << >>, step)
    BY <1>3
  <2> HIDE DEF g, n, step, V
  <2> QED
    BY <2>1 DEF Recursive
<1> HIDE DEF g
<1>5. IsKept(g)
  <2>1. ASSUME NEW i \in 1..n
        PROVE  step[i][g[i - 1]] = IF l[i] \in S THEN Append(g[i - 1], l[i]) ELSE g[i - 1]
    <3>1. g[i - 1] \in V
      <4>1. i - 1 \in 0..n
        BY <1>1
      <4> HIDE DEF n, step, V
      <4> QED
        BY <1>4, <4>1
    <3> HIDE DEF n, V
    <3> QED
      BY <3>1
  <2>2. g = [i \in 0..n |-> g[i]]
    <3> HIDE DEF n, step, V
    <3> QED
      BY <1>4
  <2>3. ASSUME NEW i \in 0..n
        PROVE  g[i] = IF i = 0 THEN << >> ELSE IF l[i] \in S THEN Append(g[i - 1], l[i]) ELSE g[i - 1]
    <3>2. i # 0 => i \in 1..n
      BY <1>1
    <3> HIDE DEF n, step, V
    <3> QED
      BY <1>4, <2>1, <3>2
  <2> HIDE DEF n, step, V
  <2> QED
    BY <2>2, <2>3
<1> DEFINE k == CHOOSE h : IsKept(h)
<1>6. IsKept(k) /\ Kept(l, S) = k[n]
  <2>1. Kept(l, S) = k[n]
    BY DEF Kept
  <2> HIDE DEF IsKept, n
  <2> QED
    BY <1>5, <2>1
<1> HIDE DEF k
<1>7. /\ k = [i \in 0..n |-> k[i]] /\ k[0] = << >>
      /\ \A i \in 1..n : k[i] = IF l[i] \in S THEN Append(k[i - 1], l[i]) ELSE k[i - 1]
  <2>1. 0 \in 0..n /\ \A i \in 1..n : i \in 0..n /\ i # 0
    BY <1>1
  <2> HIDE DEF n
  <2> QED
    BY <1>6, <2>1
<1> DEFINE U == {i \in Nat : i <= n => k[i] \in V}
<1>8. 0 \in U
  BY <1>1, <1>7
<1>9. ASSUME NEW i \in Nat, i \in U PROVE i + 1 \in U
  <2> SUFFICES ASSUME i + 1 <= n PROVE k[i + 1] \in V
    OBVIOUS
  <2>1. i + 1 \in 1..n /\ (i + 1) - 1 = i /\ l[i + 1] \in T /\ i <= n
    BY <1>1, ElementOfSeq
  <2>2. k[i + 1] = IF l[i + 1] \in S THEN Append(k[i], l[i + 1]) ELSE k[i]
    BY <1>7, <2>1
  <2>3. k[i] \in V
    BY <1>9, <2>1
  <2> QED
    BY <2>1, <2>2, <2>3, AppendProperties
<1>10. Nat \subseteq U
  <2> HIDE DEF U
  <2> QED
    BY <1>8, <1>9, NatInd
<1>11. k \in [0..n -> V]
  <2>1. ASSUME NEW i \in 0..n PROVE k[i] \in V
    <3>1. i \in U /\ i <= n
      BY <1>1, <1>10
    <3> QED
      BY <3>1
  <2> HIDE DEF n, V
  <2> QED
    BY <1>7, <2>1
<1>12. k \in KeptSteps(T, l, S)
  BY <1>6, <1>7, <1>11 DEF KeptSteps
<1> QED
  BY <1>12

\* Of no element, none is kept.
LEMMA KeptEmpty == ASSUME NEW S PROVE Kept(<< >>, S) = << >>
<1>1. << >> \in Seq({}) /\ Len(<< >>) = 0
  BY EmptySeq
<1>2. PICK k : k \in KeptSteps({}, << >>, S)
  BY <1>1, KeptIs
<1> QED
  BY <1>1, <1>2 DEF KeptSteps

\* One more element is kept or not.
LEMMA KeptAppend ==
  ASSUME NEW T, NEW l \in Seq(T), NEW x \in T, NEW S
  PROVE  Kept(Append(l, x), S) = IF x \in S THEN Append(Kept(l, S), x) ELSE Kept(l, S)
<1> DEFINE n == Len(l)
           a == Append(l, x)
<1>1. n \in Nat /\ a \in Seq(T) /\ Len(a) = n + 1 /\ a[n + 1] = x /\ \A i \in 1..n : a[i] = l[i]
  BY LenProperties, AppendProperties
<1>2. PICK k : k \in KeptSteps(T, l, S)
  BY KeptIs
<1>3. PICK m : m \in KeptSteps(T, a, S)
  <2> HIDE DEF a
  <2> QED
    BY <1>1, KeptIs
<1> HIDE DEF a
<1>4. /\ k[0] = << >> /\ k[n] = Kept(l, S)
      /\ \A i \in 1..n : k[i] = IF l[i] \in S THEN Append(k[i - 1], l[i]) ELSE k[i - 1]
  BY <1>2 DEF KeptSteps
<1>5. /\ m[0] = << >> /\ m[n + 1] = Kept(a, S)
      /\ \A i \in 1..(n + 1) : m[i] = IF a[i] \in S THEN Append(m[i - 1], a[i]) ELSE m[i - 1]
  BY <1>1, <1>3 DEF KeptSteps
<1> HIDE DEF n
<1> DEFINE U == {i \in Nat : i <= n => m[i] = k[i]}
<1>6. 0 \in U
  BY <1>4, <1>5
<1>7. ASSUME NEW i \in Nat, i \in U PROVE i + 1 \in U
  <2> SUFFICES ASSUME i + 1 <= n PROVE m[i + 1] = k[i + 1]
    OBVIOUS
  <2>1. i + 1 \in 1..n /\ i + 1 \in 1..(n + 1) /\ (i + 1) - 1 = i /\ i <= n
    BY <1>1
  <2>2. m[i] = k[i] /\ a[i + 1] = l[i + 1]
    BY <1>1, <1>7, <2>1
  <2>3. m[i + 1] = IF a[i + 1] \in S THEN Append(m[i], a[i + 1]) ELSE m[i]
    BY <1>5, <2>1
  <2>4. k[i + 1] = IF l[i + 1] \in S THEN Append(k[i], l[i + 1]) ELSE k[i]
    BY <1>4, <2>1
  <2> QED
    BY <2>2, <2>3, <2>4
<1>8. Nat \subseteq U
  <2> HIDE DEF U
  <2> QED
    BY <1>6, <1>7, NatInd
<1>9. m[n] = k[n]
  BY <1>1, <1>8
<1>10. n + 1 \in 1..(n + 1) /\ (n + 1) - 1 = n
  BY <1>1
<1>11. Kept(a, S) = IF x \in S THEN Append(Kept(l, S), x) ELSE Kept(l, S)
  BY <1>1, <1>4, <1>5, <1>9, <1>10
<1> QED
  BY <1>11 DEF a

\* What is kept are the elements of the list that are in the set.
LEMMA KeptType ==
  ASSUME NEW T, NEW S
  PROVE  \A l \in Seq(T) : Kept(l, S) \in Seq(T) /\ Range(Kept(l, S)) = Range(l) \intersect S
<1> DEFINE U == {l \in Seq(T) : Kept(l, S) \in Seq(T) /\ Range(Kept(l, S)) = Range(l) \intersect S}
<1>1. << >> \in U
  <2>1. Range(<< >>) = {}
    BY DEF Range
  <2> QED
    BY <2>1, KeptEmpty, EmptySeq
<1>2. ASSUME NEW l \in U, NEW x \in T PROVE Append(l, x) \in U
  <2> DEFINE a == Append(l, x)
             k == Kept(l, S)
  <2>1. a \in Seq(T) /\ Range(a) = Range(l) \union {x}
    BY RangeOfAppend, AppendProperties
  <2>2. Append(k, x) \in Seq(T) /\ Range(Append(k, x)) = Range(k) \union {x}
    BY RangeOfAppend, AppendProperties
  <2>3. Kept(a, S) = IF x \in S THEN Append(k, x) ELSE k
    BY KeptAppend
  <2>4. k \in Seq(T) /\ Range(k) = Range(l) \intersect S
    OBVIOUS
  <2> HIDE DEF a, k
  <2>5. a \in U
    BY <2>1, <2>2, <2>3, <2>4
  <2> QED
    BY <2>5 DEF a
<1>3. Seq(T) \subseteq U
  <2>1. U \subseteq Seq(T)
    OBVIOUS
  <2> HIDE DEF U
  <2> QED
    BY <1>1, <1>2, <2>1, SeqInd
<1> QED
  BY <1>3

\* What is kept of two lists one after the other is what is kept of each.
LEMMA KeptConcat ==
  ASSUME NEW T, NEW S, NEW l \in Seq(T)
  PROVE  \A b \in Seq(T) : Kept(l \o b, S) = Kept(l, S) \o Kept(b, S)
<1> DEFINE U == {b \in Seq(T) : Kept(l \o b, S) = Kept(l, S) \o Kept(b, S)}
<1>0. Kept(l, S) \in Seq(T)
  BY KeptType
<1>1. << >> \in U
  <2>1. << >> \in Seq(T) /\ l \o << >> = l /\ Kept(l, S) \o << >> = Kept(l, S)
    BY <1>0, EmptySeq, ConcatEmptySeq
  <2> QED
    BY <2>1, KeptEmpty
<1>2. ASSUME NEW b \in U, NEW x \in T PROVE Append(b, x) \in U
  <2>1. /\ Append(b, x) \in Seq(T) /\ l \o b \in Seq(T) /\ l \o Append(b, x) = Append(l \o b, x)
    BY AppendConcat, ConcatProperties, AppendProperties
  <2>2. Kept(b, S) \in Seq(T)
    BY KeptType
  <2>3. Kept(l, S) \o Append(Kept(b, S), x) = Append(Kept(l, S) \o Kept(b, S), x)
    BY <1>0, <2>2, AppendConcat
  <2>4. Kept(Append(b, x), S) = IF x \in S THEN Append(Kept(b, S), x) ELSE Kept(b, S)
    BY KeptAppend
  <2>5. Kept(Append(l \o b, x), S) = IF x \in S THEN Append(Kept(l \o b, S), x) ELSE Kept(l \o b, S)
    <3> DEFINE c == l \o b
    <3>1. c \in Seq(T)
      BY <2>1
    <3> HIDE DEF c
    <3>2. Kept(Append(c, x), S) = IF x \in S THEN Append(Kept(c, S), x) ELSE Kept(c, S)
      BY <3>1, KeptAppend
    <3> QED
      BY <3>2 DEF c
  <2>6. Kept(l \o b, S) = Kept(l, S) \o Kept(b, S)
    OBVIOUS
  <2>7. Kept(l \o Append(b, x), S) = Kept(l, S) \o Kept(Append(b, x), S)
    BY <2>1, <2>3, <2>4, <2>5, <2>6
  <2> QED
    BY <2>1, <2>7
<1>3. Seq(T) \subseteq U
  <2>1. U \subseteq Seq(T)
    OBVIOUS
  <2> HIDE DEF U
  <2> QED
    BY <1>1, <1>2, <2>1, SeqInd
<1> QED
  BY <1>3

\* Where nothing of the list is in the set, nothing is kept.
LEMMA KeptNone ==
  ASSUME NEW T, NEW S
  PROVE  \A b \in Seq(T) : Range(b) \intersect S = {} => Kept(b, S) = << >>
<1>1. ASSUME NEW b \in Seq(T), Range(b) \intersect S = {} PROVE Kept(b, S) = << >>
  <2>1. Kept(b, S) \in Seq(T) /\ Range(Kept(b, S)) = {}
    BY <1>1, KeptType
  <2> QED
    BY <2>1, EmptyRange
<1> QED
  BY <1>1

\* Where everything is, everything is kept.
LEMMA KeptAll ==
  ASSUME NEW T, NEW S
  PROVE  \A b \in Seq(T) : Range(b) \subseteq S => Kept(b, S) = b
<1> DEFINE U == {b \in Seq(T) : Range(b) \subseteq S => Kept(b, S) = b}
<1>1. << >> \in U
  BY KeptEmpty, EmptySeq
<1>2. ASSUME NEW b \in U, NEW x \in T PROVE Append(b, x) \in U
  <2>1. Append(b, x) \in Seq(T) /\ Range(Append(b, x)) = Range(b) \union {x}
    BY RangeOfAppend, AppendProperties
  <2>2. Kept(Append(b, x), S) = IF x \in S THEN Append(Kept(b, S), x) ELSE Kept(b, S)
    BY KeptAppend
  <2> QED
    BY <2>1, <2>2
<1>3. Seq(T) \subseteq U
  <2>1. U \subseteq Seq(T)
    OBVIOUS
  <2> HIDE DEF U
  <2> QED
    BY <1>1, <1>2, <2>1, SeqInd
<1> QED
  BY <1>3

\* A sequence is its first element and the rest.
LEMMA FirstAndRest ==
  ASSUME NEW T, NEW q \in Seq(T), q # << >>
  PROVE  Head(q) \in T /\ Tail(q) \in Seq(T) /\ <<Head(q)>> \in Seq(T) /\ q = <<Head(q)>> \o Tail(q)
<1>1. Head(q) \in T /\ Tail(q) \in Seq(T)
  BY HeadTailProperties
<1>2. Len(q) \in Nat \ {0}
  BY EmptySeq
<1>3. SubSeq(q, 1, Len(q)) = << q[1] >> \o SubSeq(q, 2, Len(q))
  BY <1>2, SubSeqRecursiveFirst
<1>4. SubSeq(q, 1, Len(q)) = q /\ SubSeq(q, 2, Len(q)) = Tail(q) /\ q[1] = Head(q)
  BY SubSeqFull, TailIsSubSeq
<1> QED
  BY <1>1, <1>3, <1>4

\* What is kept of the first element and of the rest.
LEMMA KeptFirst ==
  ASSUME NEW T, NEW S, NEW x \in T, NEW l \in Seq(T)
  PROVE  /\ x \in S => Kept(<<x>> \o l, S) = <<x>> \o Kept(l, S)
         /\ x \notin S => Kept(<<x>> \o l, S) = Kept(l, S)
<1>1. <<x>> \in Seq(T) /\ << >> \in Seq(T)
  OBVIOUS
<1>2. Kept(<<x>>, S) = IF x \in S THEN <<x>> ELSE << >>
  <2>1. ASSUME NEW e \in Seq(T), e = << >> PROVE Kept(<<x>>, S) = IF x \in S THEN <<x>> ELSE e
    <3>1. Append(e, x) = e \o <<x>> /\ << >> \o <<x>> = <<x>>
      BY <1>1, AppendIsConcat, ConcatEmptySeq
    <3>2. Append(e, x) = <<x>>
      BY <2>1, <3>1
    <3>3. Kept(Append(e, x), S) = IF x \in S THEN Append(Kept(e, S), x) ELSE Kept(e, S)
      BY KeptAppend
    <3>4. Kept(e, S) = e
      BY <2>1, KeptEmpty
    <3> QED
      BY <3>2, <3>3, <3>4
  <2> QED
    BY <1>1, <2>1
<1>3. Kept(<<x>> \o l, S) = Kept(<<x>>, S) \o Kept(l, S)
  BY <1>1, KeptConcat
<1>4. Kept(l, S) \in Seq(T)
  BY KeptType
<1> QED
  BY <1>2, <1>3, <1>4, ConcatEmptySeq

\* The first part of two sequences.
LEMMA FirstPart ==
  ASSUME NEW T, NEW a \in Seq(T), NEW b \in Seq(T)
  PROVE  Len(a) \in 0..Len(a \o b) /\ SubSeq(a \o b, 1, Len(a)) = a
<1>1. Len(a) \in Nat /\ Len(b) \in Nat /\ Len(a \o b) = Len(a) + Len(b)
  BY LenProperties, ConcatProperties
<1>2. CASE a = << >>
  BY <1>1, <1>2, SubSeqEmpty
<1>3. CASE a # << >>
  <2>1. Len(a) \in Nat \ {0}
    BY <1>3, EmptySeq
  <2>2. SubSeq(a \o b, 1, Len(a)) = SubSeq(a, 1, Len(a))
    BY <2>1, SubSeqOfConcat1
  <2> QED
    BY <1>1, <2>2, SubSeqFull
<1> QED
  BY <1>2, <1>3

\* The first element in front of others.
LEMMA HeadOfConcat ==
  ASSUME NEW T, NEW x \in T, NEW l \in Seq(T)
  PROVE  /\ <<x>> \o l \in Seq(T) /\ <<x>> \o l # << >>
         /\ Head(<<x>> \o l) = x /\ Tail(<<x>> \o l) = l
<1>1. <<x>> \in Seq(T) /\ Len(<<x>>) = 1 /\ Len(l) \in Nat
  BY LenProperties
<1>2. <<x>> \o l \in Seq(T) /\ Len(<<x>> \o l) = 1 + Len(l) /\ (<<x>> \o l)[1] = x
  BY <1>1, ConcatProperties
<1>3. <<x>> \o l # << >>
  BY <1>2, EmptySeq
<1>4. Head(<<x>> \o l) = x
  BY <1>2, <1>3
<1>5. Tail(<<x>> \o l) = SubSeq(<<x>> \o l, 2, 1 + Len(l))
  BY <1>2, <1>3, TailIsSubSeq
<1>6. SubSeq(<<x>> \o l, 2, 1 + Len(l)) = l
  <2>1. CASE l = << >>
    BY <1>1, <2>1, SubSeqEmpty
  <2>2. CASE l # << >>
    <3>1. Len(l) \in Nat \ {0}
      BY <2>2, EmptySeq
    <3>2. SubSeq(<<x>> \o l, 2, 1 + Len(l)) = SubSeq(l, 1, Len(l))
      BY <1>1, <3>1, SubSeqOfConcat2
    <3> QED
      BY <3>2, SubSeqFull
  <2> QED
    BY <2>1, <2>2
<1> QED
  BY <1>2, <1>3, <1>4, <1>5, <1>6

=============================================================================
