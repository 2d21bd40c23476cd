---------------------------- MODULE NoticesProofs ----------------------------
(***************************************************************************)
(* Proofs about the channel filter and about what clients are told without having *)
(* asked, changes of the EPG and the course of a scan (modules ChannelFilter,    *)
(* EpgUpdates, MCNotices), for any channels, lists, clients and scans.           *)
(*                                                                         *)
(* The loop of SortChannels is a recursive function over the places of the list. *)
(* Each turn of it moves one channel in front of others that do not pass, which   *)
(* leaves in their order the channels that pass and those that do not             *)
(* (SortStepArranges), and makes one more place right (SortStepSorts).  The        *)
(* filter's invariant FilterIInv adds to what is checked the types of what a walk  *)
(* has still before it, and that who asked for the groups of the list as it is    *)
(* was given those (GroupsRight), from which GroupsComplete follows, as a channel  *)
(* stands in one place of the list only.                                         *)
(***************************************************************************)
EXTENDS MCNotices, ScanControlProofs, DataLemmas, FiniteSetTheorems

-----------------------------------------------------------------------------
(* Moving a channel.                                                            *)

\* What Move makes of the places in the list.
LEMMA MovedIs ==
  ASSUME NEW T, NEW l \in Seq(T), NEW i \in 1..Len(l), NEW k \in 1..Len(l), i < k
  PROVE  /\ Moved(l, k, i) \in Seq(T) /\ Len(Moved(l, k, i)) = Len(l)
         /\ \A j \in 1..Len(l) : Moved(l, k, i)[j] =
              IF j < i \/ j > k THEN l[j] ELSE IF j = i THEN l[k] ELSE l[j - 1]
<1> DEFINE n == Len(l)
           m == RemoveAt(l, k)
           r == InsertAt(m, i, l[k])
<1>1. n \in Nat /\ k \in DOMAIN l /\ l[k] \in T
  BY LenProperties, ElementOfSeq
<1>2. /\ m \in Seq(T) /\ Len(m) \in Nat /\ Len(m) + 1 = n
      /\ \A j \in 1..Len(m) : m[j] = l[IF j < k THEN j ELSE j + 1]
  BY <1>1, Removed
<1>3. i \in 1..(Len(m) + 1)
  BY <1>2
<1> HIDE DEF m
<1>4. /\ r \in Seq(T) /\ Len(r) = Len(m) + 1
      /\ \A j \in 1..(Len(m) + 1) : r[j] = IF j < i THEN m[j] ELSE IF j = i THEN l[k] ELSE m[j - 1]
  BY <1>1, <1>2, <1>3, Inserted
<1>5. Moved(l, k, i) = r
  BY DEF Moved, m
<1> HIDE DEF r
<1>6. ASSUME NEW j \in 1..n
      PROVE  r[j] = IF j < i \/ j > k THEN l[j] ELSE IF j = i THEN l[k] ELSE l[j - 1]
  <2>1. r[j] = IF j < i THEN m[j] ELSE IF j = i THEN l[k] ELSE m[j - 1]
    BY <1>2, <1>4
  <2>2. CASE j < i
    <3>1. j \in 1..Len(m) /\ j < k
      BY <1>1, <1>2, <2>2
    <3> QED
      BY <1>2, <2>1, <2>2, <3>1
  <2>3. CASE j = i
    BY <1>1, <2>1, <2>3
  <2>4. CASE i < j
    <3>1. j - 1 \in 1..Len(m) /\ (j - 1) + 1 = j /\ (j - 1 < k <=> ~(j > k)) /\ ~(j < i) /\ j # i
      BY <1>1, <1>2, <2>4
    <3>2. m[j - 1] = l[IF j - 1 < k THEN j - 1 ELSE (j - 1) + 1]
      BY <1>2, <3>1
    <3> QED
      BY <2>1, <3>1, <3>2
  <2> QED
    BY <1>1, <2>2, <2>3, <2>4
<1> QED
  BY <1>2, <1>4, <1>5, <1>6

\* An element put between two lists.
LEMMA InsertedBetween ==
  ASSUME NEW T, NEW a \in Seq(T), NEW d \in Seq(T), d # << >>, NEW x \in T
  PROVE  InsertAt(a \o d, Len(a) + 1, x) = (a \o <<x>>) \o d
<1> DEFINE p == Len(a)
           q == Len(d)
           m == a \o d
<1>1. p \in Nat /\ q \in Nat \ {0} /\ m \in Seq(T) /\ Len(m) = p + q
  BY LenProperties, EmptySeq, ConcatProperties
<1>2. InsertAt(m, p + 1, x) = (SubSeq(m, 1, (p + 1) - 1) \o <<x>>) \o SubSeq(m, p + 1, Len(m))
  BY DEF InsertAt
<1>3. SubSeq(m, 1, (p + 1) - 1) = a
  <2>1. (p + 1) - 1 = p
    BY <1>1
  <2>2. CASE p = 0
    <3>1. a = << >>
      BY <2>2, EmptySeq
    <3>2. SubSeq(m, 1, 0) = << >>
      BY SubSeqEmpty
    <3> QED
      BY <2>1, <2>2, <3>1, <3>2
  <2>3. CASE p # 0
    <3>1. 1 \in 1..p /\ p \in 1..p
      BY <1>1, <2>3
    <3>2. SubSeq(m, 1, p) = SubSeq(a, 1, p)
      BY <3>1, SubSeqOfConcat1
    <3>3. SubSeq(a, 1, p) = a
      BY SubSeqFull
    <3> QED
      BY <2>1, <3>2, <3>3
  <2> QED
    BY <2>2, <2>3
<1>4. SubSeq(m, p + 1, Len(m)) = d
  <2>1. p + 1 \in (p + 1)..(p + q) /\ p + q \in (p + 1)..(p + q)
    BY <1>1
  <2>2. SubSeq(m, p + 1, p + q) = SubSeq(d, (p + 1) - p, (p + q) - p)
    BY <2>1, SubSeqOfConcat2
  <2>3. (p + 1) - p = 1 /\ (p + q) - p = q
    BY <1>1
  <2>4. SubSeq(d, 1, q) = d
    BY SubSeqFull
  <2> QED
    BY <1>1, <2>2, <2>3, <2>4
<1> QED
  BY <1>2, <1>3, <1>4

\* An element put after the first of three lists.
LEMMA InsertedAmong ==
  ASSUME NEW T, NEW a \in Seq(T), NEW b \in Seq(T), NEW c \in Seq(T), b # << >>, NEW x \in T
  PROVE  \A l, r : l = (a \o b) \o c /\ r = ((a \o <<x>>) \o b) \o c => InsertAt(l, Len(a) + 1, x) = r
<1>1. (a \o b) \o c = a \o (b \o c)
  BY ConcatAssociative
<1>2. b \o c \in Seq(T) /\ b \o c # << >>
  BY ConcatProperties, ConcatEqualIffEmpty
<1>3. <<x>> \in Seq(T) /\ a \o <<x>> \in Seq(T)
  BY ConcatProperties
<1> DEFINE d == b \o c
           e == a \o <<x>>
<1>4. InsertAt(a \o d, Len(a) + 1, x) = e \o d
  <2> HIDE DEF d
  <2> QED
    BY <1>2, InsertedBetween DEF d
<1>5. (e \o b) \o c = e \o (b \o c)
  <2> HIDE DEF e
  <2> QED
    BY <1>3, ConcatAssociative, SMTT(30) DEF e
<1> QED
  BY <1>1, <1>4, <1>5

\* Move exchanges a part of the list with the element behind it.
MovedParts(T, l, i, k, A, B, C) ==
  /\ A \in Seq(T) /\ B \in Seq(T) /\ C \in Seq(T)
  /\ l = ((A \o B) \o <<l[k]>>) \o C
  /\ Moved(l, k, i) = ((A \o <<l[k]>>) \o B) \o C
  /\ Range(B) = {l[j] : j \in i..(k - 1)}

\* Every move is of this kind.
LEMMA MovedHasParts ==
  ASSUME NEW T, NEW l \in Seq(T), NEW i, NEW k, i \in 1..Len(l), k \in 1..Len(l), i < k
  PROVE  \E A, B, C : MovedParts(T, l, i, k, A, B, C)
<1> DEFINE n == Len(l)
           A == SubSeq(l, 1, i - 1)
           B == SubSeq(l, i, k - 1)
           C == SubSeq(l, k + 1, n)
           x == l[k]
<1>1. /\ n \in Nat /\ i \in 1..n /\ k \in 1..n /\ \A j \in 1..n : l[j] \in T
      /\ x \in T /\ <<x>> \in Seq(T)
  BY LenProperties, ElementOfSeq
<1> HIDE DEF n
<1>2. A \in Seq(T) /\ Len(A) = i - 1
  <2>1. /\ 1 \in Int /\ i - 1 \in Int /\ (i - 1) - 1 + 1 = i - 1 /\ (1 <= i - 1 \/ i - 1 = 0)
        /\ \A j \in 1..(i - 1) : l[j] \in T
    BY <1>1
  <2>2. A \in Seq(T) /\ Len(A) = IF 1 <= i - 1 THEN (i - 1) - 1 + 1 ELSE 0
    BY <2>1, SubSeqProperties
  <2> HIDE DEF A
  <2> QED
    BY <2>1, <2>2
<1>3. B \in Seq(T) /\ Len(B) = k - i /\ \A j \in 1..(k - i) : B[j] = l[i + j - 1]
  <2>1. /\ i \in Int /\ k - 1 \in Int /\ (k - 1) - i + 1 = k - i /\ i <= k - 1
        /\ \A j \in i..(k - 1) : l[j] \in T
    BY <1>1
  <2>2. /\ B \in Seq(T) /\ Len(B) = IF i <= k - 1 THEN (k - 1) - i + 1 ELSE 0
        /\ \A j \in 1..((k - 1) - i + 1) : B[j] = l[i + j - 1]
    BY <2>1, SubSeqProperties
  <2> HIDE DEF B
  <2> QED
    BY <2>1, <2>2
<1>4. C \in Seq(T)
  <2>1. k + 1 \in Int /\ n \in Int /\ \A j \in (k + 1)..n : l[j] \in T
    BY <1>1
  <2> QED
    BY <2>1, SubSeqProperties
<1>5. SubSeq(l, 1, k - 1) = A \o B
  <2>1. /\ 1 \in 1..(Len(l) + 1) /\ i - 1 \in (1 - 1)..Len(l) /\ k - 1 \in (i - 1)..Len(l)
        /\ (i - 1) + 1 = i
    BY <1>1 DEF n
  <2>2. SubSeq(l, 1, i - 1) \o SubSeq(l, (i - 1) + 1, k - 1) = SubSeq(l, 1, k - 1)
    BY <2>1, ConcatAdjacentSubSeq
  <2> QED
    BY <2>1, <2>2
<1>6. l = ((A \o B) \o <<x>>) \o C
  <2>1. 1 \in 1..Len(l) /\ k \in 1..Len(l)
    BY <1>1 DEF n
  <2>2. SubSeq(l, 1, k) = SubSeq(l, 1, k - 1) \o <<x>>
    BY <2>1, SubSeqRecursiveSecond
  <2>3. /\ 1 \in 1..(Len(l) + 1) /\ k \in (1 - 1)..Len(l) /\ Len(l) \in k..Len(l)
    BY <1>1 DEF n
  <2>4. SubSeq(l, 1, k) \o SubSeq(l, k + 1, Len(l)) = SubSeq(l, 1, Len(l))
    BY <2>3, ConcatAdjacentSubSeq
  <2>5. SubSeq(l, 1, Len(l)) = l
    BY SubSeqFull
  <2> QED
    BY <1>5, <2>2, <2>4, <2>5 DEF n
<1>7. RemoveAt(l, k) = (A \o B) \o C
  BY <1>5 DEF RemoveAt, n
<1> HIDE DEF A, B, C, x
<1>8. Moved(l, k, i) = ((A \o <<x>>) \o B) \o C
  <2>1. B # << >>
    BY <1>1, <1>3, EmptySeq
  <2> DEFINE m == (A \o B) \o C
             r == ((A \o <<x>>) \o B) \o C
  <2>2. InsertAt(m, Len(A) + 1, x) = r
    <3>1. A \in Seq(T) /\ B \in Seq(T) /\ C \in Seq(T) /\ B # << >> /\ x \in T
      BY <1>1, <1>2, <1>3, <1>4, <2>1
    <3>2. m = (A \o B) \o C /\ r = ((A \o <<x>>) \o B) \o C
      OBVIOUS
    <3> HIDE DEF m, r
    <3> QED
      BY ONLY <3>1, <3>2, InsertedAmong
  <2>3. Len(A) + 1 = i
    BY <1>1, <1>2
  <2>4. Moved(l, k, i) = InsertAt(m, i, x)
    BY <1>7 DEF Moved, x
  <2> QED
    BY <2>2, <2>3, <2>4
<1>9. Range(B) = {l[j] : j \in i..(k - 1)}
  <2>1. \A y \in Range(B) : \E j \in 1..(k - i) : B[j] = y
    BY <1>3, SeqRange
  <2>2. \A j \in 1..(k - i) : B[j] \in Range(B)
    BY <1>3, SeqRange
  <2>3. \A j \in 1..(k - i) : i + j - 1 \in i..(k - 1)
    BY <1>1
  <2>4. \A j \in i..(k - 1) : j - i + 1 \in 1..(k - i) /\ i + (j - i + 1) - 1 = j
    BY <1>1
  <2>5. ASSUME NEW y \in Range(B) PROVE y \in {l[j] : j \in i..(k - 1)}
    BY <1>3, <2>1, <2>3
  <2>6. ASSUME NEW j \in i..(k - 1) PROVE l[j] \in Range(B)
    <3>1. B[j - i + 1] = l[i + (j - i + 1) - 1]
      BY <1>3, <2>4
    <3> QED
      BY <2>2, <2>4, <3>1
  <2> QED
    BY <2>5, <2>6
<1>10. MovedParts(T, l, i, k, A, B, C)
  BY <1>2, <1>3, <1>4, <1>6, <1>8, <1>9 DEF MovedParts, x
<1> QED
  BY <1>10

\* What is kept of a list does not depend on the order with what is not kept.
LEMMA MovedKept ==
  ASSUME NEW T, NEW l \in Seq(T), NEW i \in 1..Len(l), NEW k \in 1..Len(l), i < k, NEW S,
         l[k] \notin S \/ \A j \in i..(k - 1) : l[j] \notin S
  PROVE  Kept(Moved(l, k, i), S) = Kept(l, S)
<1> DEFINE x == <<l[k]>>
<1>1. PICK A, B, C : MovedParts(T, l, i, k, A, B, C)
  BY MovedHasParts
<1>2. /\ A \in Seq(T) /\ B \in Seq(T) /\ C \in Seq(T) /\ Range(B) = {l[j] : j \in i..(k - 1)}
      /\ l = ((A \o B) \o x) \o C /\ Moved(l, k, i) = ((A \o x) \o B) \o C
  BY <1>1 DEF MovedParts
<1>3. x \in Seq(T) /\ Range(x) = {l[k]}
  <2>1. l[k] \in T
    BY ElementOfSeq
  <2> QED
    BY <2>1 DEF Range
<1> DEFINE K(s) == Kept(s, S)
<1>4. K(x) = << >> \/ K(B) = << >>
  <2>1. CASE l[k] \notin S
    <3>1. Range(x) \intersect S = {}
      BY <1>3, <2>1
    <3> HIDE DEF x
    <3> QED
      BY <1>3, <3>1, KeptNone
  <2>2. CASE \A j \in i..(k - 1) : l[j] \notin S
    <3>1. Range(B) \intersect S = {}
      BY <1>2, <2>2
    <3> QED
      BY <1>2, <3>1, KeptNone
  <2> QED
    BY <2>1, <2>2
<1> HIDE DEF x
<1>5. K(A) \in Seq(T) /\ K(B) \in Seq(T) /\ K(C) \in Seq(T) /\ K(x) \in Seq(T)
  BY <1>2, <1>3, KeptType
<1>6. ASSUME NEW a \in Seq(T), NEW b \in Seq(T) PROVE a \o b \in Seq(T) /\ K(a \o b) = K(a) \o K(b)
  BY KeptConcat, ConcatProperties
<1>7. /\ A \o B \in Seq(T) /\ (A \o B) \o x \in Seq(T)
      /\ A \o x \in Seq(T) /\ (A \o x) \o B \in Seq(T)
  BY <1>2, <1>3, <1>6
<1>8. K(((A \o B) \o x) \o C) = ((K(A) \o K(B)) \o K(x)) \o K(C)
  <2>1. K(A \o B) = K(A) \o K(B)
    BY <1>2, <1>6
  <2>2. K((A \o B) \o x) = K(A \o B) \o K(x)
    BY <1>3, <1>6, <1>7
  <2>3. K(((A \o B) \o x) \o C) = K((A \o B) \o x) \o K(C)
    BY <1>2, <1>6, <1>7
  <2> HIDE DEF K
  <2> QED
    BY <2>1, <2>2, <2>3
<1>9. K(((A \o x) \o B) \o C) = ((K(A) \o K(x)) \o K(B)) \o K(C)
  <2>1. K(A \o x) = K(A) \o K(x)
    BY <1>2, <1>3, <1>6
  <2>2. K((A \o x) \o B) = K(A \o x) \o K(B)
    BY <1>2, <1>6, <1>7
  <2>3. K(((A \o x) \o B) \o C) = K((A \o x) \o B) \o K(C)
    BY <1>2, <1>6, <1>7
  <2> HIDE DEF K
  <2> QED
    BY <2>1, <2>2, <2>3
<1> HIDE DEF K
<1>10. (K(A) \o K(B)) \o K(x) = (K(A) \o K(x)) \o K(B)
  <2>1. ASSUME NEW s \in Seq(T) PROVE s \o << >> = s
    BY ConcatEmptySeq
  <2>2. K(A) \o K(B) \in Seq(T) /\ K(A) \o K(x) \in Seq(T)
    BY <1>5, ConcatProperties
  <2> QED
    BY <1>4, <1>5, <2>1, <2>2
<1>11. K(Moved(l, k, i)) = K(l)
  BY <1>2, <1>8, <1>9, <1>10
<1> QED
  BY <1>11 DEF K

-----------------------------------------------------------------------------
(* Sorting.                                                                     *)

Passing(f) == {ch \in Channel : PassFilter(f, ch)}
Hidden(f) == {ch \in Channel : ~PassFilter(f, ch)}

\* What SortChannels may make of the list l: the same channels, those that pass in their
\* order and those that do not in theirs.
Arrangements(f, l) ==
  {m \in Seq(Channel) :
    /\ Len(m) = Len(l) /\ Range(m) = Range(l) /\ (IsInjective(l) => IsInjective(m))
    /\ Kept(m, Passing(f)) = Kept(l, Passing(f)) /\ Kept(m, Hidden(f)) = Kept(l, Hidden(f))}

\* The first i places are sorted: where one does not pass, nothing behind it does.
SortedTo(f, m, i) ==
  \A a, b \in 1..Len(m) : a <= i /\ a < b /\ PassFilter(f, m[b]) => PassFilter(f, m[a])

\* A channel that is moved is still in the list, once.
LEMMA MovedSame ==
  ASSUME NEW T, NEW l \in Seq(T), NEW i \in 1..Len(l), NEW k \in 1..Len(l), i < k
  PROVE  Range(Moved(l, k, i)) = Range(l) /\ (IsInjective(l) => IsInjective(Moved(l, k, i)))
<1> DEFINE n == Len(l)
           r == Moved(l, k, i)
           at(j) == IF j < i \/ j > k THEN j ELSE IF j = i THEN k ELSE j - 1
           to(j) == IF j < i \/ j > k THEN j ELSE IF j = k THEN i ELSE j + 1
<1>1. n \in Nat /\ DOMAIN l = 1..n /\ i \in 1..n /\ k \in 1..n
  BY LenProperties
<1>2. r \in Seq(T) /\ Len(r) = n
      /\ \A j \in 1..n : r[j] = IF j < i \/ j > k THEN l[j] ELSE IF j = i THEN l[k] ELSE l[j - 1]
  BY MovedIs
<1> HIDE DEF n, r
<1>3. DOMAIN r = 1..n
  BY <1>2, LenProperties
<1>4. \A j \in 1..n : at(j) \in 1..n /\ to(j) \in 1..n /\ at(to(j)) = j
  BY <1>1
<1>5. \A a, b \in 1..n : at(a) = at(b) => a = b
  BY <1>1
<1>6. \A j \in 1..n : r[j] = l[at(j)]
  BY <1>2
<1> HIDE DEF at, to
<1>7. Range(r) = Range(l)
  <2>1. ASSUME NEW y \in Range(r) PROVE y \in Range(l)
    <3>1. PICK j \in 1..n : r[j] = y
      BY <1>3 DEF Range
    <3> QED
      BY <1>1, <1>4, <1>6, <3>1 DEF Range
  <2>2. ASSUME NEW y \in Range(l) PROVE y \in Range(r)
    <3>1. PICK j \in 1..n : l[j] = y
      BY <1>1 DEF Range
    <3>2. r[to(j)] = y /\ to(j) \in 1..n
      BY <1>4, <1>6, <3>1
    <3> QED
      BY <1>3, <3>2 DEF Range
  <2> QED
    BY <2>1, <2>2
<1>8. ASSUME IsInjective(l) PROVE IsInjective(r)
  <2>1. \A a, b \in 1..n : l[a] = l[b] => a = b
    BY <1>1, <1>8 DEF IsInjective
  <2>2. ASSUME NEW a \in 1..n, NEW b \in 1..n, r[a] = r[b] PROVE a = b
    BY <1>4, <1>5, <1>6, <2>1, <2>2
  <2> QED
    BY <1>3, <2>2 DEF IsInjective
<1> QED
  BY <1>7, <1>8 DEF r

\* A turn of the loop arranges.
LEMMA SortStepArranges ==
  ASSUME NEW f, NEW l \in Seq(Channel), NEW m \in Arrangements(f, l), NEW i \in 1..Len(l)
  PROVE  SortStep(f, m, i) \in Arrangements(f, l)
<1> DEFINE n == Len(m)
           later == {j \in (i + 1)..n : PassFilter(f, m[j])}
           k == Min(later)
           r == Moved(m, k, i)
<1>1. /\ m \in Seq(Channel) /\ n = Len(l) /\ Range(m) = Range(l) /\ (IsInjective(l) => IsInjective(m))
      /\ Kept(m, Passing(f)) = Kept(l, Passing(f)) /\ Kept(m, Hidden(f)) = Kept(l, Hidden(f))
  BY DEF Arrangements
<1>2. n \in Nat /\ i \in 1..n
  BY <1>1, LenProperties
<1>3. CASE PassFilter(f, m[i]) \/ later = {}
  <2>1. SortStep(f, m, i) = m
    BY <1>3 DEF SortStep
  <2> QED
    BY <2>1
<1>4. CASE ~(PassFilter(f, m[i]) \/ later = {})
  <2>1. SortStep(f, m, i) = r
    BY <1>4 DEF SortStep
  <2>2. /\ k \in (i + 1)..n /\ PassFilter(f, m[k])
        /\ \A j \in (i + 1)..n : PassFilter(f, m[j]) => k <= j
    <3>1. later \in SUBSET Nat /\ later # {}
      BY <1>2, <1>4
    <3> HIDE DEF later
    <3>2. k \in later /\ \A j \in later : k <= j
      BY <3>1, MinOf
    <3> HIDE DEF k
    <3> QED
      BY <3>2 DEF later
  <2> HIDE DEF k, later
  <2>3. k \in 1..n /\ i < k /\ \A j \in i..(k - 1) : j \in 1..n /\ ~PassFilter(f, m[j])
    <3>1. \A j \in i..(k - 1) : j \in 1..n /\ (j = i \/ (j \in (i + 1)..n /\ ~(k <= j)))
      BY <1>2, <2>2
    <3> QED
      BY <1>2, <1>4, <2>2, <3>1
  <2>4. r \in Seq(Channel) /\ Len(r) = n
    BY <1>1, <1>2, <2>3, MovedIs
  <2>5. Range(r) = Range(m) /\ (IsInjective(m) => IsInjective(r))
    BY <1>1, <1>2, <2>3, MovedSame
  <2>6. Kept(r, Passing(f)) = Kept(m, Passing(f))
    <3>1. \A j \in i..(k - 1) : m[j] \notin Passing(f)
      BY <2>3 DEF Passing
    <3> QED
      BY <1>1, <1>2, <2>3, <3>1, MovedKept
  <2>7. Kept(r, Hidden(f)) = Kept(m, Hidden(f))
    <3>1. m[k] \notin Hidden(f)
      BY <2>2 DEF Hidden
    <3> QED
      BY <1>1, <1>2, <2>3, <3>1, MovedKept
  <2> HIDE DEF r, n
  <2>8. r \in Arrangements(f, l)
    BY <1>1, <2>4, <2>5, <2>6, <2>7 DEF Arrangements
  <2> QED
    BY <2>1, <2>8
<1> QED
  BY <1>3, <1>4

\* And sorts one more place.
LEMMA SortStepSorts ==
  ASSUME NEW f, NEW m \in Seq(Channel), NEW i \in 1..Len(m), SortedTo(f, m, i - 1)
  PROVE  SortedTo(f, SortStep(f, m, i), i)
<1> DEFINE n == Len(m)
           later == {j \in (i + 1)..n : PassFilter(f, m[j])}
           k == Min(later)
           r == Moved(m, k, i)
<1>1. n \in Nat /\ i \in 1..n
  BY LenProperties
<1>2. \A a, b \in 1..n : a <= i - 1 /\ a < b /\ PassFilter(f, m[b]) => PassFilter(f, m[a])
  BY DEF SortedTo
<1>3. CASE PassFilter(f, m[i]) \/ later = {}
  <2>1. SortStep(f, m, i) = m
    BY <1>3 DEF SortStep
  <2>2. ASSUME NEW a \in 1..n, NEW b \in 1..n, a <= i, a < b, PassFilter(f, m[b])
        PROVE  PassFilter(f, m[a])
    <3>1. CASE a = i
      <4>1. b \in later
        BY <1>1, <2>2, <3>1
      <4> QED
        BY <1>3, <3>1, <4>1
    <3>2. CASE a # i
      <4>1. a <= i - 1
        BY <1>1, <2>2, <3>2
      <4> QED
        BY <1>2, <2>2, <4>1
    <3> QED
      BY <3>1, <3>2
  <2>3. SortedTo(f, m, i)
    BY <2>2 DEF SortedTo
  <2> QED
    BY <2>1, <2>3
<1>4. CASE ~(PassFilter(f, m[i]) \/ later = {})
  <2>1. SortStep(f, m, i) = r
    BY <1>4 DEF SortStep
  <2>2. k \in (i + 1)..n /\ PassFilter(f, m[k])
    <3>1. later \in SUBSET Nat /\ later # {}
      BY <1>1, <1>4
    <3> HIDE DEF later
    <3>2. k \in later
      BY <3>1, MinOf
    <3> HIDE DEF k
    <3> QED
      BY <3>2 DEF later
  <2> HIDE DEF k, later
  <2>3. k \in 1..n /\ i < k
    BY <1>1, <2>2
  <2>4. /\ Len(r) = n
        /\ \A j \in 1..n : r[j] = IF j < i \/ j > k THEN m[j] ELSE IF j = i THEN m[k] ELSE m[j - 1]
    BY <1>1, <2>3, MovedIs
  <2> HIDE DEF r, n
  <2>5. ASSUME NEW a \in 1..n, NEW b \in 1..n, a <= i, a < b, PassFilter(f, r[b])
        PROVE  PassFilter(f, r[a])
    <3>1. CASE a = i
      <4>1. r[a] = m[k]
        BY <1>1, <2>3, <2>4, <3>1
      <4> QED
        BY <2>2, <4>1
    <3>2. CASE a # i
      <4>1. a <= i - 1 /\ a < i
        BY <1>1, <2>5, <3>2
      <4>2. r[a] = m[a]
        BY <2>4, <4>1
      <4> DEFINE c == IF b < i \/ b > k THEN b ELSE IF b = i THEN k ELSE b - 1
      <4>3. r[b] = m[c]
        BY <2>4
      <4>4. c \in 1..n /\ a < c
        BY <1>1, <2>3, <2>5, <4>1
      <4> HIDE DEF c
      <4>5. PassFilter(f, m[c])
        BY <2>5, <4>3
      <4> QED
        BY <1>2, <4>1, <4>2, <4>4, <4>5
    <3> QED
      BY <3>1, <3>2
  <2>6. SortedTo(f, r, i)
    BY <2>4, <2>5 DEF SortedTo
  <2> QED
    BY <2>1, <2>6
<1> QED
  BY <1>3, <1>4

\* The values of the list in the loop of SortChannels.
SortSteps(f, l) ==
  {s \in [0..Len(l) -> Arrangements(f, l)] :
    /\ s[0] = l /\ s[Len(l)] = SortChannels(f, l)
    /\ \A i \in 1..Len(l) : s[i] = SortStep(f, s[i - 1], i)}

\* The recursive definition of SortChannels defines them.
LEMMA SortIs == ASSUME NEW f, NEW l \in Seq(Channel) PROVE SortSteps(f, l) # {}
<1> DEFINE n == Len(l)
           V == Arrangements(f, l)
           step == [i \in 1..n |-> [m \in V |-> SortStep(f, m, i)]]
           SortsIt(g) == g = [i \in 0..n |-> IF i = 0 THEN l ELSE SortStep(f, g[i - 1], i)]
<1>1. n \in Nat /\ l \in V
  BY LenProperties DEF Arrangements
<1>2. step \in [1..n -> [V -> V]]
  <2>1. ASSUME NEW i \in 1..n, NEW m \in V PROVE SortStep(f, m, i) \in V
    BY SortStepArranges
  <2> HIDE DEF n, V
  <2> QED
    BY <2>1
<1>3. Recursive(n, V, l, step) # {}
  <2> HIDE DEF n, step, V
  <2> QED
    BY <1>1, <1>2, Recursion
<1> DEFINE g == CHOOSE g \in Recursive(n, V, l, step) : TRUE
<1>4. g \in [0..n -> V] /\ g[0] = l /\ \A i \in 1..n : g[i] = step[i][g[i - 1]]
  <2>1. g \in Recursive(n, V, l, step)
    BY <1>3
  <2> HIDE DEF g, n, step, V
  <2> QED
    BY <2>1 DEF Recursive
<1> HIDE DEF g
<1>5. ASSUME NEW i \in 1..n PROVE g[i] = SortStep(f, g[i - 1], i)
  <2>1. g[i - 1] \in V
    <3>1. i - 1 \in 0..n
      BY <1>1
    <3> HIDE DEF n, step, V
    <3> QED
      BY <1>4, <3>1
  <2>2. step[i][g[i - 1]] = SortStep(f, g[i - 1], i)
    <3> HIDE DEF n, V
    <3> QED
      BY <2>1
  <2> HIDE DEF n, step, V
  <2> QED
    BY <1>4, <2>2
<1>6. SortsIt(g)
  <2>1. g = [i \in 0..n |-> g[i]]
    <3> HIDE DEF n, step, V
    <3> QED
      BY <1>4
  <2>2. ASSUME NEW i \in 0..n PROVE g[i] = IF i = 0 THEN l ELSE SortStep(f, g[i - 1], i)
    <3>1. i # 0 => i \in 1..n
      BY <1>1
    <3> HIDE DEF n, step, V
    <3> QED
      BY <1>4, <1>5, <3>1
  <2> HIDE DEF n, step, V
  <2> QED
    BY <2>1, <2>2
<1> DEFINE s == CHOOSE h : SortsIt(h)
<1>7. SortsIt(s) /\ SortChannels(f, l) = s[n]
  <2>1. SortChannels(f, l) = s[n]
    BY DEF SortChannels
  <2> HIDE DEF SortsIt, n
  <2> QED
    BY <1>6, <2>1
<1> HIDE DEF s
<1>8. /\ s = [i \in 0..n |-> s[i]] /\ s[0] = l
      /\ \A i \in 1..n : s[i] = SortStep(f, s[i - 1], i)
  <2>1. 0 \in 0..n /\ \A i \in 1..n : i \in 0..n /\ i # 0
    BY <1>1
  <2> HIDE DEF n
  <2> QED
    BY <1>7, <2>1
<1> DEFINE U == {i \in Nat : i <= n => s[i] \in V}
<1>9. 0 \in U
  BY <1>1, <1>8
<1>10. ASSUME NEW i \in Nat, i \in U PROVE i + 1 \in U
  <2> SUFFICES ASSUME i + 1 <= n PROVE s[i + 1] \in V
    OBVIOUS
  <2>1. i + 1 \in 1..n /\ (i + 1) - 1 = i /\ i <= n
    BY <1>1
  <2>2. s[i + 1] = SortStep(f, s[i], i + 1)
    BY <1>8, <2>1
  <2>3. s[i] \in V
    BY <1>10, <2>1
  <2> QED
    BY <2>1, <2>2, <2>3, SortStepArranges
<1>11. Nat \subseteq U
  <2> HIDE DEF U
  <2> QED
    BY <1>9, <1>10, NatInd
<1>12. s \in [0..n -> V]
  <2>1. ASSUME NEW i \in 0..n PROVE s[i] \in V
    <3>1. i \in U /\ i <= n
      BY <1>1, <1>11
    <3> QED
      BY <3>1
  <2> HIDE DEF n, V
  <2> QED
    BY <1>8, <2>1
<1>13. s \in SortSteps(f, l)
  BY <1>7, <1>8, <1>12 DEF SortSteps
<1> QED
  BY <1>13

\* SortChannels arranges the list so that all of it is sorted.
LEMMA SortChannelsSorts ==
  ASSUME NEW f, NEW l \in Seq(Channel)
  PROVE  SortChannels(f, l) \in Arrangements(f, l) /\ SortedTo(f, SortChannels(f, l), Len(l))
<1> DEFINE n == Len(l)
<1>1. n \in Nat
  BY LenProperties
<1>2. PICK s : s \in SortSteps(f, l)
  BY SortIs
<1>3. /\ s \in [0..n -> Arrangements(f, l)] /\ s[0] = l /\ s[n] = SortChannels(f, l)
      /\ \A i \in 1..n : s[i] = SortStep(f, s[i - 1], i)
  BY <1>2 DEF SortSteps
<1> HIDE DEF n
<1>4. ASSUME NEW i \in 0..n PROVE s[i] \in Seq(Channel) /\ Len(s[i]) = n
  <2>1. s[i] \in Arrangements(f, l)
    BY <1>3
  <2> QED
    BY <2>1 DEF Arrangements, n
<1> DEFINE U == {i \in Nat : i <= n => SortedTo(f, s[i], i)}
<1>5. 0 \in U
  <2>1. 0 \in 0..n
    BY <1>1
  <2>2. Len(s[0]) = n
    BY <1>4, <2>1
  <2>3. \A a \in 1..n : ~(a <= 0)
    BY <1>1
  <2>4. SortedTo(f, s[0], 0)
    BY <2>2, <2>3 DEF SortedTo
  <2> QED
    BY <2>4
<1>6. ASSUME NEW i \in Nat, i \in U PROVE i + 1 \in U
  <2> SUFFICES ASSUME i + 1 <= n PROVE SortedTo(f, s[i + 1], i + 1)
    OBVIOUS
  <2>1. i + 1 \in 1..n /\ (i + 1) - 1 = i /\ i <= n /\ i \in 0..n
    BY <1>1
  <2>2. s[i + 1] = SortStep(f, s[i], i + 1)
    BY <1>3, <2>1
  <2>3. s[i] \in Seq(Channel) /\ i + 1 \in 1..Len(s[i])
    BY <1>4, <2>1
  <2>4. SortedTo(f, s[i], (i + 1) - 1)
    BY <1>6, <2>1
  <2>5. SortedTo(f, SortStep(f, s[i], i + 1), i + 1)
    BY <2>3, <2>4, SortStepSorts
  <2> QED
    BY <2>2, <2>5
<1>7. Nat \subseteq U
  <2> HIDE DEF U
  <2> QED
    BY <1>5, <1>6, NatInd
<1>8. SortedTo(f, s[n], n) /\ n \in 0..n
  BY <1>1, <1>7
<1> QED
  BY <1>3, <1>8 DEF n

\* What is sorted are the channels that pass, and then the others.
LEMMA SortedSplits ==
  ASSUME NEW f, NEW r \in Seq(Channel), SortedTo(f, r, Len(r))
  PROVE  r = Kept(r, Passing(f)) \o Kept(r, Hidden(f))
<1> DEFINE n == Len(r)
           P == Passing(f)
           H == Hidden(f)
<1>1. n \in Nat /\ \A j \in 1..n : r[j] \in Channel
  BY LenProperties, ElementOfSeq
<1>2. \E u, w \in Seq(Channel) : r = u \o w /\ Range(u) \subseteq P /\ Range(w) \subseteq H
  <2> DEFINE bad == {j \in 1..n : ~PassFilter(f, r[j])}
  <2>1. CASE bad = {}
    <3>1. << >> \in Seq(Channel) /\ Range(<< >>) = {} /\ r = r \o << >>
      BY EmptySeq, ConcatEmptySeq DEF Range
    <3>2. Range(r) \subseteq P
      <4>1. \A j \in 1..n : r[j] \in P
        BY <1>1, <2>1 DEF Passing
      <4> QED
        BY <4>1, SeqRange
    <3> QED
      BY <3>1, <3>2
  <2>2. CASE bad # {}
    <3>1. bad \in SUBSET Nat
      BY <1>1
    <3>2. PICK m \in bad : \A j \in bad : m <= j
      <4> HIDE DEF bad
      <4> QED
        BY <2>2, <3>1, NatMin
    <3>3. /\ m \in 1..n /\ ~PassFilter(f, r[m])
          /\ \A j \in 1..n : j < m => PassFilter(f, r[j])
      <4>1. \A j \in 1..n : j < m => ~(m <= j)
        BY <1>1
      <4> QED
        BY <3>2, <4>1
    <3>4. \A j \in 1..n : j >= m => ~PassFilter(f, r[j])
      <4>1. \A j \in 1..n : m <= n /\ (j >= m => j = m \/ m < j)
        BY <1>1, <3>3
      <4> QED
        BY <3>3, <4>1 DEF SortedTo
    <3> DEFINE u == SubSeq(r, 1, m - 1)
               w == SubSeq(r, m, n)
    <3>5. u \in Seq(Channel) /\ Len(u) = m - 1 /\ \A j \in 1..(m - 1) : u[j] = r[j]
      <4>1. /\ 1 \in Int /\ m - 1 \in Int /\ (m - 1) - 1 + 1 = m - 1 /\ (1 <= m - 1 \/ m - 1 = 0)
            /\ \A j \in 1..(m - 1) : r[j] \in Channel /\ 1 + j - 1 = j
        BY <1>1, <3>3
      <4>2. /\ u \in Seq(Channel) /\ Len(u) = IF 1 <= m - 1 THEN (m - 1) - 1 + 1 ELSE 0
            /\ \A j \in 1..((m - 1) - 1 + 1) : u[j] = r[1 + j - 1]
        BY <4>1, SubSeqProperties
      <4> HIDE DEF u
      <4> QED
        BY <4>1, <4>2
    <3>6. w \in Seq(Channel) /\ Len(w) = n - m + 1 /\ \A j \in 1..(n - m + 1) : w[j] = r[m + j - 1]
      <4>1. m \in Int /\ n \in Int /\ m <= n /\ \A j \in m..n : r[j] \in Channel
        BY <1>1, <3>3
      <4>2. /\ w \in Seq(Channel) /\ Len(w) = IF m <= n THEN n - m + 1 ELSE 0
            /\ \A j \in 1..(n - m + 1) : w[j] = r[m + j - 1]
        BY <4>1, SubSeqProperties
      <4> HIDE DEF w
      <4> QED
        BY <4>1, <4>2
    <3>7. r = u \o w
      <4>1. 1 \in 1..(Len(r) + 1) /\ m - 1 \in (1 - 1)..Len(r) /\ n \in (m - 1)..Len(r) /\ (m - 1) + 1 = m
        BY <1>1, <3>3
      <4>2. SubSeq(r, 1, m - 1) \o SubSeq(r, (m - 1) + 1, n) = SubSeq(r, 1, n)
        BY <4>1, ConcatAdjacentSubSeq
      <4>3. SubSeq(r, 1, n) = r
        BY SubSeqFull
      <4> QED
        BY <4>1, <4>2, <4>3
    <3> HIDE DEF u, w
    <3>8. Range(u) \subseteq P
      <4>1. \A j \in 1..(m - 1) : j \in 1..n /\ j < m
        BY <1>1, <3>3
      <4>2. \A j \in 1..Len(u) : u[j] \in P
        BY <1>1, <3>3, <3>5, <4>1 DEF Passing
      <4> QED
        BY <3>5, <4>2, SeqRange
    <3>9. Range(w) \subseteq H
      <4>1. \A j \in 1..(n - m + 1) : m + j - 1 \in 1..n /\ m + j - 1 >= m
        BY <1>1, <3>3
      <4>2. \A j \in 1..Len(w) : w[j] \in H
        BY <1>1, <3>4, <3>6, <4>1 DEF Hidden
      <4> QED
        BY <3>6, <4>2, SeqRange
    <3> QED
      BY <3>5, <3>6, <3>7, <3>8, <3>9
  <2> QED
    BY <2>1, <2>2
<1>3. PICK u \in Seq(Channel), w \in Seq(Channel) :
        r = u \o w /\ Range(u) \subseteq P /\ Range(w) \subseteq H
  BY <1>2
<1>4. P \intersect H = {}
  BY DEF Passing, Hidden
<1> HIDE DEF P, H
<1>5. Range(u) \intersect H = {} /\ Range(w) \intersect P = {}
  BY <1>3, <1>4
<1>6. Kept(u, P) = u /\ Kept(w, H) = w
  BY <1>3, KeptAll
<1>7. Kept(u, H) = << >> /\ Kept(w, P) = << >>
  BY <1>5, KeptNone
<1>8. Kept(u \o w, P) = Kept(u, P) \o Kept(w, P) /\ Kept(u \o w, H) = Kept(u, H) \o Kept(w, H)
  BY KeptConcat, ZenonT(30)
<1>9. u \o << >> = u /\ << >> \o w = w
  BY ConcatEmptySeq
<1>10. r = Kept(r, P) \o Kept(r, H)
  BY <1>3, <1>6, <1>7, <1>8, <1>9
<1> QED
  BY <1>10 DEF P, H

-----------------------------------------------------------------------------
(* The filter.                                                                  *)

\* FilterTypeOK, with the domains of the functions and the types of the sequences.
FilterShape ==
  /\ channels \in Seq(Channel) /\ IsInjective(channels)
  /\ channelReaders \in SUBSET Client /\ filterMutex \in Client \union {Nobody}
  /\ DOMAIN white = BOOLEAN /\ DOMAIN black = BOOLEAN
  /\ \A r \in BOOLEAN : white[r] \subseteq Entry /\ black[r] \subseteq Channel
  /\ DOMAIN files[1] = BOOLEAN /\ DOMAIN files[2] = BOOLEAN
  /\ \A r \in BOOLEAN : files[1][r] \subseteq Entry /\ files[2][r] \subseteq Channel
  /\ left \in BOOLEAN /\ (left => filterMutex # Nobody)
  /\ walking \in [Client -> Walks \union {"idle", "sort", "epg"}]
  /\ walk \in [Client -> Seq(Channel)] /\ DOMAIN groups = Client
  /\ \A c \in Client : (c \in channelReaders) = (walking[c] \notin {"idle", "sort"})
  /\ \A c \in Client : walking[c] = "sort" => filterMutex = c
  /\ \A c \in Client : filterMutex = c => walking[c] = "sort" \/ left
  /\ edits \in 0..MaxEdits /\ edited \in BOOLEAN /\ upToDate \in SUBSET Client

\* Who has asked for the groups of the list as it is has them.
GroupsRight ==
  \A c \in upToDate : groups[c].names = CreateChannelGroups(channels, groups[c].automatic)

FilterIInv == FilterShape /\ FilterStored /\ SortedFirst /\ GroupsRight

\* It is the type invariant, and more.
LEMMA ShapeIsType == FilterShape => FilterTypeOK
<1> SUFFICES ASSUME FilterShape PROVE FilterTypeOK
  OBVIOUS
<1>1. Range(channels) \subseteq Channel
  BY SeqRange DEF FilterShape
<1>2. ASSUME NEW c \in Client PROVE Range(walk[c]) \subseteq Channel
  <2>1. walk[c] \in Seq(Channel)
    BY DEF FilterShape
  <2> QED
    BY <2>1, SeqRange
<1> QED
  BY <1>1, <1>2 DEF FilterShape, FilterTypeOK

\* Without lists every channel passes.
LEMMA FilterInitIInv == FilterInit => FilterIInv
<1> SUFFICES ASSUME FilterInit PROVE FilterIInv
  OBVIOUS
<1>1. FilterShape
  <2>1. << >> \in Seq(Channel)
    BY EmptySeq
  <2>2. 0 \in 0..MaxEdits
    BY FilterAssumption
  <2>3. \A c \in Client : filterMutex # c
    BY ClientAssumption DEF FilterInit
  <2>4. channels \in Seq(Channel) /\ IsInjective(channels)
    BY FilterAssumption DEF FilterInit
  <2>5. /\ DOMAIN white = BOOLEAN /\ DOMAIN black = BOOLEAN
        /\ \A r \in BOOLEAN : white[r] \subseteq Entry /\ black[r] \subseteq Channel
        /\ files[1] = white /\ files[2] = black
    BY DEF FilterInit
  <2>6. /\ walking \in [Client -> Walks \union {"idle", "sort", "epg"}]
        /\ walk \in [Client -> Seq(Channel)] /\ DOMAIN groups = Client
    BY <2>1 DEF FilterInit
  <2>7. \A c \in Client : (c \in channelReaders) = (walking[c] \notin {"idle", "sort"})
    BY DEF FilterInit
  <2>8. \A c \in Client : walking[c] # "sort"
    BY DEF FilterInit
  <2> QED
    BY <2>2, <2>3, <2>4, <2>5, <2>6, <2>7, <2>8 DEF FilterInit, FilterShape
<1>2. SortedFirst
  <2>1. ASSUME NEW ch \in Channel PROVE Passes(ch)
    <3>1. Info[ch].radio \in BOOLEAN
      BY FilterAssumption
    <3>2. white[Info[ch].radio] = {} /\ black[Info[ch].radio] = {}
      BY <3>1 DEF FilterInit
    <3> QED
      BY <3>2 DEF Passes, PassFilter, IsWhitelist, Filter
  <2>2. \A i \in DOMAIN channels : channels[i] \in Channel
    <3>1. channels \in Seq(Channel)
      BY FilterAssumption DEF FilterInit
    <3> QED
      BY <3>1, LenProperties, ElementOfSeq
  <2> QED
    BY <2>1, <2>2 DEF SortedFirst
<1> QED
  BY <1>1, <1>2 DEF FilterInit, FilterIInv, FilterStored, Filter, GroupsRight

\* What the steps of a walk over the channels leave alone.
WalkLeaves == UNCHANGED <<channels, filterMutex, filterVars, groups, edits, edited, upToDate>>

\* A step that only changes which walks are on and what is before them.
LEMMA WalkingKeeps ==
  ASSUME FilterIInv, WalkLeaves,
         walk' \in [Client -> Seq(Channel)], walking' \in [Client -> Walks \union {"idle", "sort", "epg"}],
         channelReaders' \in SUBSET Client,
         \A c \in Client : (c \in channelReaders') = (walking'[c] \notin {"idle", "sort"}),
         \A c \in Client : (walking'[c] = "sort") = (walking[c] = "sort")
  PROVE  FilterIInv'
<1>1. FilterShape'
  <2>1. \A c \in Client : /\ walking'[c] = "sort" => filterMutex' = c
                          /\ filterMutex' = c => walking'[c] = "sort" \/ left'
    BY DEF filterVars, FilterIInv, FilterShape, WalkLeaves
  <2> QED
    BY <2>1 DEF FilterIInv, FilterShape, WalkLeaves, filterVars
<1>2. FilterStored' /\ GroupsRight'
  BY DEF FilterIInv, FilterStored, Loaded, GroupsRight, WalkLeaves, filterVars
<1>3. SortedFirst'
  BY DEF FilterIInv, SortedFirst, Passes, Filter, WalkLeaves, filterVars
<1> QED
  BY <1>1, <1>2, <1>3 DEF FilterIInv

\* A walk begins, with the channels locked.
LEMMA BeginWalkKeeps ==
  ASSUME FilterIInv, WalkLeaves, NEW c \in Client, NEW what \in Walks \union {"epg"},
         NEW chs \in Seq(Channel), walking[c] = "idle", BeginWalk(c, what, chs)
  PROVE  FilterIInv'
<1>1. /\ walk \in [Client -> Seq(Channel)] /\ walking \in [Client -> Walks \union {"idle", "sort", "epg"}]
      /\ channelReaders \in SUBSET Client
      /\ \A d \in Client : (d \in channelReaders) = (walking[d] \notin {"idle", "sort"})
  BY DEF FilterIInv, FilterShape
<1>2. walk' \in [Client -> Seq(Channel)]
  BY <1>1 DEF BeginWalk
<1>3. walking' \in [Client -> Walks \union {"idle", "sort", "epg"}] /\ channelReaders' \in SUBSET Client
  BY <1>1 DEF BeginWalk
<1>4. what \notin {"idle", "sort"}
  BY DEF Walks
<1>5. \A d \in Client : (d \in channelReaders') = (walking'[d] \notin {"idle", "sort"})
  BY <1>1, <1>4 DEF BeginWalk
<1>6. \A d \in Client : (walking'[d] = "sort") = (walking[d] = "sort")
  BY <1>1, <1>4 DEF BeginWalk
<1> QED
  BY <1>2, <1>3, <1>5, <1>6, WalkingKeeps

\* It goes on.
LEMMA GoOnWalkKeeps ==
  ASSUME FilterIInv, WalkLeaves, NEW c \in Client, NEW s \in Seq(Channel),
         walk' = [walk EXCEPT ![c] = s], UNCHANGED <<walking, channelReaders>>
  PROVE  FilterIInv'
<1>1. /\ walk \in [Client -> Seq(Channel)] /\ walking \in [Client -> Walks \union {"idle", "sort", "epg"}]
      /\ channelReaders \in SUBSET Client
      /\ \A d \in Client : (d \in channelReaders) = (walking[d] \notin {"idle", "sort"})
  BY DEF FilterIInv, FilterShape
<1>2. walk' \in [Client -> Seq(Channel)]
  BY <1>1
<1> QED
  BY <1>1, <1>2, WalkingKeeps

\* It ends, and the channels are unlocked.
LEMMA LeaveWalkKeeps ==
  ASSUME FilterIInv, WalkLeaves, NEW c \in Client, walking[c] \notin {"idle", "sort"},
         channelReaders' = channelReaders \ {c}, walking' = [walking EXCEPT ![c] = "idle"], UNCHANGED walk
  PROVE  FilterIInv'
<1>1. /\ walk \in [Client -> Seq(Channel)] /\ walking \in [Client -> Walks \union {"idle", "sort", "epg"}]
      /\ channelReaders \in SUBSET Client
      /\ \A d \in Client : (d \in channelReaders) = (walking[d] \notin {"idle", "sort"})
  BY DEF FilterIInv, FilterShape
<1>2. walking' \in [Client -> Walks \union {"idle", "sort", "epg"}] /\ channelReaders' \in SUBSET Client
  BY <1>1
<1>3. \A d \in Client : (d \in channelReaders') = (walking'[d] \notin {"idle", "sort"})
  BY <1>1
<1>4. \A d \in Client : (walking'[d] = "sort") = (walking[d] = "sort")
  BY <1>1
<1> QED
  BY <1>1, <1>2, <1>3, <1>4, WalkingKeeps

\* The walks that the requests begin.
LEMMA GetChannelsKeeps == ASSUME FilterIInv, NEW c \in Client, GetChannels(c) PROVE FilterIInv'
<1>1. WalkLeaves /\ walking[c] = "idle"
  BY DEF GetChannels, WalkLeaves
<1>2. PICK radio \in BOOLEAN, what \in {"channels", "allChannels"} :
        BeginWalk(c, what, Kept(channels, {ch \in Channel :
          Info[ch].radio = radio /\ ~Info[ch].invalid /\ ~Info[ch].obsolete}))
  BY DEF GetChannels
<1> DEFINE S == {ch \in Channel : Info[ch].radio = radio /\ ~Info[ch].invalid /\ ~Info[ch].obsolete}
<1>3. Kept(channels, S) \in Seq(Channel)
  <2>1. channels \in Seq(Channel)
    BY DEF FilterIInv, FilterShape
  <2> QED
    BY <2>1, KeptType
<1>4. BeginWalk(c, what, Kept(channels, S)) /\ what \in Walks \union {"epg"}
  BY <1>2 DEF Walks
<1> HIDE DEF S
<1> QED
  BY <1>1, <1>3, <1>4, BeginWalkKeeps

\* The members of a group.
LEMMA GetGroupMembersKeeps == ASSUME FilterIInv, NEW c \in Client, GetGroupMembers(c) PROVE FilterIInv'
<1>1. WalkLeaves /\ walking[c] = "idle"
  BY DEF GetGroupMembers, WalkLeaves
<1>a. PICK radio \in BOOLEAN : \E name \in GroupList(c, radio) :
        BeginWalk(c, "members", Members(channels, name, radio, groups[c].automatic))
  BY DEF GetGroupMembers
<1>2. PICK name \in GroupList(c, radio) :
        BeginWalk(c, "members", Members(channels, name, radio, groups[c].automatic))
  BY <1>a
<1>3. Members(channels, name, radio, groups[c].automatic) \in Seq(Channel)
  <2>1. channels \in Seq(Channel)
    BY DEF FilterIInv, FilterShape
  <2> QED
    BY <2>1, KeptType DEF Members
<1>4. "members" \in Walks \union {"epg"}
  BY DEF Walks
<1> QED
  BY <1>1, <1>2, <1>3, <1>4, BeginWalkKeeps

\* One channel is put to the filter.
LEMMA NextChannelKeeps == ASSUME FilterIInv, NEW c \in Client, NextChannel(c) PROVE FilterIInv'
<1>1. WalkLeaves /\ UNCHANGED <<walking, channelReaders>> /\ walk[c] # << >>
  BY DEF NextChannel, WalkLeaves
<1>2. walk[c] \in Seq(Channel) /\ walk' = [walk EXCEPT ![c] = Tail(walk[c])]
  BY DEF FilterIInv, FilterShape, NextChannel
<1>3. Tail(walk[c]) \in Seq(Channel)
  BY <1>1, <1>2, HeadTailProperties
<1> QED
  BY <1>1, <1>2, <1>3, GoOnWalkKeeps

\* The end of a walk.
LEMMA EndWalkKeeps == ASSUME FilterIInv, NEW c \in Client, EndWalk(c) PROVE FilterIInv'
<1>1. WalkLeaves /\ UNCHANGED walk /\ walking[c] \notin {"idle", "sort"}
  BY DEF EndWalk, WalkLeaves, Walks
<1> QED
  BY <1>1, LeaveWalkKeeps DEF EndWalk

\* The client gets the groups of the list as it is.
LEMMA GroupsCountKeeps == ASSUME FilterIInv, NEW c \in Client, GroupsCount(c) PROVE FilterIInv'
<1>1. FilterShape'
  BY DEF FilterIInv, FilterShape, GroupsCount, filterVars
<1>2. FilterStored' /\ SortedFirst'
  BY DEF FilterIInv, FilterStored, Loaded, SortedFirst, Passes, Filter, GroupsCount, filterVars
<1>3. GroupsRight'
  <2>1. PICK automatic \in BOOLEAN :
          groups' = [groups EXCEPT ![c] =
            [names |-> CreateChannelGroups(channels, automatic), automatic |-> automatic]]
    BY DEF GroupsCount
  <2>2. DOMAIN groups = Client /\ channels' = channels /\ upToDate' = upToDate \union {c}
    BY DEF FilterIInv, FilterShape, GroupsCount
  <2>3. ASSUME NEW d \in upToDate'
        PROVE  groups'[d].names = CreateChannelGroups(channels, groups'[d].automatic)
    <3>1. d \in Client /\ (d # c => d \in upToDate)
      BY <2>2 DEF FilterIInv, FilterShape
    <3>2. CASE d = c
      BY <2>1, <2>2, <3>2
    <3>3. CASE d # c
      <4>1. groups'[d] = groups[d]
        BY <2>1, <2>2, <3>1, <3>3
      <4> QED
        BY <3>1, <3>3, <4>1 DEF FilterIInv, GroupsRight
    <3> QED
      BY <3>2, <3>3
  <2> QED
    BY <2>2, <2>3 DEF GroupsRight
<1> QED
  BY <1>1, <1>2, <1>3 DEF FilterIInv

\* A list is set and stored, and the mutex kept for the sorting.
LEMMA SetListKeeps ==
  ASSUME FilterIInv, NEW c \in Client, SetWhitelist(c) \/ SetBlacklist(c)
  PROVE  FilterIInv'
<1>1. /\ walking[c] = "idle" /\ filterMutex \in {Nobody, c} /\ filterMutex' = c
      /\ walking' = [walking EXCEPT ![c] = "sort"]
      /\ UNCHANGED <<channels, channelReaders, walk, groups, left, edits, edited, upToDate>>
  BY DEF SetWhitelist, SetBlacklist, Free
<1>2. /\ DOMAIN white' = BOOLEAN /\ DOMAIN black' = BOOLEAN
      /\ DOMAIN files'[1] = BOOLEAN /\ DOMAIN files'[2] = BOOLEAN
      /\ \A r \in BOOLEAN : white'[r] \subseteq Entry /\ black'[r] \subseteq Channel
      /\ \A r \in BOOLEAN : files'[1][r] \subseteq Entry /\ files'[2][r] \subseteq Channel
      /\ FilterStored'
  <2>1. CASE SetWhitelist(c)
    <3>a. PICK r \in BOOLEAN : \E w \in WhiteChoices[r] :
            /\ white' = [white EXCEPT ![r] = w]
            /\ files' = <<[files[1] EXCEPT ![r] = w], files[2]>>
      BY <2>1 DEF SetWhitelist
    <3>1. PICK w \in WhiteChoices[r] :
            /\ white' = [white EXCEPT ![r] = w]
            /\ files' = <<[files[1] EXCEPT ![r] = w], files[2]>>
      BY <3>a
    <3>2. w \subseteq Entry /\ black' = black /\ left' = left
      BY <2>1, FilterAssumption DEF SetWhitelist
    <3>3. files'[1] = [files[1] EXCEPT ![r] = w] /\ files'[2] = files[2]
      BY <3>1
    <3>4. /\ DOMAIN white' = BOOLEAN /\ DOMAIN files'[1] = BOOLEAN
          /\ \A q \in BOOLEAN : /\ white'[q] = IF q = r THEN w ELSE white[q]
                                /\ files'[1][q] = IF q = r THEN w ELSE files[1][q]
      BY <3>1, <3>3 DEF FilterIInv, FilterShape
    <3>5. FilterStored'
      <4> SUFFICES ASSUME ~left PROVE FilterStored'
        BY <3>2 DEF FilterStored
      <4>1. black' = files'[2]
        BY <3>2, <3>3 DEF FilterIInv, FilterStored
      <4>2. ASSUME NEW q \in BOOLEAN PROVE white'[q] \in {files'[1][q], Loaded(files')[1][q]}
        <5>1. CASE q = r
          BY <3>4, <5>1
        <5>2. CASE q # r
          <6>1. files'[1][q] = files[1][q] /\ white'[q] = white[q]
            BY <3>4, <5>2
          <6>2. Loaded(files')[1][q] = Loaded(files)[1][q]
            BY <6>1 DEF Loaded
          <6> QED
            BY <6>1, <6>2 DEF FilterIInv, FilterStored
        <5> QED
          BY <5>1, <5>2
      <4> QED
        BY <4>1, <4>2 DEF FilterStored
    <3> QED
      BY <3>2, <3>3, <3>4, <3>5 DEF FilterIInv, FilterShape
  <2>2. CASE SetBlacklist(c)
    <3>a. PICK r \in BOOLEAN : \E b \in BlackChoices[r] :
            /\ black' = [black EXCEPT ![r] = b]
            /\ files' = <<files[1], [files[2] EXCEPT ![r] = b]>>
      BY <2>2 DEF SetBlacklist
    <3>1. PICK b \in BlackChoices[r] :
            /\ black' = [black EXCEPT ![r] = b]
            /\ files' = <<files[1], [files[2] EXCEPT ![r] = b]>>
      BY <3>a
    <3>2. b \subseteq Channel /\ white' = white /\ left' = left
      BY <2>2, FilterAssumption DEF SetBlacklist
    <3>3. files'[1] = files[1] /\ files'[2] = [files[2] EXCEPT ![r] = b]
      BY <3>1
    <3>4. /\ DOMAIN black' = BOOLEAN /\ DOMAIN files'[2] = BOOLEAN
          /\ \A q \in BOOLEAN : /\ black'[q] = IF q = r THEN b ELSE black[q]
                                /\ files'[2][q] = IF q = r THEN b ELSE files[2][q]
      BY <3>1, <3>3 DEF FilterIInv, FilterShape
    <3>5. FilterStored'
      <4> SUFFICES ASSUME ~left PROVE FilterStored'
        BY <3>2 DEF FilterStored
      <4>1. black' = files'[2]
        BY <3>1, <3>3 DEF FilterIInv, FilterStored
      <4>2. Loaded(files')[1] = Loaded(files)[1]
        BY <3>3 DEF Loaded
      <4> QED
        BY <3>2, <3>3, <4>1, <4>2 DEF FilterIInv, FilterStored
    <3> QED
      BY <3>2, <3>3, <3>4, <3>5 DEF FilterIInv, FilterShape
  <2> QED
    BY <2>1, <2>2
<1>3. FilterShape'
  <2>1. c # Nobody
    BY ClientAssumption
  <2>2. walking' \in [Client -> Walks \union {"idle", "sort", "epg"}]
    BY <1>1 DEF FilterIInv, FilterShape
  <2>3. \A d \in Client : (d \in channelReaders') = (walking'[d] \notin {"idle", "sort"})
    BY <1>1 DEF FilterIInv, FilterShape
  <2>4. \A d \in Client : /\ walking'[d] = "sort" => filterMutex' = d
                          /\ filterMutex' = d => walking'[d] = "sort" \/ left'
    <3>1. \A d \in Client : walking[d] # "sort"
      BY <1>1, ClientAssumption DEF FilterIInv, FilterShape
    <3> QED
      BY <1>1, <3>1 DEF FilterIInv, FilterShape
  <2>5. /\ channels' \in Seq(Channel) /\ IsInjective(channels') /\ channelReaders' \in SUBSET Client
        /\ walk' \in [Client -> Seq(Channel)] /\ DOMAIN groups' = Client
        /\ edits' \in 0..MaxEdits /\ edited' \in BOOLEAN /\ upToDate' \in SUBSET Client
        /\ left' \in BOOLEAN
    BY <1>1 DEF FilterIInv, FilterShape
  <2> QED
    BY <1>1, <1>2, <2>1, <2>2, <2>3, <2>4, <2>5 DEF FilterShape
<1>4. SortedFirst'
  BY <1>1, ClientAssumption DEF SortedFirst
<1>5. GroupsRight'
  BY <1>1 DEF FilterIInv, GroupsRight
<1> QED
  BY <1>2, <1>3, <1>4, <1>5 DEF FilterIInv

\* A request that throws leaves a part of a list and the mutex locked, and nothing stored.
LEMMA SetShortKeeps == ASSUME FilterIInv, NEW c \in Client, SetShort(c) PROVE FilterIInv'
<1>1. /\ walking[c] = "idle" /\ filterMutex \in {Nobody, c} /\ filterMutex' = c /\ left' = TRUE
      /\ UNCHANGED <<channels, channelReaders, files, clientVars, edits, edited, upToDate>>
  BY DEF SetShort, Free
<1>2. /\ DOMAIN white' = BOOLEAN /\ DOMAIN black' = BOOLEAN
      /\ \A r \in BOOLEAN : white'[r] \subseteq Entry /\ black'[r] \subseteq Channel
  <2>1. PICK r \in BOOLEAN :
          \/ \E w \in WhiteChoices[r] : \E came \in SUBSET w :
               white' = [white EXCEPT ![r] = came] /\ UNCHANGED black
          \/ \E b \in BlackChoices[r] : \E came \in SUBSET b :
               black' = [black EXCEPT ![r] = came] /\ UNCHANGED white
    BY DEF SetShort
  <2>2. WhiteChoices[r] \subseteq SUBSET Entry /\ BlackChoices[r] \subseteq SUBSET Channel
    BY FilterAssumption
  <2>3. \/ \E came \in SUBSET Entry : white' = [white EXCEPT ![r] = came] /\ UNCHANGED black
        \/ \E came \in SUBSET Channel : black' = [black EXCEPT ![r] = came] /\ UNCHANGED white
    BY <2>1, <2>2
  <2>4. CASE \E came \in SUBSET Entry : white' = [white EXCEPT ![r] = came] /\ UNCHANGED black
    BY <2>4 DEF FilterIInv, FilterShape
  <2>5. CASE \E came \in SUBSET Channel : black' = [black EXCEPT ![r] = came] /\ UNCHANGED white
    BY <2>5 DEF FilterIInv, FilterShape
  <2> QED
    BY <2>3, <2>4, <2>5
<1>3. FilterShape'
  <2>1. c # Nobody
    BY ClientAssumption
  <2>2. \A d \in Client : walking[d] # "sort"
    BY <1>1, ClientAssumption DEF FilterIInv, FilterShape
  <2> QED
    BY <1>1, <1>2, <2>1, <2>2 DEF FilterIInv, FilterShape, clientVars
<1>4. FilterStored' /\ SortedFirst' /\ GroupsRight'
  BY <1>1, ClientAssumption DEF FilterIInv, FilterStored, SortedFirst, GroupsRight, clientVars
<1> QED
  BY <1>3, <1>4 DEF FilterIInv

\* What the channels are after they have been sorted by f.
Sorted(f, l, r) ==
  /\ r \in Seq(Channel) /\ (IsInjective(l) => IsInjective(r))
  /\ \A i, j \in DOMAIN r : i < j /\ PassFilter(f, r[j]) => PassFilter(f, r[i])
  /\ r = Kept(l, Passing(f)) \o Kept(l, Hidden(f))

\* SortChannels does.
LEMMA SortChannelsIs == ASSUME NEW f, NEW l \in Seq(Channel) PROVE Sorted(f, l, SortChannels(f, l))
<1> DEFINE r == SortChannels(f, l)
<1>1. r \in Arrangements(f, l) /\ SortedTo(f, r, Len(l))
  BY SortChannelsSorts
<1> HIDE DEF r
<1>2. /\ r \in Seq(Channel) /\ Len(r) = Len(l) /\ (IsInjective(l) => IsInjective(r))
      /\ Kept(r, Passing(f)) = Kept(l, Passing(f)) /\ Kept(r, Hidden(f)) = Kept(l, Hidden(f))
  BY <1>1 DEF Arrangements
<1>3. SortedTo(f, r, Len(r))
  BY <1>1, <1>2
<1>4. r = Kept(r, Passing(f)) \o Kept(r, Hidden(f))
  BY <1>2, <1>3, SortedSplits
<1>5. ASSUME NEW i \in DOMAIN r, NEW j \in DOMAIN r, i < j, PassFilter(f, r[j]) PROVE PassFilter(f, r[i])
  <2>1. DOMAIN r = 1..Len(r) /\ Len(r) \in Nat
    BY <1>2, LenProperties
  <2>2. i \in 1..Len(r) /\ j \in 1..Len(r) /\ i <= Len(r)
    BY <2>1
  <2> QED
    BY <1>3, <1>5, <2>2 DEF SortedTo
<1> QED
  BY <1>2, <1>4, <1>5 DEF Sorted, r

\* The channels are sorted by the lists in force.
LEMMA SortKeeps == ASSUME FilterIInv, NEW c \in Client, Sort(c) PROVE FilterIInv'
<1>1. /\ walking[c] = "sort" /\ channelReaders = {} /\ filterMutex' = (IF left THEN c ELSE Nobody)
      /\ edited' = FALSE /\ upToDate' = {} /\ walking' = [walking EXCEPT ![c] = "idle"]
      /\ UNCHANGED <<channelReaders, filterVars, walk, groups, edits>>
      /\ channels' = SortChannels(Filter, channels)
  BY DEF Sort
<1>2. Sorted(Filter, channels, channels')
  <2>1. channels \in Seq(Channel)
    BY DEF FilterIInv, FilterShape
  <2> QED
    BY <1>1, <2>1, SortChannelsIs
<1>3. FilterShape'
  <2>1. walking' \in [Client -> Walks \union {"idle", "sort", "epg"}]
    BY <1>1 DEF FilterIInv, FilterShape
  <2>2. \A d \in Client : (d \in channelReaders') = (walking'[d] \notin {"idle", "sort"})
    BY <1>1 DEF FilterIInv, FilterShape
  <2>3. /\ \A d \in Client : walking'[d] # "sort"
        /\ left' = left /\ filterMutex' \in Client \union {Nobody} /\ (left' => filterMutex' # Nobody)
        /\ \A d \in Client : filterMutex' = d => left'
    <3>1. filterMutex = c
      BY <1>1 DEF FilterIInv, FilterShape
    <3>2. \A d \in Client : d # c => walking[d] # "sort"
      BY <3>1 DEF FilterIInv, FilterShape
    <3>3. left' = left
      BY <1>1 DEF filterVars
    <3> QED
      BY <1>1, <3>2, <3>3, ClientAssumption DEF FilterIInv, FilterShape
  <2>4. channels' \in Seq(Channel) /\ IsInjective(channels')
    BY <1>2 DEF Sorted, FilterIInv, FilterShape
  <2> QED
    BY <1>1, <2>1, <2>2, <2>3, <2>4 DEF FilterIInv, FilterShape, filterVars
<1>4. FilterStored' /\ GroupsRight'
  BY <1>1 DEF FilterIInv, FilterStored, Loaded, GroupsRight, filterVars
<1>5. SortedFirst'
  BY <1>1, <1>2 DEF Sorted, SortedFirst, Passes, Filter, filterVars
<1> QED
  BY <1>3, <1>4, <1>5 DEF FilterIInv

\* Others add or delete a channel.
LEMMA EditListKeeps == ASSUME FilterIInv, EditList PROVE FilterIInv'
<1>1. channels \in Seq(Channel) /\ IsInjective(channels)
  BY DEF FilterIInv, FilterShape
<1>2. channels' \in Seq(Channel) /\ IsInjective(channels')
  <2>1. CASE \E i \in DOMAIN channels : channels' = RemoveAt(channels, i)
    <3>1. PICK i \in DOMAIN channels : channels' = RemoveAt(channels, i)
      BY <2>1
    <3>2. DOMAIN channels = 1..Len(channels) /\ Len(channels) \in Nat
      BY <1>1, LenProperties
    <3> DEFINE m == RemoveAt(channels, i)
    <3>3. /\ m \in Seq(Channel) /\ Len(m) \in Nat /\ Len(m) + 1 = Len(channels) /\ DOMAIN m = 1..Len(m)
          /\ \A j \in 1..Len(m) : m[j] = channels[IF j < i THEN j ELSE j + 1]
      BY <1>1, Removed
    <3> HIDE DEF m
    <3>4. ASSUME NEW a \in DOMAIN m, NEW b \in DOMAIN m, m[a] = m[b] PROVE a = b
      <4> DEFINE p == IF a < i THEN a ELSE a + 1
                 q == IF b < i THEN b ELSE b + 1
      <4>1. a \in 1..Len(m) /\ b \in 1..Len(m) /\ i \in 1..Len(channels)
        BY <3>2, <3>3
      <4>2. m[a] = channels[p] /\ m[b] = channels[q]
        BY <3>3, <4>1
      <4>3. p \in 1..Len(channels) /\ q \in 1..Len(channels) /\ (p = q => a = b)
        BY <3>2, <3>3, <4>1
      <4> HIDE DEF p, q
      <4>4. p = q
        BY <1>1, <3>2, <3>4, <4>2, <4>3 DEF IsInjective
      <4> QED
        BY <4>3, <4>4
    <3>5. IsInjective(m)
      BY <3>4 DEF IsInjective
    <3> QED
      BY <3>1, <3>3, <3>5 DEF m
  <2>2. CASE \E ch \in Channel \ Range(channels), i \in 1..(Len(channels) + 1) :
               channels' = InsertAt(channels, i, ch)
    <3>1. PICK ch \in Channel \ Range(channels), i \in 1..(Len(channels) + 1) :
            channels' = InsertAt(channels, i, ch)
      BY <2>2
    <3>2. DOMAIN channels = 1..Len(channels) /\ Len(channels) \in Nat
      BY <1>1, LenProperties
    <3> DEFINE m == InsertAt(channels, i, ch)
               n == Len(channels)
    <3>3. /\ m \in Seq(Channel) /\ DOMAIN m = 1..(n + 1)
          /\ \A j \in 1..(n + 1) :
               m[j] = IF j < i THEN channels[j] ELSE IF j = i THEN ch ELSE channels[j - 1]
      BY <1>1, Inserted
    <3>4. \A j \in 1..n : channels[j] # ch
      BY <1>1, SeqRange
    <3>5. \A a, b \in 1..n : channels[a] = channels[b] => a = b
      BY <1>1, <3>2 DEF IsInjective
    <3> HIDE DEF m
    <3>6. n \in Nat /\ i \in 1..(n + 1)
      BY <3>2
    <3> HIDE DEF n
    <3>7. ASSUME NEW a \in 1..(n + 1), NEW b \in 1..(n + 1), m[a] = m[b] PROVE a = b
      <4> DEFINE p == IF a < i THEN a ELSE a - 1
                 q == IF b < i THEN b ELSE b - 1
      <4>1. (a # i => p \in 1..n /\ m[a] = channels[p]) /\ (a = i => m[a] = ch)
        BY <3>3, <3>6
      <4>2. (b # i => q \in 1..n /\ m[b] = channels[q]) /\ (b = i => m[b] = ch)
        BY <3>3, <3>6
      <4>3. a # i /\ b # i /\ p = q => a = b
        BY <3>6
      <4> HIDE DEF p, q
      <4> QED
        BY <3>4, <3>5, <3>7, <4>1, <4>2, <4>3
    <3>8. IsInjective(m)
      BY <3>3, <3>7 DEF IsInjective
    <3> QED
      BY <3>1, <3>3, <3>8 DEF m
  <2> QED
    BY <2>1, <2>2 DEF EditList
<1>3. edits' \in 0..MaxEdits
  BY FilterAssumption DEF FilterIInv, FilterShape, EditList
<1>4. /\ edited' = TRUE /\ upToDate' = {}
      /\ UNCHANGED <<channelReaders, filterMutex, filterVars, clientVars>>
  BY DEF EditList
<1>5. FilterShape'
  BY <1>2, <1>3, <1>4 DEF FilterIInv, FilterShape, filterVars, clientVars
<1> QED
  BY <1>4, <1>5 DEF FilterIInv, FilterStored, Loaded, SortedFirst, GroupsRight, filterVars

\* The lists are what is loaded, and the channels are sorted by them.
LEMMA FilterRestartKeeps == ASSUME FilterIInv, FilterRestart PROVE FilterIInv'
<1>1. /\ files' = files /\ left' = FALSE /\ filterMutex' = Nobody
      /\ edited' = FALSE /\ upToDate' = {} /\ groups' = [c \in Client |-> NoGroups]
      /\ UNCHANGED <<channelReaders, walking, walk, edits>>
      /\ \A c \in Client : walking[c] = "idle"
      /\ channels' = SortChannels(Loaded(files), channels)
  BY DEF FilterRestart
<1>2. /\ white' = [r \in BOOLEAN |-> UNION {Parsed[e] : e \in files[1][r]}] /\ black' = files[2]
      /\ Filter' = Loaded(files)
  BY DEF FilterRestart, Loaded, Filter
<1>3. Sorted(Filter', channels, channels')
  <2>1. channels \in Seq(Channel)
    BY DEF FilterIInv, FilterShape
  <2> QED
    BY <1>1, <1>2, <2>1, SortChannelsIs
<1>4. FilterShape'
  <2>1. channels' \in Seq(Channel) /\ IsInjective(channels')
    BY <1>3 DEF Sorted, FilterIInv, FilterShape
  <2>2. ASSUME NEW r \in BOOLEAN PROVE white'[r] \subseteq Entry
    <3>1. \A e \in files[1][r] : Parsed[e] \subseteq Entry
      BY FilterAssumption DEF FilterIInv, FilterShape
    <3>2. white'[r] = UNION {Parsed[e] : e \in files[1][r]}
      BY <1>2
    <3> QED
      BY <3>1, <3>2
  <2>3. /\ DOMAIN white' = BOOLEAN /\ DOMAIN black' = BOOLEAN
        /\ \A r \in BOOLEAN : black'[r] \subseteq Channel
        /\ DOMAIN files'[1] = BOOLEAN /\ DOMAIN files'[2] = BOOLEAN
        /\ \A r \in BOOLEAN : files'[1][r] \subseteq Entry /\ files'[2][r] \subseteq Channel
    BY <1>1, <1>2 DEF FilterIInv, FilterShape
  <2>4. \A c \in Client : filterMutex' # c
    BY <1>1, ClientAssumption
  <2> QED
    BY <1>1, <2>1, <2>2, <2>3, <2>4 DEF FilterIInv, FilterShape
<1>5. FilterStored' /\ GroupsRight'
  BY <1>1, <1>2 DEF FilterStored, Loaded, GroupsRight
<1>6. SortedFirst'
  BY <1>3 DEF Sorted, SortedFirst, Passes
<1> QED
  BY <1>4, <1>5, <1>6 DEF FilterIInv

\* A step that changes nothing of the filter.
LEMMA FilterStutters == ASSUME FilterIInv, UNCHANGED channelVars PROVE FilterIInv'
<1>1. FilterShape'
  BY DEF FilterIInv, FilterShape, channelVars, filterVars, clientVars
<1>2. FilterStored' /\ SortedFirst' /\ GroupsRight'
  BY DEF FilterIInv, FilterStored, Loaded, SortedFirst, Passes, Filter, GroupsRight, channelVars, filterVars, clientVars
<1> QED
  BY <1>1, <1>2 DEF FilterIInv

\* All steps of a client.
LEMMA FilterStepKeeps == ASSUME FilterIInv, NEW c \in Client, FilterStep(c) PROVE FilterIInv'
  BY GetChannelsKeeps, GetGroupMembersKeeps, NextChannelKeeps, EndWalkKeeps, GroupsCountKeeps,
     SetListKeeps, SetShortKeeps, SortKeeps DEF FilterStep

-----------------------------------------------------------------------------
(* What follows from it.                                                        *)

\* The filter's part of the server alone has no notices of the EPG.
NoEpg == \A c \in Client : walking[c] # "epg"

\* No step of the filter's part changes that.
LEMMA NoEpgKept == ASSUME FilterIInv, NoEpg, [FilterNext]_channelVars PROVE NoEpg'
<1>1. walking \in [Client -> Walks \union {"idle", "sort", "epg"}]
  BY DEF FilterIInv, FilterShape
<1>2. ASSUME NEW c \in Client, GetChannels(c) \/ GetGroupMembers(c) PROVE NoEpg'
  <2>1. \E what \in {"channels", "allChannels", "members"} : walking' = [walking EXCEPT ![c] = what]
    BY <1>2 DEF GetChannels, GetGroupMembers, BeginWalk
  <2> QED
    BY <1>1, <2>1 DEF NoEpg
<1>3. ASSUME NEW c \in Client, EndWalk(c) \/ SetWhitelist(c) \/ SetBlacklist(c) \/ Sort(c) PROVE NoEpg'
  BY <1>1, <1>3 DEF NoEpg, EndWalk, SetWhitelist, SetBlacklist, Sort
<1>4. ASSUME UNCHANGED walking PROVE NoEpg'
  BY <1>4 DEF NoEpg
<1>5. ASSUME NEW c \in Client, NextChannel(c) \/ GroupsCount(c) \/ SetShort(c) PROVE UNCHANGED walking
  BY <1>5 DEF NextChannel, GroupsCount, SetShort, clientVars
<1>6. ASSUME EditList \/ FilterRestart \/ UNCHANGED channelVars PROVE UNCHANGED walking
  BY <1>6 DEF EditList, FilterRestart, channelVars, clientVars
<1> QED
  BY <1>2, <1>3, <1>4, <1>5, <1>6 DEF FilterNext, FilterStep

\* Where nothing goes on and the mutex was not left locked, it is held by a client that sorts,
\* and a reader waits for it.
LEMMA BlockedInCycle == FilterIInv /\ NoEpg => FilterBlocked
<1> SUFFICES ASSUME FilterIInv, NoEpg, NEW c \in Client, walking[c] # "idle",
                    \A d \in Client : ~FilterGoesOn(d), ~left
             PROVE  FilterCycle
  BY DEF FilterBlocked
<1>1. \A d \in Client : walking[d] \in Walks \union {"idle", "sort"}
  BY DEF FilterIInv, FilterShape, NoEpg
<1>2. \A d \in Client : (filterMutex = d) <=> (walking[d] = "sort")
  BY DEF FilterIInv, FilterShape
<1>3. \A d \in Client : (d \in channelReaders) = (walking[d] \notin {"idle", "sort"})
  BY DEF FilterIInv, FilterShape
<1>4. ASSUME NEW d \in Client, d \in channelReaders
      PROVE  filterMutex # Nobody /\ walking[d] # "allChannels" /\ walk[d] # << >>
  <2>1. walking[d] \in Walks
    BY <1>1, <1>3, <1>4
  <2> QED
    BY <2>1 DEF FilterGoesOn, Free
<1>5. \E e \in Client : filterMutex = e /\ walking[e] = "sort"
  <2>1. CASE walking[c] = "sort"
    BY <1>2, <2>1
  <2>2. CASE walking[c] # "sort"
    <3>1. c \in channelReaders
      BY <1>3, <2>2
    <3>2. filterMutex \in Client
      BY <1>4, <3>1 DEF FilterIInv, FilterShape
    <3> QED
      BY <1>2, <3>2
  <2> QED
    BY <2>1, <2>2
<1>6. PICK e \in Client : filterMutex = e /\ walking[e] = "sort"
  BY <1>5
<1>7. channelReaders # {} /\ channelReaders \subseteq Client
  BY <1>6 DEF FilterGoesOn, FilterIInv, FilterShape
<1>8. PICK d \in Client : d \in channelReaders
  BY <1>7
<1> QED
  BY <1>4, <1>6, <1>8 DEF FilterCycle

\* A channel stands in one place, and the name there is the one group that it is in.
LEMMA OneGroup == FilterIInv => GroupsComplete
<1> SUFFICES ASSUME FilterIInv, NEW c \in upToDate, NEW i \in DOMAIN channels,
                    ~Info[channels[i]].sep, ~Info[channels[i]].obsolete,
                    NameAt(channels, i, groups[c].automatic) # ""
             PROVE  Cardinality({name \in GroupList(c, Info[channels[i]].radio) :
                      channels[i] \in Range(Members(channels, name, Info[channels[i]].radio, groups[c].automatic))}) = 1
  BY DEF GroupsComplete
<1> DEFINE l == channels
           ch == channels[i]
           radio == Info[ch].radio
           auto == groups[c].automatic
           n == NameAt(l, i, auto)
           in(name) == ch \in Range(Members(l, name, radio, auto))
           names == {name \in GroupList(c, radio) : in(name)}
<1>1. l \in Seq(Channel) /\ IsInjective(l) /\ DOMAIN l = 1..Len(l)
  BY LenProperties, ZenonT(30) DEF FilterIInv, FilterShape
<1>2. ch \in Channel /\ ch \in Range(l) /\ radio \in BOOLEAN
  <2>1. ch \in Range(l)
    BY DEF Range
  <2>2. ch \in Channel
    BY <1>1, <2>1, SeqRange
  <2> QED
    BY <2>1, <2>2, FilterAssumption
<1>3. (CHOOSE j \in 1..Len(l) : l[j] = ch) = i
  <2>1. i \in 1..Len(l)
    BY <1>1
  <2>2. \A j \in 1..Len(l) : l[j] = ch => j = i
    BY <1>1 DEF IsInjective
  <2> QED
    BY <2>1, <2>2
<1>4. ASSUME NEW name PROVE in(name) <=> (name # "" /\ name = n)
  <2> DEFINE S == {x \in Channel :
                /\ ~Info[x].sep /\ ~Info[x].obsolete /\ Info[x].radio = radio
                /\ name # "" /\ x \in Range(l)
                /\ NameAt(l, CHOOSE j \in 1..Len(l) : l[j] = x, auto) = name}
  <2>1. Members(l, name, radio, auto) = Kept(l, S)
    BY DEF Members
  <2>2. ch \in S <=> (name # "" /\ name = n)
    BY <1>2, <1>3
  <2> HIDE DEF S
  <2>3. Range(Kept(l, S)) = Range(l) \intersect S
    BY <1>1, KeptType
  <2> QED
    BY <1>2, <2>1, <2>2, <2>3
<1>5. GroupList(c, radio) = {NameAt(l, j, auto) : j \in {j \in 1..Len(l) : Info[l[j]].radio = radio}} \ {""}
  <2>1. groups[c].names = CreateChannelGroups(l, auto)
    BY DEF FilterIInv, GroupsRight
  <2> QED
    BY <1>2, <2>1 DEF GroupList, CreateChannelGroups
<1>6. n \in GroupList(c, radio)
  <2>1. i \in {j \in 1..Len(l) : Info[l[j]].radio = radio}
    BY <1>1
  <2> QED
    BY <1>5, <2>1
<1>7. names = {n}
  <2>1. n # ""
    OBVIOUS
  <2> HIDE DEF in, n
  <2>2. in(n) /\ \A name : in(name) => name = n
    BY <1>4, <2>1
  <2> QED
    BY <1>6, <2>2
<1>8. Cardinality({n}) = 1
  BY FS_Singleton
<1> QED
  BY <1>7, <1>8

\* VDR's list is sorted by the lists in force, and these are stored, but for how a line is read
\* (channelfilter.c:74-235, 297-345), every channel with a group is a member of one of those the
\* client was told of (vnsiclient.c:1221), and requests are blocked only by the order of the
\* filter's mutex and VDR's channels or by a mutex that a request left locked (vnsiclient.c:1357,
\* 1386): for any number of clients, any channels and lists and any way to read a line.
THEOREM FilterIsSafe == FilterSpec => []FilterInv
<1>1. FilterInit => NoEpg
  BY DEF FilterInit, NoEpg
<1>2. FilterIInv /\ NoEpg /\ [FilterNext]_channelVars => FilterIInv' /\ NoEpg'
  BY NoEpgKept, FilterStepKeeps, EditListKeeps, FilterRestartKeeps, FilterStutters DEF FilterNext
<1>3. FilterIInv /\ NoEpg => FilterInv
  BY ShapeIsType, BlockedInCycle, OneGroup DEF FilterIInv, FilterInv
<1> QED
  BY <1>1, <1>2, <1>3, FilterInitIInv, PTL DEF FilterSpec

\* What SortIsStable says of a step.
StableStep ==
  channels' # channels /\ edits' = edits =>
    channels' = Kept(channels, {ch \in Channel : Passes(ch)'}) \o Kept(channels, {ch \in Channel : ~Passes(ch)'})

\* What has been sorted is a stable partition.
LEMMA SortedIsStable ==
  ASSUME NEW f, Filter' = f, Sorted(f, channels, channels') PROVE StableStep
<1>1. {ch \in Channel : Passes(ch)'} = Passing(f) /\ {ch \in Channel : ~Passes(ch)'} = Hidden(f)
  BY DEF Passes, Passing, Hidden
<1> QED
  BY <1>1 DEF Sorted, StableStep

\* Only sorting changes the list where nobody edits it.
LEMMA FilterStepIsStable == FilterIInv /\ [FilterNext]_channelVars => StableStep
<1> SUFFICES ASSUME FilterIInv, [FilterNext]_channelVars PROVE StableStep
  OBVIOUS
<1>1. channels \in Seq(Channel) /\ edits \in Nat
  BY FilterAssumption DEF FilterIInv, FilterShape
<1>2. ASSUME UNCHANGED channels PROVE StableStep
  BY <1>2 DEF StableStep
<1>3. ASSUME NEW c \in Client, Sort(c) PROVE StableStep
  <2>1. Filter' = Filter /\ channels' = SortChannels(Filter, channels)
    BY <1>3 DEF Sort, Filter, filterVars
  <2> QED
    BY <1>1, <2>1, SortChannelsIs, SortedIsStable
<1>4. ASSUME FilterRestart PROVE StableStep
  <2>1. Filter' = Loaded(files) /\ channels' = SortChannels(Loaded(files), channels)
    BY <1>4 DEF FilterRestart, Filter, Loaded
  <2> QED
    BY <1>1, <2>1, SortChannelsIs, SortedIsStable
<1>5. ASSUME EditList PROVE StableStep
  <2>1. edits' = edits + 1 /\ edits + 1 # edits
    BY <1>1, <1>5 DEF EditList
  <2> QED
    BY <2>1 DEF StableStep
<1>6. ASSUME NEW c \in Client, FilterStep(c), ~Sort(c) PROVE UNCHANGED channels
  BY <1>6 DEF FilterStep, GetChannels, GetGroupMembers, NextChannel, EndWalk, GroupsCount, SetWhitelist, SetBlacklist, SetShort
<1>7. ASSUME UNCHANGED channelVars PROVE UNCHANGED channels
  BY <1>7 DEF channelVars
<1> QED
  BY <1>2, <1>3, <1>4, <1>5, <1>6, <1>7 DEF FilterNext

\* Sorting is a stable partition (channelfilter.c:297, SortChannels): the loop that moves
\* channels while it walks over them passes none over and keeps the order among those that pass
\* and among those that do not, for every list of channels.
THEOREM SortingIsStable == FilterSpec => SortIsStable
<1>1. FilterIInv /\ [FilterNext]_channelVars => FilterIInv'
  BY FilterStepKeeps, EditListKeeps, FilterRestartKeeps, FilterStutters DEF FilterNext
<1>2. FilterSpec => []FilterIInv
  BY <1>1, FilterInitIInv, PTL DEF FilterSpec
<1>3. FilterIInv /\ [FilterNext]_channelVars => [StableStep]_<<channels, edits>>
  BY FilterStepIsStable
<1>4. FilterSpec => [][StableStep]_<<channels, edits>>
  BY <1>2, <1>3, PTL DEF FilterSpec
<1> QED
  BY <1>4, PTL DEF SortIsStable, StableStep

-----------------------------------------------------------------------------
(* The notices of changes of the EPG.                                           *)

EpgUpdate == [attempts : 0..4, lastEvent : 0..MaxLast, recent : BOOLEAN]

EpgShape ==
  /\ last \in [Channel -> 0..MaxLast] /\ notice \in SUBSET Client
  /\ known \in [Client -> SUBSET Channel] /\ epg \in [Client -> [Channel -> EpgUpdate]]

EpgIInv == FilterIInv /\ EpgShape

\* The type invariant.
LEMMA EpgIInvImplies == EpgIInv => EpgTypeOK
  BY ShapeIsType DEF EpgIInv, FilterIInv, EpgShape, EpgTypeOK, EpgUpdate

\* Nothing is known at first.
LEMMA EpgInitIInv == EpgInit => EpgIInv
<1> SUFFICES ASSUME EpgInit PROVE EpgIInv
  OBVIOUS
<1>1. 0 \in 0..MaxLast /\ 0 \in 0..4
  BY EpgAssumption
<1>2. NoUpdate \in EpgUpdate
  BY <1>1 DEF NoUpdate, EpgUpdate
<1>3. EpgShape
  BY <1>1, <1>2 DEF EpgInit, EpgShape
<1> QED
  BY <1>3, FilterInitIInv DEF EpgInit, EpgIInv

\* An entry that is changed is an entry.
LEMMA EpgPut ==
  ASSUME EpgShape, NEW c \in Client, NEW ch \in Channel, NEW u \in EpgUpdate,
         epg' = [epg EXCEPT ![c][ch] = u]
  PROVE  epg' \in [Client -> [Channel -> EpgUpdate]]
<1>1. epg \in [Client -> [Channel -> EpgUpdate]]
  BY DEF EpgShape
<1>2. [epg[c] EXCEPT ![ch] = u] \in [Channel -> EpgUpdate]
  BY <1>1
<1>3. epg' = [epg EXCEPT ![c] = [epg[c] EXCEPT ![ch] = u]]
  BY <1>1
<1> QED
  BY <1>1, <1>2, <1>3

\* The channel a walk comes to next.
LEMMA HeadIsChannel ==
  ASSUME FilterIInv, NEW c \in Client, walk[c] # << >>
  PROVE  walk[c] \in Seq(Channel) /\ Head(walk[c]) \in Channel /\ Tail(walk[c]) \in Seq(Channel)
<1>1. walk[c] \in Seq(Channel)
  BY DEF FilterIInv, FilterShape
<1> QED
  BY <1>1, HeadTailProperties

\* A channel that is listed gets an entry.
LEMMA ListChannelKeeps == ASSUME EpgIInv, NEW c \in Client, ListChannel(c) PROVE EpgIInv'
<1>1. FilterIInv'
  BY NextChannelKeeps DEF EpgIInv, ListChannel
<1>2. Head(walk[c]) \in Channel
  BY HeadIsChannel DEF EpgIInv, ListChannel, NextChannel
<1>3. EpgShape'
  BY <1>2 DEF EpgIInv, EpgShape, ListChannel
<1> QED
  BY <1>1, <1>3 DEF EpgIInv

\* The notice's walk over the schedules begins.
LEMMA EpgLockKeeps == ASSUME EpgIInv, NEW c \in Client, EpgLock(c) PROVE EpgIInv'
<1> DEFINE S == {ch \in Range(channels) : last[ch] # 0}
<1>1. Kept(Schedules, S) \in Seq(Channel)
  <2>1. Schedules \in Seq(Channel)
    BY EpgAssumption
  <2> HIDE DEF S
  <2> QED
    BY <2>1, KeptType
<1>2. BeginWalk(c, "epg", Kept(Schedules, S)) /\ WalkLeaves /\ walking[c] = "idle"
  BY DEF EpgLock, WalkLeaves
<1> HIDE DEF S
<1>3. FilterIInv'
  BY <1>1, <1>2, BeginWalkKeeps DEF EpgIInv
<1>4. EpgShape'
  BY DEF EpgIInv, EpgShape, EpgLock
<1> QED
  BY <1>3, <1>4 DEF EpgIInv

\* A channel is told, which is counted.
LEMMA EpgTriggerKeeps == ASSUME EpgIInv, NEW c \in Client, EpgTrigger(c) PROVE EpgIInv'
<1> DEFINE ch == Head(walk[c])
           u == epg[c][ch]
<1>1. ch \in Channel
  BY HeadIsChannel DEF EpgIInv, EpgTrigger
<1>2. u \in EpgUpdate /\ u.attempts <= 3 /\ epg' = [epg EXCEPT ![c][ch] = Triggered(u)]
  <2>1. epg \in [Client -> [Channel -> EpgUpdate]]
    BY DEF EpgIInv, EpgShape
  <2>2. u.attempts <= 3
    BY DEF EpgTrigger, Due
  <2> HIDE DEF ch
  <2>3. u \in EpgUpdate
    BY <1>1, <2>1
  <2>4. epg' = [epg EXCEPT ![c][ch] = Triggered(u)]
    BY <2>1 DEF EpgTrigger, Triggered, ch
  <2> QED
    BY <2>2, <2>3, <2>4
<1> HIDE DEF ch, u
<1>3. Triggered(u) \in EpgUpdate
  <2>1. u.attempts + 1 \in 0..4
    BY <1>2 DEF EpgUpdate
  <2> QED
    BY <1>2, <2>1 DEF EpgUpdate, Triggered
<1>4. epg' \in [Client -> [Channel -> EpgUpdate]]
  BY <1>1, <1>2, <1>3, EpgPut DEF EpgIInv
<1>5. FilterIInv'
  <2>1. << >> \in Seq(Channel)
    BY EmptySeq
  <2>2. WalkLeaves /\ walk' = [walk EXCEPT ![c] = << >>] /\ UNCHANGED <<walking, channelReaders>>
    BY DEF EpgTrigger, WalkLeaves
  <2> QED
    BY <2>1, <2>2, GoOnWalkKeeps DEF EpgIInv
<1>6. EpgShape'
  BY <1>4 DEF EpgIInv, EpgShape, EpgTrigger
<1> QED
  BY <1>5, <1>6 DEF EpgIInv

\* A channel is passed over.
LEMMA EpgPassKeeps == ASSUME EpgIInv, NEW c \in Client, EpgPass(c) PROVE EpgIInv'
<1>1. Tail(walk[c]) \in Seq(Channel)
  BY HeadIsChannel DEF EpgIInv, EpgPass
<1>2. WalkLeaves /\ walk' = [walk EXCEPT ![c] = Tail(walk[c])] /\ UNCHANGED <<walking, channelReaders>>
  BY DEF EpgPass, WalkLeaves
<1>3. FilterIInv'
  BY <1>1, <1>2, GoOnWalkKeeps DEF EpgIInv
<1>4. EpgShape'
  BY DEF EpgIInv, EpgShape, EpgPass, epgVars
<1> QED
  BY <1>3, <1>4 DEF EpgIInv

\* The walk ends.
LEMMA EpgUnlockKeeps == ASSUME EpgIInv, NEW c \in Client, EpgUnlock(c) PROVE EpgIInv'
<1>1. WalkLeaves /\ UNCHANGED walk /\ walking[c] \notin {"idle", "sort"}
  BY DEF EpgUnlock, WalkLeaves
<1>2. FilterIInv'
  BY <1>1, LeaveWalkKeeps DEF EpgIInv, EpgUnlock
<1>3. EpgShape'
  BY DEF EpgIInv, EpgShape, EpgUnlock, epgVars
<1> QED
  BY <1>2, <1>3 DEF EpgIInv

\* The client fetches a schedule, and counting starts anew.
LEMMA EpgGetKeeps == ASSUME EpgIInv, NEW c \in Client, EpgGet(c) PROVE EpgIInv'
<1>1. PICK ch \in Range(Schedules) \intersect Range(channels) :
        /\ known' = [known EXCEPT ![c] = @ \union {ch}]
        /\ epg' = [epg EXCEPT ![c][ch] = [@ EXCEPT !.lastEvent = last[ch], !.attempts = 0]]
  BY DEF EpgGet
<1>2. ch \in Channel
  BY EpgAssumption, SeqRange
<1> DEFINE u == [epg[c][ch] EXCEPT !.lastEvent = last[ch], !.attempts = 0]
<1>3. u \in EpgUpdate /\ epg' = [epg EXCEPT ![c][ch] = u]
  <2>1. epg[c][ch] \in EpgUpdate /\ last[ch] \in 0..MaxLast /\ 0 \in 0..4
    BY <1>2 DEF EpgIInv, EpgShape
  <2>2. u \in EpgUpdate
    BY <2>1 DEF EpgUpdate
  <2>3. epg' = [epg EXCEPT ![c][ch] = u]
    BY <1>1, <1>2 DEF EpgIInv, EpgShape
  <2> QED
    BY <2>2, <2>3
<1> HIDE DEF u
<1>4. epg' \in [Client -> [Channel -> EpgUpdate]]
  BY <1>2, <1>3, EpgPut DEF EpgIInv
<1>5. FilterIInv'
  BY FilterStutters DEF EpgIInv, EpgGet
<1>6. EpgShape'
  BY <1>1, <1>2, <1>4 DEF EpgIInv, EpgShape, EpgGet
<1> QED
  BY <1>5, <1>6 DEF EpgIInv

\* Time passes.
LEMMA TickKeeps == ASSUME EpgIInv, NEW c \in Client, NEW ch \in Channel, Tick(c, ch) PROVE EpgIInv'
<1> DEFINE u == [epg[c][ch] EXCEPT !.recent = FALSE]
<1>1. u \in EpgUpdate /\ epg' = [epg EXCEPT ![c][ch] = u]
  <2>1. epg[c][ch] \in EpgUpdate
    BY DEF EpgIInv, EpgShape
  <2>2. u \in EpgUpdate
    BY <2>1 DEF EpgUpdate
  <2>3. epg' = [epg EXCEPT ![c][ch] = u]
    BY DEF EpgIInv, EpgShape, Tick
  <2> QED
    BY <2>2, <2>3
<1> HIDE DEF u
<1>2. epg' \in [Client -> [Channel -> EpgUpdate]]
  BY <1>1, EpgPut DEF EpgIInv
<1>3. FilterIInv'
  BY FilterStutters DEF EpgIInv, Tick
<1>4. EpgShape'
  BY <1>2 DEF EpgIInv, EpgShape, Tick
<1> QED
  BY <1>3, <1>4 DEF EpgIInv

\* VDR's side: its schedules grow, and the status thread queues a notice.
LEMMA EpgOutsideKeeps ==
  ASSUME EpgIInv, EpgGrows \/ \E c \in Client : Notice(c) PROVE EpgIInv'
<1>1. FilterIInv'
  BY FilterStutters DEF EpgIInv, EpgGrows, Notice
<1>2. CASE EpgGrows
  <2>1. PICK ch \in Range(Schedules), n \in 1..MaxLast : last' = [last EXCEPT ![ch] = n]
    BY <1>2 DEF EpgGrows
  <2>2. ch \in Channel /\ n \in 0..MaxLast
    BY EpgAssumption, SeqRange
  <2>3. last' \in [Channel -> 0..MaxLast]
    BY <2>1, <2>2 DEF EpgIInv, EpgShape
  <2> QED
    BY <1>1, <1>2, <2>3 DEF EpgIInv, EpgShape, EpgGrows
<1>3. CASE \E c \in Client : Notice(c)
  BY <1>1, <1>3 DEF EpgIInv, EpgShape, Notice
<1> QED
  BY <1>2, <1>3

\* The filter's own steps.
LEMMA FilterOnlyKeeps == ASSUME EpgIInv, FilterOnly PROVE EpgIInv'
<1>1. FilterIInv'
  BY GetChannelsKeeps, GetGroupMembersKeeps, EndWalkKeeps, GroupsCountKeeps, SetListKeeps, SetShortKeeps, SortKeeps,
     EditListKeeps DEF EpgIInv, FilterOnly
<1>2. EpgShape'
  BY DEF EpgIInv, EpgShape, FilterOnly, epgVars
<1> QED
  BY <1>1, <1>2 DEF EpgIInv

\* The server starts anew.
LEMMA EpgRestartKeeps == ASSUME EpgIInv, EpgRestart PROVE EpgIInv'
<1>1. FilterIInv'
  BY FilterRestartKeeps DEF EpgIInv, EpgRestart
<1>2. NoUpdate \in EpgUpdate
  <2>1. 0 \in 0..MaxLast /\ 0 \in 0..4
    BY EpgAssumption
  <2> QED
    BY <2>1 DEF NoUpdate, EpgUpdate
<1>3. EpgShape'
  BY <1>2 DEF EpgIInv, EpgShape, EpgRestart
<1> QED
  BY <1>1, <1>3 DEF EpgIInv

\* A step that changes nothing of it.
LEMMA EpgStutters == ASSUME EpgIInv, UNCHANGED allEpgVars PROVE EpgIInv'
<1>1. FilterIInv'
  BY FilterStutters DEF EpgIInv, allEpgVars
<1>2. EpgShape'
  BY DEF EpgIInv, EpgShape, allEpgVars, epgVars
<1> QED
  BY <1>1, <1>2 DEF EpgIInv

\* All steps.
LEMMA EpgNextKeeps == ASSUME EpgIInv, EpgNext PROVE EpgIInv'
<1>1. ASSUME NEW c \in Client, EpgStep(c) PROVE EpgIInv'
  BY <1>1, ListChannelKeeps, EpgLockKeeps, EpgTriggerKeeps, EpgPassKeeps, EpgUnlockKeeps, EpgGetKeeps,
     TickKeeps, EpgOutsideKeeps DEF EpgStep
<1> QED
  BY <1>1, EpgOutsideKeeps, FilterOnlyKeeps, EpgRestartKeeps DEF EpgNext

-----------------------------------------------------------------------------
(* All that clients are told unasked.                                           *)

NoticesIInv == ScanIInv /\ EpgIInv

\* A step of one part leaves the other alone.
LEMMA NoticesStep == NoticesIInv /\ [NoticesNext]_noticeVars => NoticesIInv'
<1> SUFFICES ASSUME NoticesIInv, [NoticesNext]_noticeVars PROVE NoticesIInv'
  OBVIOUS
<1>1. CASE ScanPart(ScanNext)
  <2>1. ScanIInv'
    BY <1>1, ScanNextKeeps DEF NoticesIInv, ScanPart
  <2>2. EpgIInv'
    BY <1>1, EpgStutters DEF NoticesIInv, ScanPart
  <2> QED
    BY <2>1, <2>2 DEF NoticesIInv
<1>2. CASE EpgPart(EpgNext)
  <2>1. ScanIInv'
    BY <1>2, ScanStutters DEF NoticesIInv, EpgPart
  <2>2. EpgIInv'
    BY <1>2, EpgNextKeeps DEF NoticesIInv, EpgPart
  <2> QED
    BY <2>1, <2>2 DEF NoticesIInv
<1>3. CASE UNCHANGED noticeVars
  <2>1. UNCHANGED scanVars /\ UNCHANGED allEpgVars
    BY <1>3 DEF noticeVars
  <2> QED
    BY <2>1, ScanStutters, EpgStutters DEF NoticesIInv
<1> QED
  BY <1>1, <1>2, <1>3 DEF NoticesNext

\* While the scanner runs changes are held back, no session leaves its polling thread behind
\* (channelscancontrol.c), and a client is told of a channel of the EPG four times at most until
\* it fetches it (vnsiclient.c:330): for any number of clients, scans, channels and events.
THEOREM NoticesAreSafe == NoticesSpec => []NoticesInv
<1>1. NoticesInit => NoticesIInv
  BY ScanInitIInv, EpgInitIInv DEF NoticesInit, NoticesIInv
<1>2. NoticesIInv => NoticesInv
  BY ScanIInvImplies, EpgIInvImplies DEF NoticesIInv, NoticesInv
<1> QED
  BY <1>1, <1>2, NoticesStep, PTL DEF NoticesSpec

=============================================================================
