--------------------------- MODULE RankingProofs ---------------------------
(***************************************************************************)
(* Theorems about Ranking, for every query, reply and environment: the     *)
(* quotas of the schedule, what the diversity pass does to it, and that    *)
(* from the backend's replies to the answer nothing is lost or doubled.    *)
(***************************************************************************)
EXTENDS Ranking, SequenceTheorems, FiniteSetTheorems, WellFoundedInduction, TLAPS

\* A sequence, of whatever it has.
IsList(s) == s \in Seq(ToSet(s))

\* The limits that Load leaves are those of the code.
SettingsOK ==
  /\ settings.maxResults \in 1..50
  /\ {settings.percent, settings.weakPercent} \subseteq 0..100
  /\ settings.percent <= settings.weakPercent

\* Before the diversity pass nothing is placed; during it every scheduled result
\* is placed or remains, and their number does not change.
PassOK ==
  /\ pc \in {"ask", "fallback", "merge"} => scheduled = <<>>
  /\ pc \notin {"diversify", "done"} => remaining = <<>> /\ out = <<>>
  /\ pc \in {"diversify", "done"} =>
       /\ ToSet(out) \cup ToSet(remaining) = ToSet(scheduled)
       /\ Len(out) + Len(remaining) = Len(scheduled)
  /\ pc = "done" => remaining = <<>> \/ Len(out) = settings.maxResults

\* Place k of the schedule has a result of its lane, or has lost one to the first
\* page, where it is among the videos placed.
KeepsLane(r, k, placed) ==
  \/ SameLane(r, scheduled[k])
  \/ \E n \in 1..Len(placed) :
       n <= FirstPage /\ ExactVideo(placed[n]) /\ SameLane(placed[n], scheduled[k])

\* What remains keeps the lanes of the places it is due for.
SlotsOK ==
  /\ LanesMoveForVideos
  /\ pc \in {"diversify", "done"} =>
       \A k \in 1..Len(remaining) : KeepsLane(remaining[k], Len(out) + k, out)

RankInv ==
  /\ SettingsOK /\ PassOK
  /\ IsList(scheduled) /\ IsList(remaining) /\ IsList(out)
  /\ Len(out) <= settings.maxResults
  /\ SlotsOK

-----------------------------------------------------------------------------
(* Sequences                                                               *)

\* The least-number principle.
LEMMA Least ==
  ASSUME NEW S \in SUBSET Nat, S # {}
  PROVE  Min(S) \in S /\ \A n \in S : Min(S) <= n
  <1> DEFINE R == OpToRel(<, Nat)
  <1>1. \A m, n \in Nat : m < n => <<m, n>> \in R
    BY DEF OpToRel
  <1>2. IsWellFoundedOn(R, Nat)
    BY NatLessThanWellFounded
  <1> HIDE DEF R
  <1>3. PICK m \in S : \A n \in S : ~ (<<n, m>> \in R)
    BY <1>2, WFMin
  <1>4. ASSUME NEW n \in S PROVE m <= n
    <2>1. ~ (n < m)
      BY <1>1, <1>3, Zenon
    <2>2. m \in Nat /\ n \in Nat
      OBVIOUS
    <2>3. QED
      BY <2>1, <2>2
  <1>5. QED
    BY <1>4 DEF Min

\* The places of a list and what is in them.
LEMMA ListFacts ==
  ASSUME NEW s, IsList(s)
  PROVE  /\ Len(s) \in Nat /\ DOMAIN s = 1..Len(s)
         /\ \A i \in 1..Len(s) : s[i] \in ToSet(s)
         /\ \A r \in ToSet(s) : \E i \in 1..Len(s) : r = s[i]
         /\ s = <<>> <=> Len(s) = 0
  BY DEF IsList, ToSet

\* Any sequence is one of what it has.
LEMMA SelfList ==
  ASSUME NEW S, NEW s \in Seq(S)
  PROVE  s \in Seq(ToSet(s))
  <1>1. Len(s) \in Nat /\ DOMAIN s = 1..Len(s)
    BY LenProperties
  <1>2. \A i \in 1..Len(s) : s[i] \in ToSet(s)
    BY <1>1 DEF ToSet
  <1>3. s = [i \in 1..Len(s) |-> s[i]]
    BY <1>1
  <1>4. QED
    BY <1>1, <1>2, <1>3

\* The list of nothing.
LEMMA EmptyList == IsList(<<>>) /\ ToSet(<<>>) = {} /\ Len(<<>>) = 0
  BY DEF IsList, ToSet

\* One more at the end of a list.
LEMMA AppendFacts ==
  ASSUME NEW s, IsList(s), NEW x
  PROVE  LET t == Append(s, x)
         IN  /\ IsList(t) /\ t # <<>> /\ Len(t) = Len(s) + 1
             /\ ToSet(t) = ToSet(s) \cup {x}
             /\ Last(t) = x /\ Front(t) = s
  <1> DEFINE S == ToSet(s) \cup {x}
             t == Append(s, x)
  <1>1. s \in Seq(S) /\ x \in S
    BY SeqMonotonic DEF IsList
  <1>2. /\ t \in Seq(S) /\ Len(t) = Len(s) + 1 /\ Len(s) \in Nat
        /\ \A i \in 1..Len(t) : t[i] = IF i <= Len(s) THEN s[i] ELSE x
    BY <1>1
  <1> HIDE DEF t
  <1>3. DOMAIN t = 1..Len(t) /\ DOMAIN s = 1..Len(s)
    BY <1>1, <1>2
  <1>4. ToSet(t) = S
    <2>1. \A i \in DOMAIN s : i \in DOMAIN t /\ t[i] = s[i]
      BY <1>2, <1>3
    <2>2. Len(t) \in DOMAIN t /\ t[Len(t)] = x
      BY <1>2, <1>3
    <2>3. \A i \in DOMAIN t : t[i] # x => i \in DOMAIN s /\ t[i] = s[i]
      BY <1>2, <1>3
    <2>4. QED
      BY <2>1, <2>2, <2>3 DEF ToSet
  <1>5. Last(t) = x
    BY <1>2 DEF Last
  <1>6. Front(t) = s
    <2>1. Len(t) - 1 = Len(s)
      BY <1>2
    <2> DEFINE f == SubSeq(t, 1, Len(s))
    <2>2. \A i \in 1..Len(s) : t[i] \in S
      BY <1>1, <1>2
    <2>3. /\ f \in Seq(S) /\ Len(f) = Len(s)
          /\ \A i \in 1..Len(s) : f[i] = t[i]
      BY <1>2, <2>2, SubSeqProperties
    <2>4. \A i \in 1..Len(s) : t[i] = s[i]
      BY <1>2
    <2> HIDE DEF f
    <2>5. f = s
      BY <1>1, <2>3, <2>4, SeqEqual
    <2>6. QED
      BY <2>1, <2>5 DEF Front, f
  <1>7. QED
    BY <1>2, <1>4, <1>5, <1>6 DEF IsList, t

\* What is left of a list moves down, and its head takes the free place.
LEMMA WithoutPlaces ==
  ASSUME NEW s, IsList(s), NEW i \in 1..Len(s)
  PROVE  LET t == Without(s, i)
         IN  /\ t \in Seq(ToSet(s)) /\ Len(t) = Len(s) - 1 /\ DOMAIN t = 1..(Len(s) - 1)
             /\ \A j \in DOMAIN t : t[j] = IF j + 1 = i THEN s[1] ELSE s[j + 1]
  <1> DEFINE S == ToSet(s)
             n == Len(s)
             u == ReplaceAt(s, i, s[1])
             t == Tail(u)
  <1>1. s \in Seq(S) /\ n \in Nat /\ n > 0 /\ 1 \in 1..n /\ DOMAIN s = 1..n /\ s[1] \in S
    BY ListFacts DEF IsList
  <1>2. /\ u \in Seq(S) /\ Len(u) = n
        /\ \A j \in 1..n : u[j] = IF j = i THEN s[1] ELSE s[j]
    BY <1>1, ExceptSeq DEF ReplaceAt
  <1> HIDE DEF u
  <1>3. u # <<>>
    BY <1>1, <1>2
  <1>4. /\ t \in Seq(S) /\ Len(t) = n - 1
        /\ \A j \in 1..(n - 1) : t[j] = u[j + 1]
    <2>1. /\ t \in Seq(S) /\ Len(t) = Len(u) - 1
          /\ \A j \in 1..Len(t) : t[j] = u[j + 1]
      BY <1>2, <1>3, HeadTailProperties, ZenonT(30)
    <2> HIDE DEF t
    <2>2. QED
      BY <1>2, <2>1
  <1> HIDE DEF t
  <1>5. DOMAIN t = 1..(n - 1)
    BY <1>1, <1>4
  <1>6. \A j \in 1..(n - 1) : t[j] = IF j + 1 = i THEN s[1] ELSE s[j + 1]
    BY <1>1, <1>2, <1>4
  <1>7. QED
    BY <1>4, <1>5, <1>6 DEF Without, t, u

\* The rest of a list once a place is taken.
LEMMA WithoutFacts ==
  ASSUME NEW s, IsList(s), NEW i \in 1..Len(s)
  PROVE  LET t == Without(s, i)
         IN  /\ IsList(t) /\ Len(t) = Len(s) - 1
             /\ ToSet(t) \cup {s[i]} = ToSet(s)
  <1> DEFINE S == ToSet(s)
             n == Len(s)
             t == Without(s, i)
  <1>1. s \in Seq(S) /\ n \in Nat /\ DOMAIN s = 1..n
    BY ListFacts DEF IsList
  <1>2. /\ t \in Seq(S) /\ Len(t) = n - 1 /\ DOMAIN t = 1..(n - 1)
        /\ \A j \in DOMAIN t : t[j] = IF j + 1 = i THEN s[1] ELSE s[j + 1]
    BY WithoutPlaces
  <1> HIDE DEF t
  <1>3. \A j \in DOMAIN t : t[j] \in S
    BY <1>2, ElementOfSeq
  <1>4. ToSet(t) \subseteq S
    BY <1>3 DEF ToSet
  <1>5. ASSUME NEW j \in 1..n, j # i PROVE s[j] \in ToSet(t)
    <2>1. CASE j = 1
      <3>1. i - 1 \in 1..(n - 1) /\ (i - 1) + 1 = i
        BY <1>1, <1>5, <2>1
      <3>2. t[i - 1] = s[1]
        BY <1>2, <3>1
      <3>3. QED
        BY <1>2, <2>1, <3>1, <3>2 DEF ToSet
    <2>2. CASE j # 1
      <3>1. j - 1 \in 1..(n - 1) /\ (j - 1) + 1 = j
        BY <1>1, <2>2
      <3>2. t[j - 1] = s[j]
        BY <1>2, <1>5, <3>1
      <3>3. QED
        BY <1>2, <3>1, <3>2 DEF ToSet
    <2>3. QED
      BY <2>1, <2>2
  <1>6. S \subseteq ToSet(t) \cup {s[i]}
    BY <1>1, <1>5 DEF ToSet
  <1>7. s[i] \in S
    BY <1>1, ElementOfSeq
  <1>8. t \in Seq(ToSet(t))
    BY <1>2, SelfList
  <1>9. QED
    BY <1>2, <1>4, <1>6, <1>7, <1>8 DEF IsList, t

-----------------------------------------------------------------------------
(* Induction and folds                                                     *)

\* Induction up to n, for a set of numbers.
LEMMA Induct ==
  ASSUME NEW n \in Nat, NEW P, 0 \in P,
         \A k \in 0..(n - 1) : k \in P => k + 1 \in P
  PROVE  \A k \in 0..n : k \in P
  <1> DEFINE N == {k \in 0..n : k \notin P}
  <1>1. N \in SUBSET Nat
    OBVIOUS
  <1>2. SUFFICES ASSUME N # {} PROVE FALSE
    OBVIOUS
  <1> DEFINE m == Min(N)
  <1>3. m \in N /\ \A k \in N : m <= k
    BY <1>1, <1>2, Least
  <1> HIDE DEF m
  <1>4. m # 0
    BY <1>3
  <1>5. m - 1 \in 0..(n - 1) /\ m - 1 \in 0..n /\ ~(m <= m - 1) /\ (m - 1) + 1 = m
    BY <1>3, <1>4
  <1>6. m - 1 \in P
    BY <1>3, <1>5
  <1>7. QED
    BY <1>3, <1>5, <1>6

\* f takes the elements of S one at a time, in the order of pick.
IsFold(f, S, D, base, pick, step) ==
  /\ f \in [SUBSET S -> D]
  /\ \A T \in SUBSET S :
       f[T] = IF T = {} THEN base ELSE step[pick[T]][f[T \ {pick[T]}]]

\* A fold exists: there is a function that takes an element of a finite set at
\* a time.
LEMMA FoldExists ==
  ASSUME NEW S, IsFiniteSet(S), NEW D, NEW base \in D,
         NEW pick, \A T \in SUBSET S : T # {} => pick[T] \in T,
         NEW step \in [S -> [D -> D]]
  PROVE  \E f : IsFold(f, S, D, base, pick, step)
  <1> DEFINE Upto(k) == {T \in SUBSET S : Cardinality(T) <= k}
             Folds(f, k) ==
               /\ f \in [Upto(k) -> D]
               /\ \A T \in Upto(k) :
                    f[T] = IF T = {} THEN base ELSE step[pick[T]][f[T \ {pick[T]}]]
             n == Cardinality(S)
             P == {k \in Nat : \E f : Folds(f, k)}
  <1>1. n \in Nat /\ \A T \in SUBSET S : IsFiniteSet(T) /\ Cardinality(T) \in Nat /\ Cardinality(T) <= n
    BY FS_Subset, FS_CardinalityType
  <1>2. \A T \in SUBSET S : T # {} =>
          /\ T \ {pick[T]} \in SUBSET S
          /\ Cardinality(T \ {pick[T]}) = Cardinality(T) - 1
    BY <1>1, FS_RemoveElement
  <1>3. \A T \in SUBSET S : Cardinality(T) <= 0 <=> T = {}
    BY <1>1, FS_EmptySet
  <1> HIDE DEF n
  <1>4. 0 \in P
    <2> DEFINE f == [T \in Upto(0) |-> base]
    <2>1. Folds(f, 0)
      BY <1>3
    <2>2. QED
      BY <2>1
  <1>5. ASSUME NEW k \in 0..(n - 1), k \in P PROVE k + 1 \in P
    <2>1. PICK f : Folds(f, k)
      BY <1>5
    <2> DEFINE g == [T \in Upto(k + 1) |->
                       IF T = {} THEN base ELSE step[pick[T]][f[T \ {pick[T]}]]]
    <2>2. k \in Nat /\ k + 1 \in Nat
      BY <1>1
    <2>3. \A T \in Upto(k + 1) : T # {} =>
            /\ T \ {pick[T]} \in Upto(k) /\ pick[T] \in S
            /\ f[T \ {pick[T]}] \in D
      BY <1>1, <1>2, <2>1, <2>2
    <2>4. g \in [Upto(k + 1) -> D]
      <3>1. \A T \in Upto(k + 1) : T # {} => step[pick[T]] \in [D -> D]
        BY <2>3
      <3>2. \A h \in [D -> D], d \in D : h[d] \in D
        OBVIOUS
      <3>3. ASSUME NEW T \in Upto(k + 1), T # {}
            PROVE  step[pick[T]][f[T \ {pick[T]}]] \in D
        <4>1. step[pick[T]] \in [D -> D] /\ f[T \ {pick[T]}] \in D
          BY <2>3, <3>1, <3>3
        <4>2. QED
          BY <3>2, <4>1, Zenon
      <3>4. QED
        BY <3>3
    <2>5. ASSUME NEW T \in Upto(k) PROVE T \in Upto(k + 1) /\ g[T] = f[T]
      <3>1. T \in Upto(k + 1)
        BY <1>1, <2>2
      <3>2. f[T] = IF T = {} THEN base ELSE step[pick[T]][f[T \ {pick[T]}]]
        BY <2>1
      <3>3. QED
        BY <3>1, <3>2
    <2>6. \A T \in Upto(k + 1) :
            g[T] = IF T = {} THEN base ELSE step[pick[T]][g[T \ {pick[T]}]]
      BY <2>3, <2>5
    <2>7. Folds(g, k + 1)
      BY <2>4, <2>6
    <2>8. QED
      BY <2>2, <2>7
  <1>6. \A k \in 0..n : k \in P
    <2> HIDE DEF P
    <2>1. QED
      BY <1>1, <1>4, <1>5, Induct
  <1>7. n \in 0..n
    BY <1>1
  <1>8. PICK f : Folds(f, n)
    BY <1>6, <1>7
  <1>9. Upto(n) = SUBSET S
    BY <1>1
  <1>10. QED
    BY <1>8, <1>9 DEF IsFold

\* A finite set of integers has a greatest one.
LEMMA MaxFacts ==
  ASSUME NEW S, IsFiniteSet(S), S \subseteq Int, S # {}
  PROVE  Max(S) \in S /\ \A y \in S : Max(S) >= y
  <1> DEFINE Above(x) == {y \in S : x < y}
             C == {Cardinality(Above(x)) : x \in S}
  <1>1. \A x \in S : IsFiniteSet(Above(x)) /\ Cardinality(Above(x)) \in Nat
    BY FS_Subset, FS_CardinalityType
  <1>2. C \in SUBSET Nat /\ C # {}
    BY <1>1
  <1>3. Min(C) \in C /\ \A n \in C : Min(C) <= n
    BY <1>2, Least
  <1>4. PICK x \in S : \A y \in S : Cardinality(Above(x)) <= Cardinality(Above(y))
    BY <1>3
  <1>5. ASSUME NEW y \in S, x < y PROVE FALSE
    <2>1. Above(y) \in SUBSET Above(x) /\ Above(y) # Above(x)
      <3>1. \A z \in S : y < z => x < z
        BY <1>5
      <3>2. y \in Above(x) /\ y \notin Above(y)
        BY <1>5
      <3>3. QED
        BY <3>1, <3>2, Zenon
    <2>2. Cardinality(Above(y)) <= Cardinality(Above(x)) /\ Cardinality(Above(y)) # Cardinality(Above(x))
      BY <1>1, <2>1, FS_Subset
    <2>3. Cardinality(Above(x)) \in Nat /\ Cardinality(Above(y)) \in Nat
      BY <1>1
    <2>4. Cardinality(Above(x)) <= Cardinality(Above(y))
      BY <1>4
    <2> HIDE DEF Above
    <2>5. QED
      BY <2>2, <2>3, <2>4
  <1>6. \A y \in S : x >= y
    BY <1>5
  <1>7. QED
    BY <1>6 DEF Max

\* The less of two numbers.
LEMMA MinPair ==
  ASSUME NEW a \in Int, NEW b \in Int
  PROVE  Min({a, b}) = IF a <= b THEN a ELSE b
  BY DEF Min

\* The places a fold over a sequence of length n goes through.
LEMMA FoldPlaces ==
  ASSUME NEW n \in Nat
  PROVE  /\ \A T \in SUBSET (1..n) : T # {} => Max(T) \in T
         /\ \A k \in 1..n : /\ Max(1..k) = k /\ 1..k # {} /\ (1..k) \ {k} = 1..(k - 1)
                            /\ 1..k \in SUBSET (1..n)
         /\ 1..0 = {} /\ {} \in SUBSET (1..n) /\ IsFiniteSet(1..n)
  <1>1. IsFiniteSet(1..n) /\ 1..n \subseteq Int
    BY FS_Interval
  <1>2. \A T \in SUBSET (1..n) : T # {} => Max(T) \in T
    BY <1>1, FS_Subset, MaxFacts
  <1>3. ASSUME NEW k \in 1..n PROVE Max(1..k) = k
    BY DEF Max
  <1>4. QED
    BY <1>1, <1>2, <1>3

IsListFold(f, n, D, base, step) ==
  /\ f \in [SUBSET (1..n) -> D]
  /\ \A T \in SUBSET (1..n) :
       f[T] = IF T = {} THEN base ELSE step[Max(T)][f[T \ {Max(T)}]]

\* There is such a fold, for any list and step.
LEMMA ListFoldExists ==
  ASSUME NEW n \in Nat, NEW D, NEW base \in D, NEW step \in [1..n -> [D -> D]]
  PROVE  \E f : IsListFold(f, n, D, base, step)
  <1> DEFINE pick == [T \in SUBSET (1..n) |-> Max(T)]
  <1>1. \A T \in SUBSET (1..n) : pick[T] = Max(T)
    OBVIOUS
  <1> HIDE DEF pick
  <1>2. IsFiniteSet(1..n) /\ \A T \in SUBSET (1..n) : T # {} => pick[T] \in T
    BY <1>1, FoldPlaces
  <1>3. PICK f : IsFold(f, 1..n, D, base, pick, step)
    BY <1>2, FoldExists, Zenon
  <1>4. ASSUME NEW T \in SUBSET (1..n)
        PROVE  f[T] = IF T = {} THEN base ELSE step[Max(T)][f[T \ {Max(T)}]]
    <2>1. f[T] = IF T = {} THEN base ELSE step[pick[T]][f[T \ {pick[T]}]]
      BY <1>3 DEF IsFold
    <2>2. QED
      BY <1>1, <2>1
  <1>5. f \in [SUBSET (1..n) -> D]
    BY <1>3 DEF IsFold
  <1>6. QED
    BY <1>4, <1>5 DEF IsListFold

\* Keep, one place at a time.
LEMMA KeepRuns ==
  ASSUME NEW seq, IsList(seq), NEW S
  PROVE  \E acc : /\ acc[0] = <<>> /\ Keep(seq, S) = acc[Len(seq)]
                  /\ \A k \in 1..Len(seq) :
                       acc[k] = IF seq[k] \in S THEN Append(acc[k - 1], seq[k]) ELSE acc[k - 1]
  <1> DEFINE n == Len(seq)
             D == Seq(ToSet(seq))
             Op(acc, x) == IF x \in S THEN Append(acc, x) ELSE acc
             step == [i \in 1..n |-> [acc \in D |-> Op(acc, seq[i])]]
             F(iter) == [T \in SUBSET (1..n) |->
                           IF T = {} THEN <<>> ELSE Op(iter[T \ {Max(T)}], seq[Max(T)])]
             it == CHOOSE iter : iter = F(iter)
  <1>1. n \in Nat /\ DOMAIN seq = 1..n /\ \A i \in 1..n : seq[i] \in ToSet(seq)
    BY ListFacts
  <1>2. Keep(seq, S) = it[1..n]
    BY <1>1 DEF Keep, FoldLeft, MapThenFoldSet
  <1> HIDE DEF n
  <1>3. \A i \in 1..n, acc \in D : Op(acc, seq[i]) \in D
    BY <1>1
  <1>4. step \in [1..n -> [D -> D]] /\ \A i \in 1..n, acc \in D : step[i][acc] = Op(acc, seq[i])
    BY <1>3
  <1>5. <<>> \in D
    OBVIOUS
  <1> HIDE DEF step, D
  <1>6. PICK f : IsListFold(f, n, D, <<>>, step)
    BY <1>1, <1>4, <1>5, ListFoldExists, Zenon
  <1>7. \A T \in SUBSET (1..n) : T # {} => Max(T) \in 1..n /\ f[T \ {Max(T)}] \in D
    <2>1. \A T \in SUBSET (1..n) : T # {} => Max(T) \in T /\ T \ {Max(T)} \in SUBSET (1..n)
      BY <1>1, FoldPlaces
    <2>2. QED
      BY <1>6, <2>1 DEF IsListFold
  <1>8. f = F(f)
    <2>1. \A T \in SUBSET (1..n) : T # {} =>
            step[Max(T)][f[T \ {Max(T)}]] = Op(f[T \ {Max(T)}], seq[Max(T)])
      BY <1>4, <1>7, Zenon
    <2> HIDE DEF Op
    <2>2. \A T \in SUBSET (1..n) :
            (IF T = {} THEN <<>> ELSE step[Max(T)][f[T \ {Max(T)}]])
              = (IF T = {} THEN <<>> ELSE Op(f[T \ {Max(T)}], seq[Max(T)]))
      BY <2>1
    <2>3. f = [T \in SUBSET (1..n) |-> IF T = {} THEN <<>> ELSE step[Max(T)][f[T \ {Max(T)}]]]
      BY <1>6 DEF IsListFold
    <2>4. QED
      BY <2>2, <2>3, Zenon
  <1>9. it = F(it)
    BY <1>8
  <1> HIDE DEF it
  <1> DEFINE acc == [k \in 0..n |-> it[1..k]]
  <1>10. acc[0] = <<>>
    BY <1>1, <1>9, FoldPlaces
  <1>11. ASSUME NEW k \in 1..n PROVE acc[k] = Op(acc[k - 1], seq[k])
    <2>1. /\ Max(1..k) = k /\ 1..k # {} /\ (1..k) \ {k} = 1..(k - 1)
          /\ 1..k \in SUBSET (1..n)
      BY <1>1, FoldPlaces
    <2> HIDE DEF Op
    <2>2. it[1..k] = Op(it[(1..k) \ {Max(1..k)}], seq[Max(1..k)])
      BY <1>9, <2>1
    <2>3. k \in 0..n /\ k - 1 \in 0..n
      BY <1>1
    <2>4. acc[k] = it[1..k] /\ acc[k - 1] = it[1..(k - 1)]
      BY <2>3
    <2>5. QED
      BY <2>1, <2>2, <2>4
  <1>12. acc[n] = it[1..n]
    BY <1>1
  <1>13. QED
    BY <1>2, <1>10, <1>11, <1>12 DEF n

\* No two results of the list have the same ID.
Distinct(s) == \A i, j \in DOMAIN s : s[i].id = s[j].id => i = j

\* The places of a list with one more at its end.
LEMMA AppendPlaces ==
  ASSUME NEW s, IsList(s), NEW x
  PROVE  LET t == Append(s, x)
         IN  /\ DOMAIN t = 1..(Len(s) + 1) /\ t[Len(s) + 1] = x
             /\ \A i \in 1..Len(s) : t[i] = s[i]
  <1> DEFINE t == Append(s, x)
             n == Len(s)
  <1>1. n \in Nat /\ DOMAIN s = 1..n
    BY ListFacts
  <1>2. IsList(t) /\ Len(t) = n + 1 /\ Last(t) = x
    BY AppendFacts
  <1>3. t \in Seq(ToSet(s) \cup {x}) /\ s \in Seq(ToSet(s) \cup {x})
    BY SeqMonotonic DEF IsList
  <1>4. \A i \in 1..n : t[i] = s[i]
    BY <1>1, <1>3
  <1>5. DOMAIN t = 1..(n + 1)
    BY <1>2, ListFacts
  <1>6. QED
    BY <1>2, <1>4, <1>5 DEF Last

\* A new ID keeps a list distinct.
LEMMA AppendDistinct ==
  ASSUME NEW s, IsList(s), Distinct(s), NEW x, \A r \in ToSet(s) : r.id # x.id
  PROVE  Distinct(Append(s, x))
  <1> DEFINE t == Append(s, x)
             n == Len(s)
  <1>1. DOMAIN t = 1..(n + 1) /\ t[n + 1] = x /\ \A i \in 1..n : t[i] = s[i]
    BY AppendPlaces
  <1>2. n \in Nat /\ DOMAIN s = 1..n /\ \A i \in 1..n : s[i].id # x.id
    BY ListFacts
  <1> HIDE DEF t, n
  <1>3. \A i \in 1..(n + 1) : i \in 1..n \/ i = n + 1
    BY <1>2
  <1>4. ASSUME NEW i \in 1..(n + 1), NEW j \in 1..(n + 1), t[i].id = t[j].id PROVE i = j
    BY <1>1, <1>2, <1>3, <1>4 DEF Distinct
  <1>5. QED
    BY <1>1, <1>4 DEF Distinct, t

\* Keep is a list of what was to be kept, distinct if the list was.
LEMMA KeepFacts ==
  ASSUME NEW seq, IsList(seq), NEW S
  PROVE  /\ IsList(Keep(seq, S)) /\ ToSet(Keep(seq, S)) = ToSet(seq) \cap S
         /\ Distinct(seq) => Distinct(Keep(seq, S))
  <1> DEFINE n == Len(seq)
             Upto(k) == {seq[i] : i \in 1..k}
  <1>1. n \in Nat /\ DOMAIN seq = 1..n
    BY ListFacts
  <1>2. PICK acc : /\ acc[0] = <<>> /\ Keep(seq, S) = acc[n]
                   /\ \A k \in 1..n :
                        acc[k] = IF seq[k] \in S THEN Append(acc[k - 1], seq[k]) ELSE acc[k - 1]
    BY KeepRuns
  <1> HIDE DEF n
  <1> DEFINE Kept(k) == /\ IsList(acc[k]) /\ ToSet(acc[k]) = Upto(k) \cap S
                        /\ Distinct(seq) => Distinct(acc[k])
             P == {k \in Nat : Kept(k)}
  <1>3. 0 \in P
    <2>1. Upto(0) = {}
      OBVIOUS
    <2>2. Distinct(<<>>)
      BY DEF Distinct
    <2>3. QED
      BY <1>2, <2>1, <2>2, EmptyList
  <1>4. ASSUME NEW k \in 0..(n - 1), k \in P PROVE k + 1 \in P
    <2> DEFINE x == seq[k + 1]
    <2>1. k \in Nat /\ k + 1 \in Nat /\ k + 1 \in 1..n /\ (k + 1) - 1 = k
      BY <1>1
    <2>2. acc[k + 1] = IF x \in S THEN Append(acc[k], x) ELSE acc[k]
      BY <1>2, <2>1
    <2>3. Kept(k)
      BY <1>4
    <2>4. Upto(k + 1) = Upto(k) \cup {x}
      <3>1. \A i \in 1..(k + 1) : i \in 1..k \/ i = k + 1
        BY <2>1
      <3>2. \A i \in 1..k : i \in 1..(k + 1)
        BY <2>1
      <3>3. k + 1 \in 1..(k + 1)
        BY <2>1
      <3>4. QED
        BY <3>1, <3>2, <3>3
    <2>5. ASSUME Distinct(seq), NEW r \in Upto(k) PROVE r.id # x.id
      <3>1. PICK i \in 1..k : r = seq[i]
        OBVIOUS
      <3>2. i \in DOMAIN seq /\ k + 1 \in DOMAIN seq /\ i # k + 1
        BY <1>1, <2>1
      <3>3. QED
        BY <2>5, <3>1, <3>2 DEF Distinct
    <2> HIDE DEF x, Upto
    <2>6. CASE x \in S
      <3>1. acc[k + 1] = Append(acc[k], x)
        BY <2>2, <2>6
      <3>2. IsList(acc[k + 1]) /\ ToSet(acc[k + 1]) = ToSet(acc[k]) \cup {x}
        BY <2>3, <3>1, AppendFacts
      <3>3. ASSUME Distinct(seq) PROVE Distinct(acc[k + 1])
        <4>1. \A r \in ToSet(acc[k]) : r.id # x.id
          BY <2>3, <2>5, <3>3
        <4>2. QED
          BY <2>3, <3>1, <3>3, <4>1, AppendDistinct
      <3>4. QED
        BY <2>1, <2>3, <2>4, <2>6, <3>2, <3>3
    <2>7. CASE x \notin S
      BY <2>1, <2>2, <2>3, <2>4, <2>7
    <2>8. QED
      BY <2>6, <2>7
  <1>5. n \in P
    <2> HIDE DEF P
    <2>1. \A k \in 0..n : k \in P
      BY <1>1, <1>3, <1>4, Induct
    <2>2. QED
      BY <1>1, <2>1
  <1>6. Upto(n) = ToSet(seq)
    BY <1>1 DEF ToSet
  <1>7. QED
    BY <1>2, <1>5, <1>6

\* Two lists, one after the other.
LEMMA ConcatFacts ==
  ASSUME NEW s, IsList(s), NEW t, IsList(t)
  PROVE  /\ IsList(s \o t) /\ ToSet(s \o t) = ToSet(s) \cup ToSet(t)
         /\ Distinct(s) /\ Distinct(t) /\ (\A q \in ToSet(s), r \in ToSet(t) : q.id # r.id)
              => Distinct(s \o t)
         /\ Len(s \o t) = Len(s) + Len(t)
         /\ \A i \in 1..(Len(s) + Len(t)) :
              (s \o t)[i] = IF i <= Len(s) THEN s[i] ELSE t[i - Len(s)]
  <1> DEFINE S == ToSet(s) \cup ToSet(t)
             u == s \o t
             m == Len(s)
             n == Len(t)
  <1>1. s \in Seq(S) /\ t \in Seq(S)
    BY SeqMonotonic DEF IsList
  <1>2. /\ m \in Nat /\ DOMAIN s = 1..m /\ n \in Nat /\ DOMAIN t = 1..n
    BY ListFacts
  <1>3. /\ u \in Seq(S) /\ Len(u) = m + n
        /\ \A i \in 1..(m + n) : u[i] = IF i <= m THEN s[i] ELSE t[i - m]
    BY <1>1, <1>2
  <1> HIDE DEF u, m, n
  <1>4. DOMAIN u = 1..(m + n)
    BY <1>2, <1>3
  <1>5. /\ \A i \in 1..m : i \in 1..(m + n) /\ u[i] = s[i]
        /\ \A i \in 1..n : i + m \in 1..(m + n) /\ u[i + m] = t[i]
        /\ \A i \in 1..(m + n) : \/ i \in 1..m /\ u[i] = s[i]
                                 \/ i - m \in 1..n /\ u[i] = t[i - m]
    BY <1>2, <1>3
  <1>6. ToSet(u) = S
    <2>1. \A r \in ToSet(s) : r \in ToSet(u)
      BY <1>2, <1>4, <1>5 DEF ToSet
    <2>2. ASSUME NEW r \in ToSet(t) PROVE r \in ToSet(u)
      <3>1. PICK i \in 1..n : r = t[i]
        BY <1>2 DEF ToSet
      <3>2. i + m \in 1..(m + n) /\ u[i + m] = r
        BY <1>5, <3>1
      <3>3. QED
        BY <1>4, <3>2 DEF ToSet
    <2>3. ASSUME NEW r \in ToSet(u) PROVE r \in ToSet(s) \/ r \in ToSet(t)
      <3>1. PICK i \in 1..(m + n) : r = u[i]
        BY <1>4 DEF ToSet
      <3>2. \/ i \in 1..m /\ r = s[i]
            \/ i - m \in 1..n /\ r = t[i - m]
        BY <1>5, <3>1
      <3>3. QED
        BY <1>2, <3>2 DEF ToSet
    <2>4. QED
      BY <2>1, <2>2, <2>3
  <1>7. ASSUME Distinct(s), Distinct(t), \A q \in ToSet(s), r \in ToSet(t) : q.id # r.id,
               NEW i \in 1..(m + n), NEW j \in 1..(m + n), u[i].id = u[j].id
        PROVE  i = j
    <2>1. \A k \in 1..m : s[k] \in ToSet(s)
      BY <1>2 DEF ToSet
    <2>2. \A k \in 1..n : t[k] \in ToSet(t)
      BY <1>2 DEF ToSet
    <2>3. CASE i \in 1..m /\ j \in 1..m
      BY <1>2, <1>5, <1>7, <2>3 DEF Distinct
    <2>4. CASE i - m \in 1..n /\ j - m \in 1..n
      <3>1. u[i] = t[i - m] /\ u[j] = t[j - m]
        BY <1>2, <1>3, <2>4
      <3>2. i - m = j - m
        BY <1>2, <1>7, <2>4, <3>1 DEF Distinct
      <3>3. QED
        BY <1>2, <3>2
    <2>5. CASE i \in 1..m /\ j - m \in 1..n
      <3>1. u[i] = s[i] /\ u[j] = t[j - m]
        BY <1>2, <1>3, <2>5
      <3>2. QED
        BY <1>7, <2>1, <2>2, <2>5, <3>1
    <2>6. CASE i - m \in 1..n /\ j \in 1..m
      <3>1. u[j] = s[j] /\ u[i] = t[i - m]
        BY <1>2, <1>3, <2>6
      <3>2. QED
        BY <1>7, <2>1, <2>2, <2>6, <3>1
    <2>7. QED
      BY <1>5, <2>3, <2>4, <2>5, <2>6
  <1>8. QED
    BY <1>3, <1>4, <1>6, <1>7 DEF Distinct, IsList, u, m, n

-----------------------------------------------------------------------------
(* Numbers                                                                 *)

\* The reciprocal ranks add up to a number, whatever the positions.
LEMMA RankSum ==
  ASSUME NEW all, IsFiniteSet(all), all \subseteq Int
  PROVE  ReciprocalRank(all) \in Nat
  <1> DEFINE positions == {p \in all : p > 0}
  <1>1. IsFiniteSet(positions) /\ positions \subseteq Nat
    <2>1. positions \in SUBSET all
      OBVIOUS
    <2>2. ASSUME NEW p \in positions PROVE p \in Nat
      <3>1. p \in all /\ p > 0 /\ p \in Int
        OBVIOUS
      <3>2. QED
        BY <3>1
    <2> HIDE DEF positions
    <2>3. QED
      BY <2>1, <2>2, FS_Subset
  <1> DEFINE g(p) == 1000000 \div (60 + p)
             pick == [T \in SUBSET positions |-> CHOOSE x \in T : TRUE]
             step == [p \in positions |-> [sum \in Nat |-> g(p) + sum]]
             F(iter) == [T \in SUBSET positions |->
                           IF T = {} THEN 0
                           ELSE g(CHOOSE x \in T : TRUE) + iter[T \ {CHOOSE x \in T : TRUE}]]
             it == CHOOSE iter : iter = F(iter)
  <1>2. ReciprocalRank(all) = it[positions]
    BY DEF ReciprocalRank, MapThenSumSet, MapThenFoldSet
  <1> HIDE DEF positions
  <1>3. \A p \in positions : g(p) \in Nat
    BY <1>1
  <1>4. \A T \in SUBSET positions : pick[T] = CHOOSE x \in T : TRUE
    OBVIOUS
  <1>5. \A T \in SUBSET positions : T # {} => pick[T] \in T
    BY <1>4
  <1> HIDE DEF g, pick
  <1>6. step \in [positions -> [Nat -> Nat]] /\ \A p \in positions, k \in Nat : step[p][k] = g(p) + k
    BY <1>3
  <1>7. 0 \in Nat
    OBVIOUS
  <1> HIDE DEF step
  <1>8. PICK f : IsFold(f, positions, Nat, 0, pick, step)
    BY <1>1, <1>5, <1>6, <1>7, FoldExists, Zenon
  <1>9. ASSUME NEW T \in SUBSET positions
        PROVE  f[T] = IF T = {} THEN 0
                      ELSE g(CHOOSE x \in T : TRUE) + f[T \ {CHOOSE x \in T : TRUE}]
    <2>1. f[T] = IF T = {} THEN 0 ELSE step[pick[T]][f[T \ {pick[T]}]]
      BY <1>8 DEF IsFold
    <2>2. CASE T # {}
      <3>1. pick[T] \in positions /\ T \ {pick[T]} \in SUBSET positions
        BY <1>5, <2>2
      <3>2. f[T \ {pick[T]}] \in Nat
        BY <1>8, <3>1 DEF IsFold
      <3>3. QED
        BY <1>4, <1>6, <2>1, <2>2, <3>1, <3>2
    <2>3. QED
      BY <2>1, <2>2
  <1>10. f = F(f)
    BY <1>8, <1>9 DEF IsFold
  <1>11. it = F(it)
    BY <1>10
  <1> HIDE DEF it
  <1> DEFINE C == {n \in Nat : \A T \in SUBSET positions : Cardinality(T) = n => it[T] \in Nat}
  <1>12. \A T \in SUBSET positions : IsFiniteSet(T) /\ Cardinality(T) \in Nat
    BY <1>1, FS_Subset, FS_CardinalityType
  <1>13. 0 \in C
    <2>1. \A T \in SUBSET positions : Cardinality(T) = 0 => T = {}
      BY <1>12, FS_EmptySet
    <2>2. it[{}] = 0 /\ 0 \in Nat
      BY <1>11
    <2>3. \A T \in SUBSET positions : Cardinality(T) = 0 => it[T] \in Nat
      BY <2>1, <2>2, Zenon
    <2>4. QED
      BY <2>2, <2>3
  <1>14. ASSUME NEW n \in Nat, n \in C PROVE n + 1 \in C
    <2> SUFFICES ASSUME NEW T \in SUBSET positions, Cardinality(T) = n + 1 PROVE it[T] \in Nat
      OBVIOUS
    <2>1. T # {}
      BY FS_EmptySet
    <2>2. pick[T] \in T /\ it[T] = g(pick[T]) + it[T \ {pick[T]}]
      <3>1. it[T] = g(CHOOSE x \in T : TRUE) + it[T \ {CHOOSE x \in T : TRUE}]
        BY <1>11, <2>1
      <3>2. pick[T] = CHOOSE x \in T : TRUE
        BY <1>4
      <3>3. pick[T] \in T
        BY <1>5, <2>1
      <3>4. QED
        BY <3>1, <3>2, <3>3, Zenon
    <2>3. Cardinality(T \ {pick[T]}) = n
      BY <1>12, <2>2, FS_RemoveElement
    <2>4. it[T \ {pick[T]}] \in Nat
      BY <1>14, <2>3
    <2>5. g(pick[T]) \in Nat
      BY <1>3, <2>2
    <2>6. QED
      BY <2>2, <2>4, <2>5
  <1>15. \A n \in 0..Cardinality(positions) : n \in C
    <2> HIDE DEF C
    <2>1. \A k \in 0..(Cardinality(positions) - 1) : k \in Nat
      BY <1>12
    <2>2. QED
      BY <1>12, <1>13, <1>14, <2>1, Induct
  <1>16. Cardinality(positions) \in 0..Cardinality(positions)
    BY <1>12
  <1>17. QED
    BY <1>2, <1>15, <1>16

-----------------------------------------------------------------------------
(* The diversity pass                                                      *)

\* The place a search in a list returns.
LEMMA PeerFacts ==
  ASSUME IsList(remaining), Peer # 0
  PROVE  Peer \in 1..Len(remaining) /\ SameLane(remaining[Peer], remaining[1])
  <1> DEFINE Fits(r) == SameLane(r, remaining[1]) /\ Admissible(r, out)
             I == {i \in 1..Len(remaining) : Fits(remaining[i])}
  <1>1. Peer = IF I # {} THEN Min(I) ELSE 0
    BY DEF Peer, SelectInSeq
  <1>2. I \in SUBSET Nat
    BY ListFacts
  <1>3. I # {} => Min(I) \in I
    BY <1>2, Least
  <1>4. QED
    BY <1>1, <1>3

\* The place of the first exact video, if there is one.
LEMMA VideoFacts ==
  ASSUME IsList(remaining)
  PROVE  LET video == SelectInSeq(remaining, ExactVideo)
         IN  video # 0 => video \in 1..Len(remaining) /\ ExactVideo(remaining[video])
  <1> DEFINE I == {i \in 1..Len(remaining) : ExactVideo(remaining[i])}
             video == SelectInSeq(remaining, ExactVideo)
  <1>1. video = IF I # {} THEN Min(I) ELSE 0
    BY DEF SelectInSeq
  <1>2. I \in SUBSET Nat
    BY ListFacts
  <1> HIDE DEF video
  <1>3. CASE I # {}
    <2>1. Min(I) \in I
      BY <1>2, <1>3, Least
    <2>2. QED
      BY <1>1, <1>3, <2>1 DEF video
  <1>4. CASE I = {}
    BY <1>1, <1>4 DEF video
  <1>5. QED
    BY <1>3, <1>4

\* What is placed is of the lane that is due, or is the exact video the first
\* page makes an exception for.
LEMMA PickFacts ==
  ASSUME IsList(remaining), remaining # <<>>
  PROVE  /\ Pick \in 1..Len(remaining)
         /\ \/ SameLane(remaining[Pick], remaining[1])
            \/ Len(out) + 1 <= FirstPage /\ ExactVideo(remaining[Pick])
  <1> DEFINE video == SelectInSeq(remaining, ExactVideo)
             relax == /\ Len(out) + 1 <= FirstPage
                      /\ Peer = 0 \/ Coverage(remaining[Peer]) < 50
             pick == IF relax /\ video # 0 THEN video ELSE Peer
  <1>1. Pick = IF pick = 0 THEN 1 ELSE pick
    BY DEF Pick
  <1>2. Len(remaining) \in Nat /\ Len(remaining) > 0
    BY ListFacts
  <1>3. video # 0 => video \in 1..Len(remaining) /\ ExactVideo(remaining[video])
    BY VideoFacts
  <1> HIDE DEF video
  <1>4. CASE relax /\ video # 0
    BY <1>1, <1>2, <1>3, <1>4
  <1>5. CASE ~(relax /\ video # 0) /\ Peer # 0
    <2>1. Pick = Peer
      BY <1>1, <1>5
    <2>2. Peer \in 1..Len(remaining) /\ SameLane(remaining[Peer], remaining[1])
      BY <1>5, PeerFacts
    <2>3. QED
      BY <2>1, <2>2
  <1>6. CASE ~(relax /\ video # 0) /\ Peer = 0
    <2>1. Pick = 1
      BY <1>1, <1>6
    <2>2. QED
      BY <1>2, <2>1 DEF SameLane
  <1>7. QED
    BY <1>4, <1>5, <1>6

\* An exchange keeps what the diversity pass promises of the lanes.
LEMMA SlotsStep ==
  ASSUME RankInv, Diversify
  PROVE  SlotsOK'
  <1> USE DEF RankInv
  <1>1. pc = "diversify" /\ remaining # <<>> /\ UNCHANGED <<pc, scheduled>>
    BY DEF Diversify
  <1> DEFINE p == Pick
             x == remaining[p]
             n == Len(out)
             m == Len(remaining)
  <1>2. out' = Append(out, x) /\ remaining' = Without(remaining, p)
    BY DEF Diversify
  <1>3. /\ p \in 1..m
        /\ SameLane(x, remaining[1]) \/ (n + 1 <= FirstPage /\ ExactVideo(x))
    BY <1>1, PickFacts
  <1>4. /\ Len(out') = n + 1 /\ DOMAIN out' = 1..(n + 1)
        /\ out'[n + 1] = x /\ \A i \in 1..n : out'[i] = out[i]
    BY <1>2, AppendFacts, AppendPlaces
  <1>5. /\ Len(remaining') = m - 1
        /\ \A j \in 1..(m - 1) :
             remaining'[j] = IF j + 1 = p THEN remaining[1] ELSE remaining[j + 1]
    BY <1>2, <1>3, WithoutPlaces
  <1>6. n \in Nat /\ m \in Nat /\ DOMAIN out = 1..n /\ m >= 1
    BY <1>1, ListFacts
  <1>7. \A k \in 1..m : KeepsLane(remaining[k], n + k, out)
    BY <1>1 DEF SlotsOK
  <1> HIDE DEF p, x, n, m
  <1>8. ASSUME NEW r, NEW k, KeepsLane(r, k, out)
        PROVE  KeepsLane(r, k, out')
    <2>1. CASE SameLane(r, scheduled[k])
      BY <2>1 DEF KeepsLane
    <2>2. CASE \E i \in 1..n :
                 i <= FirstPage /\ ExactVideo(out[i]) /\ SameLane(out[i], scheduled[k])
      <3>1. PICK i \in 1..n :
                 i <= FirstPage /\ ExactVideo(out[i]) /\ SameLane(out[i], scheduled[k])
        BY <2>2
      <3>2. i \in 1..(n + 1) /\ out'[i] = out[i]
        BY <1>4, <1>6
      <3>3. QED
        BY <1>4, <3>1, <3>2 DEF KeepsLane
    <2>3. QED
      BY <1>8, <2>1, <2>2 DEF KeepsLane, n
  <1>9. ASSUME NEW k, n + 1 <= FirstPage, ExactVideo(x), SameLane(x, scheduled[k]), NEW r
        PROVE  KeepsLane(r, k, out')
    <2>1. n + 1 \in 1..(n + 1) /\ out'[n + 1] = x
      BY <1>4, <1>6
    <2>2. QED
      BY <1>4, <1>9, <2>1 DEF KeepsLane
  <1>10. ASSUME NEW k \in 1..(m - 1)
         PROVE  KeepsLane(remaining'[k], (n + 1) + k, out')
    <2>1. k + 1 \in 1..m /\ (n + 1) + k = n + (k + 1)
      BY <1>6
    <2>2. CASE k + 1 # p
      <3>1. remaining'[k] = remaining[k + 1]
        BY <1>5, <2>2
      <3>2. KeepsLane(remaining[k + 1], n + (k + 1), out)
        BY <1>7, <2>1
      <3>3. QED
        BY <1>8, <2>1, <3>1, <3>2
    <2>3. CASE k + 1 = p
      <3>1. remaining'[k] = remaining[1]
        BY <1>5, <2>3
      <3>2. KeepsLane(x, (n + 1) + k, out)
        BY <1>7, <2>1, <2>3 DEF x
      <3>3. CASE SameLane(x, scheduled[(n + 1) + k])
        <4>1. CASE SameLane(x, remaining[1])
          BY <3>1, <3>3, <4>1 DEF KeepsLane, SameLane
        <4>2. CASE n + 1 <= FirstPage /\ ExactVideo(x)
          BY <1>9, <3>3, <4>2
        <4>3. QED
          BY <1>3, <4>1, <4>2
      <3>4. CASE ~SameLane(x, scheduled[(n + 1) + k])
        <4>1. KeepsLane(remaining[1], (n + 1) + k, out)
          BY <3>2, <3>4 DEF KeepsLane
        <4>2. QED
          BY <1>8, <3>1, <4>1
      <3>5. QED
        BY <3>3, <3>4
    <2>4. QED
      BY <2>2, <2>3
  <1>11. ASSUME NEW i \in 1..(n + 1), ~SameLane(out'[i], scheduled[i])
         PROVE  \E l \in 1..i : /\ l <= FirstPage /\ ExactVideo(out'[l])
                                /\ l = i \/ SameLane(out'[l], scheduled[i])
    <2>1. CASE i \in 1..n
      <3>1. out'[i] = out[i]
        BY <1>4, <2>1
      <3>2. PICK l \in 1..i : /\ l <= FirstPage /\ ExactVideo(out[l])
                              /\ l = i \/ SameLane(out[l], scheduled[i])
        BY <1>6, <1>11, <2>1, <3>1 DEF SlotsOK, LanesMoveForVideos
      <3>3. l \in 1..n
        BY <1>6, <2>1
      <3>4. out'[l] = out[l]
        BY <1>4, <3>3
      <3>5. QED
        BY <3>2, <3>4
    <2>2. CASE i = n + 1
      <3>1. KeepsLane(remaining[1], i, out)
        BY <1>6, <1>7, <2>2
      <3>2. CASE SameLane(remaining[1], scheduled[i])
        <4>1. n + 1 <= FirstPage /\ ExactVideo(x)
          BY <1>3, <1>4, <1>11, <2>2, <3>2 DEF SameLane
        <4>2. i \in 1..i /\ i <= FirstPage /\ ExactVideo(out'[i])
          BY <1>4, <1>6, <2>2, <4>1
        <4>3. QED
          BY <4>2
      <3>3. CASE ~SameLane(remaining[1], scheduled[i])
        <4>1. PICK l \in 1..n :
                l <= FirstPage /\ ExactVideo(out[l]) /\ SameLane(out[l], scheduled[i])
          BY <3>1, <3>3 DEF KeepsLane, n
        <4>2. l \in 1..i /\ out'[l] = out[l]
          BY <1>4, <1>6, <2>2
        <4>3. QED
          BY <4>1, <4>2
      <3>4. QED
        BY <3>2, <3>3
    <2>3. QED
      BY <1>6, <2>1, <2>2
  <1>12. LanesMoveForVideos'
    <2>1. scheduled' = scheduled /\ DOMAIN out' = 1..(n + 1)
      BY <1>1, <1>4
    <2>2. \A i \in DOMAIN out' : ~SameLane(out'[i], scheduled'[i]) =>
            \E l \in 1..i : /\ l <= FirstPage /\ ExactVideo(out'[l])
                            /\ l = i \/ SameLane(out'[l], scheduled'[i])
      BY <1>11, <2>1
    <2>3. QED
      BY <2>2 DEF LanesMoveForVideos
  <1>13. \A k \in 1..Len(remaining') : KeepsLane(remaining'[k], Len(out') + k, out')
    BY <1>4, <1>5, <1>10
  <1>14. (\A k \in 1..Len(remaining) : KeepsLane(remaining[k], Len(out) + k, out))'
    BY <1>1, <1>13 DEF KeepsLane
  <1>15. QED
    BY <1>12, <1>14 DEF SlotsOK

\* A step of the diversity pass keeps its invariant.
LEMMA DiversifyStep ==
  ASSUME RankInv, Diversify
  PROVE  RankInv'
  <1> USE DEF RankInv
  <1>1. /\ pc = "diversify" /\ remaining # <<>> /\ Len(out) < settings.maxResults
        /\ UNCHANGED <<pc, settings, scheduled>>
    BY DEF Diversify
  <1> DEFINE x == remaining[Pick]
  <1>2. out' = Append(out, x) /\ remaining' = Without(remaining, Pick)
    BY DEF Diversify
  <1>3. Pick \in 1..Len(remaining)
    BY <1>1, PickFacts
  <1>4. /\ IsList(out') /\ out' # <<>> /\ Len(out') = Len(out) + 1
        /\ ToSet(out') = ToSet(out) \cup {x} /\ Last(out') = x /\ Front(out') = out
    BY <1>2, AppendFacts
  <1>5. /\ IsList(remaining') /\ Len(remaining') = Len(remaining) - 1
        /\ ToSet(remaining') \cup {x} = ToSet(remaining)
    BY <1>2, <1>3, WithoutFacts
  <1>6. Len(out) \in Nat /\ Len(remaining) \in Nat /\ settings.maxResults \in Nat
    <2>1. settings.maxResults \in 1..50
      BY DEF SettingsOK
    <2>2. Len(out) \in Nat /\ Len(remaining) \in Nat
      BY ListFacts
    <2>3. \A n \in 1..50 : n \in Nat
      OBVIOUS
    <2>4. QED
      BY <2>1, <2>2, <2>3, Zenon
  <1> HIDE DEF x
  <1>8. SlotsOK'
    BY SlotsStep
  <1>9. PassOK'
    <2>1. pc' = "diversify"
      BY <1>1
    <2>2. Len(out') + Len(remaining') = Len(scheduled')
      BY <1>1, <1>4, <1>5, <1>6 DEF PassOK
    <2>3. ToSet(out') \cup ToSet(remaining') = ToSet(scheduled')
      BY <1>1, <1>4, <1>5 DEF PassOK
    <2>4. QED
      BY <2>1, <2>2, <2>3 DEF PassOK
  <1>10. Len(out') <= settings'.maxResults
    BY <1>1, <1>4, <1>6
  <1>11. QED
    BY <1>1, <1>4, <1>5, <1>8, <1>9, <1>10 DEF SettingsOK

\* Nothing is placed by the other steps.
LEMMA OtherSteps ==
  ASSUME RankInv, Weigh \/ Fallback \/ Postprocess \/ Schedule \/ Scheduled \/ Return
  PROVE  RankInv'
  <1> USE DEF RankInv
  <1>1. settings' = settings /\ out' = out
    BY DEF Weigh, Fallback, Postprocess, Schedule, Scheduled, Return
  <1>2. SettingsOK' /\ IsList(out)' /\ (Len(out) <= settings.maxResults)'
    BY <1>1 DEF SettingsOK, IsList
  <1>3. CASE Weigh \/ Fallback \/ Postprocess
    <2>1. pc \in {"ask", "fallback", "merge"} /\ UNCHANGED <<scheduled, remaining>>
      BY <1>3 DEF Weigh, Fallback, Postprocess
    <2>2. scheduled = <<>> /\ remaining = <<>> /\ out = <<>>
      BY <2>1 DEF PassOK
    <2>3. PassOK'
      BY <1>1, <2>1, <2>2, EmptyList DEF PassOK
    <2>4. SlotsOK'
      BY <1>1, <2>1, <2>2, EmptyList DEF SlotsOK, LanesMoveForVideos
    <2>5. QED
      BY <1>2, <2>1, <2>3, <2>4 DEF IsList
  <1>4. CASE Schedule
    <2>1. pc = "schedule" /\ UNCHANGED <<pc, remaining>>
      BY <1>4 DEF Schedule
    <2>2. IsList(scheduled)'
      <3>1. PICK x : scheduled' = Append(scheduled, x)
        BY <1>4 DEF Schedule
      <3>2. QED
        BY <3>1, AppendFacts
    <2>3. out' = <<>> /\ remaining' = <<>>
      BY <1>1, <2>1 DEF PassOK
    <2>4. SlotsOK'
      BY <2>3, EmptyList DEF SlotsOK, LanesMoveForVideos
    <2>5. QED
      BY <1>2, <2>1, <2>2, <2>3, <2>4 DEF PassOK, IsList
  <1>5. CASE Scheduled
    <2>1. /\ remaining' = scheduled /\ scheduled' = scheduled /\ pc' = "diversify"
          /\ out' = <<>>
      BY <1>1, <1>5 DEF Scheduled, PassOK
    <2>2. PassOK'
      BY <2>1, EmptyList, ListFacts DEF PassOK
    <2>3. LanesMoveForVideos'
      BY <2>1, EmptyList DEF LanesMoveForVideos
    <2>4. (\A k \in 1..Len(remaining) : KeepsLane(remaining[k], Len(out) + k, out))'
      <3>1. Len(scheduled) \in Nat
        BY ListFacts
      <3>2. ASSUME NEW k \in 1..Len(scheduled) PROVE 0 + k = k
        BY <3>1
      <3>3. QED
        BY <2>1, <3>2, EmptyList DEF KeepsLane, SameLane
    <2>5. QED
      BY <1>2, <2>1, <2>2, <2>3, <2>4 DEF IsList, SlotsOK
  <1>6. CASE Return
    <2>1. /\ UNCHANGED <<scheduled, remaining>> /\ pc = "diversify" /\ pc' = "done"
          /\ remaining = <<>> \/ Len(out) = settings.maxResults
      BY <1>6 DEF Return
    <2>2. PassOK'
      BY <1>1, <2>1 DEF PassOK
    <2>3. SlotsOK'
      BY <1>1, <2>1 DEF SlotsOK, LanesMoveForVideos, KeepsLane
    <2>4. QED
      BY <1>2, <2>1, <2>2, <2>3 DEF IsList
  <1>7. QED
    BY <1>3, <1>4, <1>5, <1>6

\* It holds at the start, whatever environment was loaded.
LEMMA InitRank == Init => RankInv
  <1> SUFFICES ASSUME Init PROVE RankInv
    OBVIOUS
  <1>1. PICK env \in Environments : settings = Load(env)
    BY DEF Init
  <1>2. /\ env.maxResults \in Int /\ env.percent \in Int /\ env.weakPercent \in Int
    BY RankingAssumption DEF RankingAssumption
  <1> DEFINE percent == ClampDiscovery(env.percent)
             weakPercent == ClampDiscoveryWeak(percent, env.weakPercent)
  <1>3. percent \in 0..100
    BY <1>2 DEF ClampDiscovery
  <1> HIDE DEF percent
  <1>4. weakPercent \in 0..100 /\ percent <= weakPercent
    BY <1>2, <1>3 DEF ClampDiscoveryWeak, Larger
  <1> HIDE DEF weakPercent
  <1>5. ClampPercent(percent) = percent /\ ClampPercent(weakPercent) = weakPercent
    BY <1>3, <1>4 DEF ClampPercent
  <1>6. ClampMaxResults(env.maxResults) \in 1..50
    BY <1>2 DEF ClampMaxResults
  <1>7. /\ settings.maxResults = ClampMaxResults(env.maxResults)
        /\ settings.percent = percent /\ settings.weakPercent = weakPercent
    BY <1>1, <1>5 DEF Load, percent, weakPercent
  <1>8. SettingsOK
    BY <1>3, <1>4, <1>6, <1>7 DEF SettingsOK
  <1>9. /\ pc = "ask" /\ scheduled = <<>> /\ remaining = <<>> /\ out = <<>>
    BY DEF Init
  <1>10. Len(out) <= settings.maxResults
    <2>1. \A n \in 1..50 : 0 <= n
      OBVIOUS
    <2>2. settings.maxResults \in 1..50 /\ Len(out) = 0
      BY <1>6, <1>7, <1>9, EmptyList, Zenon
    <2>3. QED
      BY <2>1, <2>2, Zenon
  <1>11. PassOK /\ SlotsOK
    BY <1>9, EmptyList DEF PassOK, SlotsOK, LanesMoveForVideos
  <1>12. QED
    BY <1>8, <1>9, <1>10, <1>11, EmptyList DEF RankInv

\* The inductive invariant of the diversity pass: the settings are within their
\* limits, and every scheduled result is placed or remains (search, postprocess).
THEOREM RankInvariant == Spec => []RankInv
  <1>1. RankInv /\ [Next]_vars => RankInv'
    <2> SUFFICES ASSUME RankInv, [Next]_vars PROVE RankInv'
      OBVIOUS
    <2>1. CASE UNCHANGED vars
      BY <2>1 DEF vars, RankInv, SettingsOK, PassOK, IsList, SlotsOK, LanesMoveForVideos, KeepsLane
    <2>2. QED
      BY <2>1, DiversifyStep, OtherSteps DEF Next
  <1>2. QED
    BY <1>1, InitRank, PTL DEF Spec

\* The diversity pass leaves every place of the schedule to its lane but where an
\* exact video of the first page came in or was taken away (applyDomainDiversity).
THEOREM LanesKeptButForVideos == Spec => []LanesMoveForVideos
  <1>1. RankInv => LanesMoveForVideos
    BY DEF RankInv, SlotsOK
  <1>2. QED
    BY <1>1, RankInvariant, PTL

-----------------------------------------------------------------------------
(* Counting                                                                *)

\* Both counters go up by one for a result of theirs.
LEMMA CountAppend ==
  ASSUME NEW s, IsList(s), NEW x
  PROVE  /\ \A c \in Categories :
              /\ CategoryUsed(s, c) \in Nat
              /\ CategoryUsed(Append(s, x), c)
                   = CategoryUsed(s, c) + (IF x.category = c THEN 1 ELSE 0)
         /\ DiscoveryUsed(s) \in Nat
         /\ DiscoveryUsed(Append(s, x))
              = DiscoveryUsed(s) + (IF x.pool = "discovery" THEN 1 ELSE 0)
  <1> DEFINE t == Append(s, x)
             n == Len(s)
  <1>1. n \in Nat /\ DOMAIN s = 1..n
    BY ListFacts
  <1>2. DOMAIN t = 1..(n + 1) /\ (\A i \in 1..n : t[i] = s[i]) /\ t[n + 1] = x
    <2>1. IsList(t) /\ Len(t) = n + 1 /\ Front(t) = s /\ Last(t) = x
      BY AppendFacts
    <2>2. t \in Seq(ToSet(s) \cup {x}) /\ s \in Seq(ToSet(s) \cup {x})
      BY SeqMonotonic DEF IsList
    <2>3. \A i \in 1..n : t[i] = s[i]
      BY <1>1, <2>2
    <2>4. DOMAIN t = 1..(n + 1)
      BY <2>1, ListFacts
    <2>5. QED
      BY <2>1, <2>3, <2>4 DEF Last
  <1> HIDE DEF t, n
  <1>3. ASSUME NEW A \in SUBSET (1..n), NEW B \in SUBSET (1..(n + 1)), NEW yes \in BOOLEAN,
               B = IF yes THEN A \cup {n + 1} ELSE A
        PROVE  /\ Cardinality(A) \in Nat
               /\ Cardinality(B) = Cardinality(A) + (IF yes THEN 1 ELSE 0)
    <2>1. IsFiniteSet(A)
      <3>1. 1 \in Int /\ n \in Int
        BY <1>1
      <3>2. IsFiniteSet(1..n)
        BY <3>1, FS_Interval
      <3>3. QED
        BY <3>2, FS_Subset
    <2>2. Cardinality(A) \in Nat
      BY <2>1, FS_CardinalityType
    <2>3. n + 1 \notin A
      BY <1>1
    <2>4. Cardinality(A \cup {n + 1}) = Cardinality(A) + 1
      BY <2>1, <2>3, FS_AddElement
    <2>5. QED
      BY <1>3, <2>2, <2>4
  <1>4. ASSUME NEW c \in Categories
        PROVE  /\ CategoryUsed(s, c) \in Nat
               /\ CategoryUsed(t, c) = CategoryUsed(s, c) + (IF x.category = c THEN 1 ELSE 0)
    <2> DEFINE A == {i \in DOMAIN s : s[i].category = c}
               B == {i \in DOMAIN t : t[i].category = c}
               yes == x.category = c
    <2>1. A \in SUBSET (1..n) /\ B \in SUBSET (1..(n + 1)) /\ yes \in BOOLEAN
      BY <1>1, <1>2
    <2>2. B = IF yes THEN A \cup {n + 1} ELSE A
      BY <1>1, <1>2
    <2>3. CategoryUsed(s, c) = Cardinality(A) /\ CategoryUsed(t, c) = Cardinality(B)
      BY DEF CategoryUsed
    <2> HIDE DEF A, B
    <2>4. QED
      BY <1>3, <2>1, <2>2, <2>3
  <1>5. /\ DiscoveryUsed(s) \in Nat
        /\ DiscoveryUsed(t) = DiscoveryUsed(s) + (IF x.pool = "discovery" THEN 1 ELSE 0)
    <2> DEFINE A == {i \in DOMAIN s : s[i].pool = "discovery"}
               B == {i \in DOMAIN t : t[i].pool = "discovery"}
               yes == x.pool = "discovery"
    <2>1. A \in SUBSET (1..n) /\ B \in SUBSET (1..(n + 1)) /\ yes \in BOOLEAN
      BY <1>1, <1>2
    <2>2. B = IF yes THEN A \cup {n + 1} ELSE A
      BY <1>1, <1>2
    <2>3. DiscoveryUsed(s) = Cardinality(A) /\ DiscoveryUsed(t) = Cardinality(B)
      BY DEF DiscoveryUsed
    <2> HIDE DEF A, B
    <2>4. QED
      BY <1>3, <2>1, <2>2, <2>3
  <1>6. QED
    BY <1>4, <1>5 DEF t

\* Nothing is used before anything is scheduled.
LEMMA CountEmpty ==
  /\ \A c \in Categories : CategoryUsed(<<>>, c) = 0
  /\ DiscoveryUsed(<<>>) = 0
  BY FS_EmptySet DEF CategoryUsed, DiscoveryUsed

\* TargetDiscovery, for any shares.
Target(s, share) ==
  (CategoryUsed(s, "image") * share["image"] + CategoryUsed(s, "video") * share["video"]) \div 100

\* The target never falls, and depends only on the category of what is added.
LEMMA TargetFacts ==
  ASSUME NEW s, IsList(s), NEW x, NEW share \in [Categories -> Nat]
  PROVE  /\ Target(s, share) \in Nat /\ Target(Append(s, x), share) \in Nat
         /\ Target(s, share) <= Target(Append(s, x), share)
         /\ \A y : x.category = y.category =>
              Target(Append(s, x), share) = Target(Append(s, y), share)
  <1>1. \A c \in Categories : share[c] \in Nat
    OBVIOUS
  <1>2. "image" \in Categories /\ "video" \in Categories
    BY DEF Categories
  <1>3. ASSUME NEW a \in Nat, NEW p \in {0, 1}, NEW S \in Nat
        PROVE  (a + p) * S \in Nat /\ a * S \in Nat /\ a * S <= (a + p) * S
    <2>1. a * S \in Nat /\ (a + 1) * S = a * S + S
      OBVIOUS
    <2>2. QED
      BY <2>1
  <1>4. \A m, n \in Nat : m <= n => m \div 100 \in Nat /\ n \div 100 \in Nat /\ m \div 100 <= n \div 100
    OBVIOUS
  <1> DEFINE C(t, c) == CategoryUsed(t, c)
             W(t) == C(t, "image") * share["image"] + C(t, "video") * share["video"]
             d(c) == IF x.category = c THEN 1 ELSE 0
  <1>5. \A c \in Categories : C(s, c) \in Nat /\ C(Append(s, x), c) = C(s, c) + d(c)
    BY CountAppend
  <1>6. \A c \in Categories : d(c) \in {0, 1}
    OBVIOUS
  <1>7. W(s) \in Nat /\ W(Append(s, x)) \in Nat /\ W(s) <= W(Append(s, x))
    <2>1. \A c \in Categories : /\ C(s, c) * share[c] \in Nat
                                /\ C(Append(s, x), c) * share[c] \in Nat
                                /\ C(s, c) * share[c] <= C(Append(s, x), c) * share[c]
      BY <1>1, <1>3, <1>5, <1>6
    <2> HIDE DEF C
    <2>2. QED
      BY <1>2, <2>1
  <1>8. \A y : x.category = y.category => W(Append(s, x)) = W(Append(s, y))
    <2> SUFFICES ASSUME NEW y, x.category = y.category
                 PROVE  W(Append(s, x)) = W(Append(s, y))
      OBVIOUS
    <2>1. \A c \in Categories : C(Append(s, y), c) = C(s, c) + d(c)
      BY CountAppend
    <2>2. \A c \in Categories : C(Append(s, y), c) = C(Append(s, x), c)
      BY <1>5, <2>1
    <2> HIDE DEF C
    <2>3. QED
      BY <1>2, <2>2
  <1>9. \A t : Target(t, share) = W(t) \div 100
    BY DEF Target
  <1> HIDE DEF W
  <1>10. QED
    BY <1>4, <1>7, <1>8, <1>9

-----------------------------------------------------------------------------
(* The schedule                                                            *)

\* The quotas over a schedule s, the set left of what the lanes still have, the
\* shares and the categories: QuotasMet, for what is not scheduled yet too.
Rest(s, left, n) == Later(s, n) \cup left
CoreIn(rest, cat) == \E r \in rest : r.pool = "core" /\ r.category = cat

BalanceAt(s, left, categories, n) ==
  Len(categories) = 2 =>
    LET used == CategoryUsed(SubSeq(s, 1, n), categories[2])
    IN  /\ used < n \div 2 => \A r \in Rest(s, left, n) : r.category # categories[2]
        /\ used > n \div 2 => \A r \in Rest(s, left, n) : r.category # categories[1]

ExcessAt(s, left, share, n) ==
  DiscoveryUsed(SubSeq(s, 1, n)) > Target(SubSeq(s, 1, n), share) =>
    \E i \in 1..n : s[i].pool = "discovery" /\ ~CoreIn(Rest(s, left, i), s[i].category)

WantAt(s, left, share, n) ==
  s[n].pool = "core" /\ DiscoveryUsed(SubSeq(s, 1, n)) < Target(SubSeq(s, 1, n), share) =>
    \A r \in Rest(s, left, n) : r.pool = "discovery" /\ r.category = s[n].category =>
      n <= FirstPage /\ ~Strong(r)

WeakAt(s, left, n) ==
  s[n].pool = "discovery" /\ ~Strong(s[n]) /\ n <= FirstPage =>
    ~CoreIn(Rest(s, left, n), s[n].category)

QuotaAt(s, left, share, categories, n) ==
  /\ BalanceAt(s, left, categories, n) /\ ExcessAt(s, left, share, n)
  /\ WantAt(s, left, share, n) /\ WeakAt(s, left, n)

Shares == [cat \in Categories |-> Share(cat)]
Left == UNION {ToSet(lane[pool][cat]) : pool \in Pools, cat \in ToSet(cats)}

QuotaInv ==
  /\ cats \in Lists
  /\ DOMAIN lane = Pools /\ \A pool \in Pools : DOMAIN lane[pool] = Categories
  /\ \A n \in 1..Len(scheduled) : QuotaAt(scheduled, Left, Shares, cats, n)

\* How the loop chooses x, which is one of left, to follow s.
Chosen(s, x, left, share, categories) ==
  /\ x \in left /\ x.pool \in Pools
  /\ \E i \in DOMAIN categories : x.category = categories[i]
  /\ Len(categories) = 2 =>
       LET due == CategoryUsed(s, categories[2]) < (Len(s) + 1) \div 2
       IN  /\ x.category = categories[2] => due \/ \A r \in left : r.category # categories[1]
           /\ x.category = categories[1] => ~due \/ \A r \in left : r.category # categories[2]
  /\ x.pool = "core" /\ DiscoveryUsed(s) < Target(Append(s, x), share) =>
       \A r \in left : r.pool = "discovery" /\ r.category = x.category =>
         Len(s) < FirstPage /\ ~Strong(r)
  /\ x.pool = "discovery" /\ CoreIn(left, x.category) =>
       /\ DiscoveryUsed(s) < Target(Append(s, x), share)
       /\ Len(s) < FirstPage => Strong(x)

\* A list is its head and its tail.
LEMMA TailFacts ==
  ASSUME NEW s, IsList(s), s # <<>>
  PROVE  ToSet(s) = ToSet(Tail(s)) \cup {Head(s)}
  <1> DEFINE S == ToSet(s)
             t == Tail(s)
  <1>1. s \in Seq(S) /\ Len(s) \in Nat /\ Len(s) > 0 /\ DOMAIN s = 1..Len(s) /\ Head(s) = s[1]
    BY ListFacts DEF IsList
  <1>2. /\ t \in Seq(S) /\ Len(t) = Len(s) - 1
        /\ \A i \in 1..Len(t) : t[i] = s[i + 1]
    BY <1>1, HeadTailProperties
  <1>3. DOMAIN t = 1..Len(t)
    BY <1>2
  <1> HIDE DEF t
  <1>4. \A j \in 1..Len(s) : j # 1 => j - 1 \in DOMAIN t /\ t[j - 1] = s[j]
    BY <1>1, <1>2, <1>3
  <1>5. \A i \in DOMAIN t : i + 1 \in DOMAIN s /\ t[i] = s[i + 1]
    BY <1>1, <1>2, <1>3
  <1>6. 1 \in DOMAIN s
    BY <1>1
  <1>7. ToSet(t) \cup {s[1]} \subseteq S
    BY <1>5, <1>6 DEF ToSet
  <1>8. S \subseteq ToSet(t) \cup {s[1]}
    BY <1>1, <1>4 DEF ToSet
  <1>9. QED
    BY <1>1, <1>7, <1>8 DEF t

\* What follows the first n of a sequence.
LEMMA LaterFacts ==
  ASSUME NEW S, NEW s \in Seq(S), NEW n \in 0..Len(s)
  PROVE  Later(s, n) = {s[i] : i \in (n + 1)..Len(s)}
  <1> DEFINE N == Len(s)
             u == SubSeq(s, n + 1, N)
  <1>1. N \in Nat /\ n \in Nat /\ n <= N
    OBVIOUS
  <1>2. \A i \in (n + 1)..N : s[i] \in S
    BY <1>1, ElementOfSeq
  <1>3. /\ u \in Seq(S)
        /\ Len(u) = IF n + 1 <= N THEN N - (n + 1) + 1 ELSE 0
        /\ \A i \in 1..(N - (n + 1) + 1) : u[i] = s[(n + 1) + i - 1]
    BY <1>1, <1>2, SubSeqProperties
  <1> HIDE DEF u, N
  <1>4. Len(u) = N - n /\ DOMAIN u = 1..(N - n)
    BY <1>1, <1>3
  <1>5. \A i \in 1..(N - n) : n + i \in (n + 1)..N /\ u[i] = s[n + i]
    BY <1>1, <1>3
  <1>6. \A i \in (n + 1)..N : i - n \in 1..(N - n) /\ n + (i - n) = i
    BY <1>1
  <1>7. ToSet(u) = {s[i] : i \in (n + 1)..N}
    <2>1. ToSet(u) \subseteq {s[i] : i \in (n + 1)..N}
      BY <1>4, <1>5 DEF ToSet
    <2>2. ASSUME NEW i \in (n + 1)..N PROVE s[i] \in ToSet(u)
      <3>1. i - n \in 1..(N - n) /\ u[i - n] = s[i]
        BY <1>5, <1>6
      <3>2. QED
        BY <1>4, <3>1 DEF ToSet
    <2>3. QED
      BY <2>1, <2>2
  <1>8. QED
    BY <1>7 DEF Later, u, N

\* The prefixes of a list, and what follows them, when a result is added.
LEMMA PrefixFacts ==
  ASSUME NEW s, IsList(s), NEW x
  PROVE  LET t == Append(s, x)
         IN  /\ \A n \in 1..Len(s) : /\ SubSeq(t, 1, n) = SubSeq(s, 1, n)
                                     /\ t[n] = s[n]
                                     /\ Later(t, n) = Later(s, n) \cup {x}
             /\ SubSeq(t, 1, Len(s) + 1) = t /\ t[Len(s) + 1] = x
             /\ Later(t, Len(s) + 1) = {} /\ Later(s, Len(s)) = {}
             /\ SubSeq(s, 1, Len(s)) = s
  <1> DEFINE S == ToSet(s) \cup {x}
             N == Len(s)
             t == Append(s, x)
  <1>1. s \in Seq(S) /\ x \in S
    BY SeqMonotonic DEF IsList
  <1>2. /\ t \in Seq(S) /\ Len(t) = N + 1 /\ N \in Nat /\ t[N + 1] = x
        /\ \A i \in 1..N : t[i] = s[i]
    BY <1>1
  <1> HIDE DEF t, N
  <1>3. SubSeq(t, 1, N + 1) = t /\ SubSeq(s, 1, N) = s
    BY <1>1, <1>2, SubSeqFull DEF N
  <1>4. Later(t, N + 1) = {} /\ Later(s, N) = {}
    <2>1. Later(t, N + 1) = {t[i] : i \in ((N + 1) + 1)..(N + 1)}
      BY <1>2, LaterFacts
    <2>2. Later(s, N) = {s[i] : i \in (N + 1)..N}
      BY <1>1, <1>2, LaterFacts DEF N
    <2>3. QED
      BY <1>2, <2>1, <2>2
  <1>5. ASSUME NEW n \in 1..N PROVE SubSeq(t, 1, n) = SubSeq(s, 1, n)
    <2>1. n \in Nat /\ n <= N
      BY <1>2
    <2>2. \A i \in 1..n : t[i] = s[i] /\ s[i] \in S
      BY <1>1, <1>2, <2>1, ElementOfSeq DEF N
    <2>3. /\ SubSeq(t, 1, n) \in Seq(S) /\ Len(SubSeq(t, 1, n)) = n
          /\ \A i \in 1..n : SubSeq(t, 1, n)[i] = t[i]
      <3>1. \A i \in 1..n : t[i] \in S
        BY <2>2
      <3>2. /\ SubSeq(t, 1, n) \in Seq(S)
            /\ Len(SubSeq(t, 1, n)) = IF 1 <= n THEN n - 1 + 1 ELSE 0
            /\ \A i \in 1..(n - 1 + 1) : SubSeq(t, 1, n)[i] = t[1 + i - 1]
        BY <2>1, <3>1, SubSeqProperties
      <3>3. QED
        BY <2>1, <3>2
    <2>4. /\ SubSeq(s, 1, n) \in Seq(S) /\ Len(SubSeq(s, 1, n)) = n
          /\ \A i \in 1..n : SubSeq(s, 1, n)[i] = s[i]
      <3>1. \A i \in 1..n : s[i] \in S
        BY <2>2
      <3>2. /\ SubSeq(s, 1, n) \in Seq(S)
            /\ Len(SubSeq(s, 1, n)) = IF 1 <= n THEN n - 1 + 1 ELSE 0
            /\ \A i \in 1..(n - 1 + 1) : SubSeq(s, 1, n)[i] = s[1 + i - 1]
        BY <2>1, <3>1, SubSeqProperties
      <3>3. QED
        BY <2>1, <3>2
    <2>5. QED
      BY <2>2, <2>3, <2>4, SeqEqual
  <1>6. ASSUME NEW n \in 1..N PROVE Later(t, n) = Later(s, n) \cup {x}
    <2>1. Later(t, n) = {t[i] : i \in (n + 1)..(N + 1)}
      BY <1>2, LaterFacts
    <2>2. Later(s, n) = {s[i] : i \in (n + 1)..N}
      BY <1>1, <1>2, LaterFacts DEF N
    <2>3. (n + 1)..(N + 1) = ((n + 1)..N) \cup {N + 1} /\ (n + 1)..N \subseteq 1..N
      BY <1>2
    <2>4. QED
      BY <1>2, <2>1, <2>2, <2>3
  <1>7. QED
    BY <1>2, <1>3, <1>4, <1>5, <1>6 DEF t, N

\* One turn of the loop keeps the quotas, for any schedule, shares and results.
LEMMA QuotaStep ==
  ASSUME NEW s, IsList(s), NEW x, NEW old, NEW left, left \cup {x} = old,
         NEW share \in [Categories -> Nat],
         NEW categories \in Lists,
         Chosen(s, x, old, share, categories), FirstPage \in Nat,
         \A n \in 1..Len(s) : QuotaAt(s, old, share, categories, n)
  PROVE  \A n \in 1..(Len(s) + 1) : QuotaAt(Append(s, x), left, share, categories, n)
  <1> DEFINE t == Append(s, x)
             N == Len(s)
             D(q) == DiscoveryUsed(q)
  <1>1. N \in Nat
    BY ListFacts
  <1>2. /\ \A n \in 1..N : /\ SubSeq(t, 1, n) = SubSeq(s, 1, n) /\ t[n] = s[n]
                           /\ Rest(t, left, n) = Rest(s, old, n)
        /\ SubSeq(t, 1, N + 1) = t /\ t[N + 1] = x /\ SubSeq(s, 1, N) = s
        /\ Rest(t, left, N + 1) = left /\ Rest(s, old, N) = old
    BY PrefixFacts DEF Rest
  <1> HIDE DEF t, N
  <1>3. ASSUME NEW n \in 1..N PROVE QuotaAt(t, left, share, categories, n)
    <2>1. QuotaAt(s, old, share, categories, n)
      BY DEF N
    <2>2. BalanceAt(t, left, categories, n) /\ WantAt(t, left, share, n) /\ WeakAt(t, left, n)
      BY <1>2, <2>1 DEF QuotaAt, BalanceAt, WantAt, WeakAt
    <2>3. \A i \in 1..n : i \in 1..N
      BY <1>1
    <2>4. ExcessAt(t, left, share, n)
      BY <1>2, <2>1, <2>3 DEF QuotaAt, ExcessAt
    <2>5. QED
      BY <2>2, <2>4 DEF QuotaAt
  <1>4. BalanceAt(t, left, categories, N + 1)
    <2> SUFFICES ASSUME Len(categories) = 2
                 PROVE  LET used == CategoryUsed(t, categories[2])
                        IN  /\ used < (N + 1) \div 2 => \A r \in left : r.category # categories[2]
                            /\ used > (N + 1) \div 2 => \A r \in left : r.category # categories[1]
      BY <1>2 DEF BalanceAt
    <2>1. categories = <<"image", "video">>
      BY DEF Lists
    <2> DEFINE u == CategoryUsed(s, "video")
               v == CategoryUsed(t, "video")
               No(c) == \A r \in old : r.category # c
    <2>2. u \in Nat /\ v = u + (IF x.category = "video" THEN 1 ELSE 0)
      BY CountAppend DEF t, Categories
    <2>3. /\ u < N \div 2 => No("video")
          /\ u > N \div 2 => No("image")
      <3>1. CASE N = 0
        <4>1. s = <<>>
          BY <3>1, ListFacts DEF N
        <4>2. u = 0
          BY <4>1, CountEmpty DEF Categories
        <4>3. QED
          BY <3>1, <4>2
      <3>2. CASE N > 0
        <4>1. N \in 1..N
          BY <1>1, <3>2
        <4>2. BalanceAt(s, old, categories, N)
          BY <4>1 DEF QuotaAt, N
        <4>3. QED
          BY <1>2, <2>1, <4>2 DEF BalanceAt
      <3>3. QED
        BY <1>1, <3>1, <3>2
    <2>4. /\ x.category = "video" => u < (N + 1) \div 2 \/ No("image")
          /\ x.category = "image" => ~(u < (N + 1) \div 2) \/ No("video")
          /\ x.category \in {"image", "video"}
      BY <2>1 DEF Chosen, N
    <2>5. \A r \in left : r \in old
      OBVIOUS
    <2> HIDE DEF u, v, No
    <2>6. (v < (N + 1) \div 2 => No("video")) /\ (v > (N + 1) \div 2 => No("image"))
      BY <1>1, <2>2, <2>3, <2>4
    <2>7. QED
      BY <2>1, <2>5, <2>6 DEF u, v, No
  <1>5. /\ D(s) \in Nat /\ D(t) = D(s) + (IF x.pool = "discovery" THEN 1 ELSE 0)
        /\ Target(s, share) \in Nat /\ Target(t, share) \in Nat
        /\ Target(s, share) <= Target(t, share)
    BY CountAppend, TargetFacts DEF t
  <1>6. x.pool \in {"core", "discovery"}
    BY DEF Chosen, Pools
  <1>7. \A c : CoreIn(left, c) => CoreIn(old, c)
    BY DEF CoreIn
  <1>8. ExcessAt(t, left, share, N + 1)
    <2> SUFFICES ASSUME D(t) > Target(t, share)
                 PROVE  \E i \in 1..(N + 1) : t[i].pool = "discovery"
                                             /\ ~CoreIn(Rest(t, left, i), t[i].category)
      BY <1>2 DEF ExcessAt
    <2>1. CASE x.pool = "core"
      <3>1. D(s) > Target(s, share)
        BY <1>5, <2>1
      <3>2. N > 0
        <4> SUFFICES ASSUME N = 0 PROVE FALSE
          BY <1>1
        <4>1. s = <<>>
          BY ListFacts DEF N
        <4>2. D(s) = 0
          BY <4>1, CountEmpty
        <4>3. QED
          BY <1>5, <3>1, <4>2
      <3>3. N \in 1..N
        BY <1>1, <3>2
      <3>4. ExcessAt(s, old, share, N)
        BY <3>3 DEF QuotaAt, N
      <3>5. PICK i \in 1..N : s[i].pool = "discovery" /\ ~CoreIn(Rest(s, old, i), s[i].category)
        BY <1>2, <3>1, <3>4 DEF ExcessAt
      <3>6. i \in 1..(N + 1)
        BY <1>1
      <3>7. QED
        BY <1>2, <3>5, <3>6
    <2>2. CASE x.pool = "discovery"
      <3>1. ~(D(s) < Target(t, share))
        BY <1>5, <2>2
      <3>2. ~CoreIn(left, x.category)
        BY <1>7, <2>2, <3>1 DEF Chosen, t
      <3>3. N + 1 \in 1..(N + 1)
        BY <1>1
      <3>4. QED
        BY <1>2, <2>2, <3>2, <3>3
    <2>3. QED
      BY <1>6, <2>1, <2>2
  <1>9. WantAt(t, left, share, N + 1)
    <2> SUFFICES ASSUME x.pool = "core", D(t) < Target(t, share), NEW r \in left,
                        r.pool = "discovery", r.category = x.category
                 PROVE  N + 1 <= FirstPage /\ ~Strong(r)
      BY <1>2 DEF WantAt
    <2>1. D(s) < Target(t, share)
      BY <1>5
    <2>2. r \in old
      OBVIOUS
    <2>3. N < FirstPage /\ ~Strong(r)
      BY <2>1, <2>2 DEF Chosen, t, N
    <2>4. QED
      BY <1>1, <2>3
  <1>10. WeakAt(t, left, N + 1)
    <2> SUFFICES ASSUME x.pool = "discovery", ~Strong(x), N + 1 <= FirstPage,
                        CoreIn(left, x.category)
                 PROVE  FALSE
      BY <1>2 DEF WeakAt
    <2>1. N < FirstPage
      BY <1>1
    <2>2. QED
      BY <1>7, <2>1 DEF Chosen, N
  <1>11. \A n \in 1..(N + 1) : n \in 1..N \/ n = N + 1
    BY <1>1
  <1>12. QED
    BY <1>3, <1>4, <1>8, <1>9, <1>10, <1>11 DEF QuotaAt, t, N

\* A share is a percentage.
LEMMA SharesType == RankInv => Shares \in [Categories -> Nat]
  <1> SUFFICES ASSUME RankInv PROVE \A cat \in Categories : Share(cat) \in Nat
    BY DEF Shares
  <1>1. settings.percent \in 0..100 /\ settings.weakPercent \in 0..100
    BY DEF RankInv, SettingsOK
  <1>2. \A n \in 0..100 : n \in Nat
    OBVIOUS
  <1>3. QED
    BY <1>1, <1>2, Zenon DEF Share

\* What a lane has, when it is available.
LEMMA LaneFacts ==
  ASSUME LanesRanked, NEW pool \in Pools, NEW cat \in Categories
  PROVE  LET ranked == lane[pool][cat]
         IN  /\ IsList(ranked)
             /\ ranked # <<>> => Head(ranked) \in ToSet(ranked)
             /\ \A r \in ToSet(ranked) : r.pool = pool /\ r.category = cat
             /\ ranked # <<>> /\ pool = "discovery" /\ ~Strong(Head(ranked)) =>
                  \A r \in ToSet(ranked) : ~Strong(r)
  <1> DEFINE l == lane[pool][cat]
  <1>1. /\ l \in Seq(ToSet(l))
        /\ \A r \in ToSet(l) : r.pool = pool /\ r.category = cat
        /\ pool = "discovery" => \A i, j \in DOMAIN l : i < j /\ Strong(l[j]) => Strong(l[i])
    BY DEF LanesRanked
  <1> HIDE DEF l
  <1>2. IsList(l)
    BY <1>1 DEF IsList
  <1>3. /\ Len(l) \in Nat /\ DOMAIN l = 1..Len(l) /\ (l = <<>> <=> Len(l) = 0)
        /\ \A i \in 1..Len(l) : l[i] \in ToSet(l)
        /\ \A r \in ToSet(l) : \E i \in 1..Len(l) : r = l[i]
    BY <1>2, ListFacts
  <1>4. l # <<>> => 1 \in 1..Len(l) /\ Head(l) = l[1]
    BY <1>1, <1>3
  <1>5. ASSUME l # <<>>, pool = "discovery", ~Strong(l[1]), NEW r \in ToSet(l)
        PROVE  ~Strong(r)
    <2>1. PICK i \in 1..Len(l) : r = l[i]
      BY <1>3
    <2>2. i = 1 \/ 1 < i
      BY <1>3
    <2>3. QED
      BY <1>1, <1>3, <1>4, <1>5, <2>1, <2>2
  <1>6. QED
    BY <1>1, <1>2, <1>3, <1>4, <1>5 DEF l

\* A category with something left is available, and a pool with something of it.
LEMMA LeftFacts ==
  ASSUME LanesRanked, QuotaInv
  PROVE  /\ ToSet(cats) \subseteq Categories
         /\ \A cat \in ToSet(cats), pool \in Pools : ToSet(lane[pool][cat]) \subseteq Left
         /\ \A r \in Left : /\ r.category \in ToSet(cats) /\ r.pool \in Pools
                            /\ r \in ToSet(lane[r.pool][r.category])
                            /\ lane[r.pool][r.category] # <<>>
                            /\ Available(r.category)
  <1>1. ToSet(cats) \subseteq Categories
    BY DEF QuotaInv, ToSet, Categories, Lists
  <1>2. \A cat \in ToSet(cats), pool \in Pools : ToSet(lane[pool][cat]) \subseteq Left
    BY DEF Left
  <1>3. ASSUME NEW r \in Left
        PROVE  /\ r.category \in ToSet(cats) /\ r.pool \in Pools
               /\ r \in ToSet(lane[r.pool][r.category])
               /\ lane[r.pool][r.category] # <<>> /\ Available(r.category)
    <2>1. PICK pool \in Pools, cat \in ToSet(cats) : r \in ToSet(lane[pool][cat])
      BY DEF Left
    <2>2. r.pool = pool /\ r.category = cat
      BY <1>1, <2>1, LaneFacts
    <2>3. lane[pool][cat] # <<>>
      BY <2>1, EmptyList
    <2>4. QED
      BY <2>1, <2>2, <2>3 DEF Available, Pools
  <1>4. QED
    BY <1>1, <1>2, <1>3

\* The category the loop turns to.
LEMMA NextFacts ==
  ASSUME QuotaInv, \E cat \in ToSet(cats) : Available(cat)
  PROVE  LET cat == NextCategory
             due == CategoryUsed(scheduled, cats[2]) < (Len(scheduled) + 1) \div 2
         IN  /\ cat \in ToSet(cats) /\ Available(cat)
             /\ Len(cats) = 2 => /\ cat = cats[2] => due \/ ~Available(cats[1])
                                 /\ cat = cats[1] => ~due \/ ~Available(cats[2])
  <1> DEFINE due == CategoryUsed(scheduled, cats[2]) < (Len(scheduled) + 1) \div 2
             first == IF Len(cats) > 1 /\ due THEN cats[2] ELSE cats[1]
             other == CHOOSE cat \in ToSet(cats) : Available(cat)
  <1>1. NextCategory = IF Available(first) THEN first ELSE other
    BY DEF NextCategory
  <1>2. other \in ToSet(cats) /\ Available(other)
    OBVIOUS
  <1> HIDE DEF due, other
  <1>3. CASE cats = <<"image", "video">>
    <2>1. Len(cats) = 2 /\ cats[1] = "image" /\ cats[2] = "video" /\ ToSet(cats) = {"image", "video"}
      BY <1>3 DEF ToSet
    <2>2. QED
      BY <1>1, <1>2, <2>1 DEF due
  <1>4. CASE cats = <<"image">> \/ cats = <<"video">>
    <2>1. Len(cats) = 1 /\ ToSet(cats) = {cats[1]}
      BY <1>4 DEF ToSet
    <2>2. QED
      BY <1>1, <1>2, <2>1
  <1>5. QED
    BY <1>3, <1>4 DEF QuotaInv, Lists

\* What a turn of the loop does to the lanes.
LEMMA ScheduleTakes ==
  ASSUME QuotaInv, LanesRanked, Schedule
  PROVE  LET cat == NextCategory
             pool == IF TakesDiscovery(cat) THEN "discovery" ELSE "core"
         IN  /\ cat \in ToSet(cats) /\ cat \in Categories /\ Available(cat) /\ pool \in Pools
             /\ lane[pool][cat] # <<>>
             /\ scheduled' = Append(scheduled, Head(lane[pool][cat])) /\ cats' = cats
             /\ DOMAIN lane' = Pools /\ \A p \in Pools : DOMAIN lane'[p] = Categories
             /\ \A p \in Pools, c \in Categories :
                  lane'[p][c] = IF p = pool /\ c = cat THEN Tail(lane[p][c]) ELSE lane[p][c]
  <1> DEFINE cat == NextCategory
             pool == IF TakesDiscovery(cat) THEN "discovery" ELSE "core"
             x == Head(lane[pool][cat])
  <1>1. /\ scheduled' = Append(scheduled, x) /\ lane' = [lane EXCEPT ![pool][cat] = Tail(@)]
        /\ cats' = cats /\ \E c \in ToSet(cats) : Available(c)
    BY DEF Schedule
  <1>2. cat \in ToSet(cats) /\ cat \in Categories /\ Available(cat)
    BY <1>1, NextFacts, LeftFacts
  <1> HIDE DEF cat
  <1>3. pool \in Pools /\ lane[pool][cat] # <<>>
    BY <1>2 DEF Pools, Available, TakesDiscovery
  <1>4. /\ DOMAIN lane' = Pools /\ \A p \in Pools : DOMAIN lane'[p] = Categories
        /\ \A p \in Pools, c \in Categories :
             lane'[p][c] = IF p = pool /\ c = cat THEN Tail(lane[p][c]) ELSE lane[p][c]
    <2> HIDE DEF pool, x
    <2>1. DOMAIN lane = Pools /\ \A p \in Pools : DOMAIN lane[p] = Categories
      BY DEF QuotaInv
    <2>2. QED
      BY <1>1, <1>2, <1>3, <2>1
  <1>5. QED
    BY <1>1, <1>2, <1>3, <1>4 DEF cat

\* A turn of the loop chooses as Chosen says.
LEMMA ScheduleChooses ==
  ASSUME RankInv, QuotaInv, LanesRanked, Schedule
  PROVE  /\ DOMAIN lane' = Pools /\ \A pool \in Pools : DOMAIN lane'[pool] = Categories
         /\ \E x : /\ scheduled' = Append(scheduled, x)
                   /\ Chosen(scheduled, x, Left, Shares, cats)
                   /\ Left' \cup {x} = Left
  <1> DEFINE cat == NextCategory
             pool == IF TakesDiscovery(cat) THEN "discovery" ELSE "core"
             x == Head(lane[pool][cat])
  <1>1. /\ cat \in ToSet(cats) /\ cat \in Categories /\ Available(cat) /\ pool \in Pools
        /\ lane[pool][cat] # <<>> /\ scheduled' = Append(scheduled, x) /\ cats' = cats
        /\ DOMAIN lane' = Pools /\ \A p \in Pools : DOMAIN lane'[p] = Categories
        /\ \A p \in Pools, c \in Categories :
             lane'[p][c] = IF p = pool /\ c = cat THEN Tail(lane[p][c]) ELSE lane[p][c]
    BY ScheduleTakes
  <1> HIDE DEF cat
  <1>2. x \in ToSet(lane[pool][cat]) /\ x.pool = pool /\ x.category = cat
    BY <1>1, LaneFacts
  <1>3. x \in Left
    BY <1>1, <1>2, LeftFacts
  <1>4. Left' \cup {x} = Left
    <2>1. ToSet(lane[pool][cat]) = ToSet(Tail(lane[pool][cat])) \cup {x}
      BY <1>1, LaneFacts, TailFacts
    <2>2. Left' = UNION {ToSet(lane'[p][c]) : p \in Pools, c \in ToSet(cats)}
      BY <1>1 DEF Left
    <2> HIDE DEF pool, x
    <2>3. \A p \in Pools, c \in ToSet(cats) :
            /\ ToSet(lane'[p][c]) \subseteq ToSet(lane[p][c])
            /\ ToSet(lane[p][c]) \subseteq ToSet(lane'[p][c]) \cup {x}
      BY <1>1, <2>1, LeftFacts
    <2>4. ASSUME NEW r \in Left' PROVE r \in Left
      <3>1. PICK p \in Pools, c \in ToSet(cats) : r \in ToSet(lane'[p][c])
        BY <2>2
      <3>2. r \in ToSet(lane[p][c])
        BY <2>3, <3>1
      <3>3. QED
        BY <3>1, <3>2 DEF Left
    <2>5. ASSUME NEW r \in Left PROVE r \in Left' \cup {x}
      <3>1. PICK p \in Pools, c \in ToSet(cats) : r \in ToSet(lane[p][c])
        BY DEF Left
      <3>2. r \in ToSet(lane'[p][c]) \cup {x}
        BY <2>3, <3>1
      <3>3. QED
        BY <2>2, <3>1, <3>2
    <2>6. QED
      BY <1>3, <2>4, <2>5
  <1>5. Chosen(scheduled, x, Left, Shares, cats)
    <2>1. x.pool \in Pools /\ \E i \in DOMAIN cats : x.category = cats[i]
      BY <1>1, <1>2 DEF ToSet
    <2>2. Len(cats) = 2 =>
            LET due == CategoryUsed(scheduled, cats[2]) < (Len(scheduled) + 1) \div 2
            IN  /\ x.category = cats[2] => due \/ \A r \in Left : r.category # cats[1]
                /\ x.category = cats[1] => ~due \/ \A r \in Left : r.category # cats[2]
      <3>1. \A c : ~Available(c) => \A r \in Left : r.category # c
        BY LeftFacts
      <3>2. QED
        BY <1>1, <1>2, <3>1, NextFacts DEF cat
    <2>3. \A t : Target(t, Shares) = TargetDiscovery(t)
      BY DEF Target, TargetDiscovery, Shares, Categories
    <2>4. ASSUME x.pool = "core", DiscoveryUsed(scheduled) < Target(Append(scheduled, x), Shares),
                 NEW r \in Left, r.pool = "discovery", r.category = x.category
          PROVE  Len(scheduled) < FirstPage /\ ~Strong(r)
      <3>1. ~TakesDiscovery(cat) /\ pool = "core"
        BY <1>2, <2>4
      <3>2. r \in ToSet(lane["discovery"][cat]) /\ lane["discovery"][cat] # <<>>
        BY <1>2, <2>4, LeftFacts
      <3>3. Len(scheduled) < FirstPage /\ ~Strong(Head(lane["discovery"][cat]))
        BY <2>3, <2>4, <3>1, <3>2 DEF TakesDiscovery
      <3>4. QED
        BY <1>1, <3>2, <3>3, LaneFacts DEF Pools
    <2>5. ASSUME x.pool = "discovery", CoreIn(Left, x.category)
          PROVE  /\ DiscoveryUsed(scheduled) < Target(Append(scheduled, x), Shares)
                 /\ Len(scheduled) < FirstPage => Strong(x)
      <3>1. TakesDiscovery(cat) /\ pool = "discovery"
        BY <1>2, <2>5
      <3>2. lane["core"][cat] # <<>>
        BY <1>2, <2>5, LeftFacts DEF CoreIn
      <3>3. /\ DiscoveryUsed(scheduled)
                 < TargetDiscovery(Append(scheduled, Head(lane["core"][cat])))
            /\ Len(scheduled) < FirstPage => Strong(x)
        BY <3>1, <3>2 DEF TakesDiscovery
      <3>4. Head(lane["core"][cat]).category = x.category
        BY <1>1, <1>2, <3>2, LaneFacts DEF Pools
      <3>5. Target(Append(scheduled, x), Shares)
              = Target(Append(scheduled, Head(lane["core"][cat])), Shares)
        BY <3>4, TargetFacts, SharesType DEF RankInv
      <3>6. QED
        BY <2>3, <3>3, <3>5
    <2>6. QED
      BY <1>3, <2>1, <2>2, <2>4, <2>5 DEF Chosen
  <1>6. QED
    BY <1>1, <1>4, <1>5

\* Every step keeps the quotas.
LEMMA QuotaInvStep ==
  ASSUME RankInv, QuotaInv, LanesRanked, [Next]_vars
  PROVE  QuotaInv'
  <1>1. CASE Schedule
    <2>1. PICK x : /\ scheduled' = Append(scheduled, x)
                   /\ Chosen(scheduled, x, Left, Shares, cats)
                   /\ Left' \cup {x} = Left
      BY <1>1, ScheduleChooses
    <2>2. cats' = cats /\ Shares' = Shares
      BY <1>1 DEF Schedule, Shares, Share
    <2>3. IsList(scheduled) /\ Shares \in [Categories -> Nat] /\ FirstPage \in Nat
      BY SharesType, RankingAssumption DEF RankInv, RankingAssumption
    <2>4. Len(scheduled') = Len(scheduled) + 1
      BY <2>1, <2>3, AppendFacts
    <2>5. cats \in Lists
          /\ \A n \in 1..Len(scheduled) : QuotaAt(scheduled, Left, Shares, cats, n)
      BY DEF QuotaInv
    <2>6. \A n \in 1..(Len(scheduled) + 1) : QuotaAt(scheduled', Left', Shares, cats, n)
      BY <2>1, <2>3, <2>5, QuotaStep
    <2>7. QED
      BY <1>1, <2>2, <2>4, <2>5, <2>6, ScheduleChooses DEF QuotaInv
  <1>2. CASE Scheduled \/ Diversify \/ Return \/ UNCHANGED vars
    <2>1. UNCHANGED <<cats, settings, weak, lane, scheduled>>
      BY <1>2 DEF Scheduled, Diversify, Return, vars
    <2>2. Left' = Left /\ Shares' = Shares
      BY <2>1 DEF Left, Shares, Share
    <2>3. QED
      BY <2>1, <2>2 DEF QuotaInv
  <1>3. CASE Weigh \/ Fallback \/ Postprocess
    <2>1. scheduled' = <<>> /\ cats' = cats
      BY <1>3 DEF Weigh, Fallback, Postprocess, RankInv, PassOK
    <2>2. \A n \in 1..Len(scheduled') : FALSE
      BY <2>1
    <2>3. DOMAIN lane' = Pools /\ \A pool \in Pools : DOMAIN lane'[pool] = Categories
      BY <1>3 DEF Weigh, Fallback, Postprocess, QuotaInv
    <2>4. QED
      BY <2>1, <2>2, <2>3 DEF QuotaInv
  <1>4. QED
    BY <1>1, <1>2, <1>3 DEF Next

\* The invariant says of every prefix what the property asks.
LEMMA QuotasFollow == RankInv /\ QuotaInv => QuotasMet
  <1> SUFFICES ASSUME RankInv, QuotaInv, NEW n \in DOMAIN scheduled
               PROVE  LET prefix == SubSeq(scheduled, 1, n)
                      IN  /\ Balanced(n, prefix, Later(scheduled, n))
                          /\ DiscoveryOnTarget(n, prefix, Later(scheduled, n))
    BY DEF QuotasMet
  <1> DEFINE prefix == SubSeq(scheduled, 1, n)
             later == Later(scheduled, n)
  <1>1. /\ Len(scheduled) \in Nat /\ DOMAIN scheduled = 1..Len(scheduled)
        /\ n \in Nat /\ n \in 1..Len(scheduled)
    BY ListFacts DEF RankInv
  <1>2. QuotaAt(scheduled, Left, Shares, cats, n)
    BY <1>1 DEF QuotaInv
  <1>3. \A i : Later(scheduled, i) \subseteq Rest(scheduled, Left, i)
    BY DEF Rest
  <1>4. \A t : Target(t, Shares) = TargetDiscovery(t)
    BY DEF Target, TargetDiscovery, Shares, Categories
  <1>5. Balanced(n, prefix, later)
    BY <1>2, <1>3 DEF QuotaAt, BalanceAt, Balanced
  <1>6. \A i \in 1..n : prefix[i] = scheduled[i]
    <2>1. \A i \in 1..n : scheduled[i] \in ToSet(scheduled)
      BY <1>1, ListFacts DEF RankInv
    <2>2. \A i \in 1..(n - 1 + 1) : prefix[i] = scheduled[1 + i - 1]
      BY <1>1, <2>1, SubSeqProperties
    <2> HIDE DEF prefix
    <2>3. QED
      BY <1>1, <2>2
  <1>7. DiscoveryOnTarget(n, prefix, later)
    <2> HIDE DEF prefix, later
    <2>1. prefix[n] = scheduled[n]
      BY <1>1, <1>6
    <2>2. \A cat, i : (\E r \in Later(scheduled, i) : r.pool = "core" /\ r.category = cat)
                        => CoreIn(Rest(scheduled, Left, i), cat)
      BY <1>3 DEF CoreIn
    <2>3. DiscoveryUsed(prefix) > TargetDiscovery(prefix) =>
            \E i \in 1..n : /\ prefix[i].pool = "discovery"
                            /\ ~\E r \in Later(scheduled, i) :
                                  r.pool = "core" /\ r.category = prefix[i].category
      BY <1>2, <1>4, <1>6, <2>2 DEF QuotaAt, ExcessAt, prefix
    <2>4. prefix[n].pool = "core" /\ DiscoveryUsed(prefix) < TargetDiscovery(prefix) =>
            \A r \in later : r.pool = "discovery" /\ r.category = prefix[n].category =>
              n <= FirstPage /\ ~Strong(r)
      BY <1>2, <1>3, <1>4, <2>1 DEF QuotaAt, WantAt, prefix, later
    <2>5. prefix[n].pool = "discovery" /\ ~Strong(prefix[n]) /\ n <= FirstPage =>
            ~\E r \in Later(scheduled, n) : r.pool = "core" /\ r.category = prefix[n].category
      BY <1>2, <2>1, <2>2 DEF QuotaAt, WeakAt
    <2>6. QED
      BY <2>3, <2>4, <2>5 DEF DiscoveryOnTarget
  <1>8. QED
    BY <1>5, <1>7

\* An empty schedule keeps them.
LEMMA InitQuota == Init => QuotaInv
  <1> SUFFICES ASSUME Init PROVE QuotaInv
    OBVIOUS
  <1>1. cats \in Lists
    BY RankingAssumption DEF RankingAssumption, Init
  <1>2. \A n \in 1..Len(scheduled) : FALSE
    BY DEF Init
  <1>3. DOMAIN lane = Pools /\ \A pool \in Pools : DOMAIN lane[pool] = Categories
    BY DEF Init
  <1>4. QED
    BY <1>1, <1>2, <1>3 DEF QuotaInv

-----------------------------------------------------------------------------
(* Results, and what they are worth                                        *)

\* A result with every field in its type.
Hosts == {""} \cup UNION {{u.host : u \in Links(raw)} : raw \in Raws}
URLs == [name : Nat, host : Hosts, form : Forms]
Names == UNION {EnginesOf(raw) : raw \in Raws}
Titles == {raw.title : raw \in Raws}
Results ==
  [id : Nat, category : Categories, pool : Pools, order : Nat,
   media : URLs, thumb : URLs, page : URLs, title : Titles,
   engines : {E \in SUBSET Names : IsFiniteSet(E)},
   positions : {P \in SUBSET Int : IsFiniteSet(P)}, score : Int, size : Sizes]

\* A coverage is a number, for any title.
LEMMA CoverageType == \A title : TitleCoverage(title) \in Nat
  <1> SUFFICES ASSUME NEW title PROVE TitleCoverage(title) \in Nat
    OBVIOUS
  <1> DEFINE n == Len(Query)
             matched == Cardinality(ToSet(Query) \cap ToSet(title))
             Pairs == {i \in 1..(Len(Query) - 1) : Occurs(<<Query[i], Query[i + 1]>>, title)}
             pairs == Cardinality(Pairs)
             percent == (100 * matched) \div n + (IF n > 1 THEN (25 * pairs) \div (n - 1) ELSE 0)
  <1>1. n \in Nat /\ n > 0 /\ DOMAIN Query = 1..n
    BY ListFacts, RankingAssumption DEF RankingAssumption, IsList
  <1>2. IsFiniteSet(1..n) /\ IsFiniteSet(1..(n - 1))
    BY <1>1, FS_Interval
  <1>3. IsFiniteSet(ToSet(Query))
    <2> DEFINE f == [i \in 1..n |-> Query[i]]
    <2>1. f \in Surjection(1..n, ToSet(Query))
      BY <1>1 DEF Surjection, ToSet
    <2>2. QED
      BY <1>2, <2>1, FS_Surjection
  <1>4. matched \in Nat
    BY <1>3, FS_Intersection, FS_CardinalityType
  <1>5. pairs \in Nat
    BY <1>2, FS_Subset, FS_CardinalityType
  <1>6. TitleCoverage(title) = IF Occurs(Query, title) THEN 100 ELSE Min({percent, 100})
    BY DEF TitleCoverage
  <1> HIDE DEF n, matched, pairs
  <1>7. percent \in Nat
    <2>1. \A a, b \in Nat : b > 0 => (100 * a) \div b \in Nat /\ (25 * a) \div b \in Nat
      OBVIOUS
    <2>2. (100 * matched) \div n \in Nat
      BY <1>1, <1>4, <2>1
    <2>3. n > 1 => (25 * pairs) \div (n - 1) \in Nat
      <3>1. n > 1 => n - 1 \in Nat /\ n - 1 > 0
        BY <1>1
      <3>2. QED
        BY <1>5, <2>1, <3>1
    <2>4. QED
      BY <2>2, <2>3
  <1> HIDE DEF percent
  <1>8. Min({percent, 100}) \in Nat
    BY <1>7, MinPair
  <1>9. QED
    BY <1>6, <1>8

\* So is the quality of a medium.
LEMMA QualityType == \A r \in Results : MediaQuality(r) \in Nat
  BY DEF MediaQuality, Results, Sizes, Categories

\* And the score of a result, for any greatest ones.
LEMMA ScoreType ==
  ASSUME NEW r \in Results, NEW maxScore \in Int, NEW maxRRF \in Int
  PROVE  RankScore(r, maxScore, maxRRF) \in Int
  <1>1. r.score \in Int /\ IsFiniteSet(r.positions) /\ r.positions \subseteq Int /\ IsFiniteSet(r.engines)
    BY DEF Results
  <1>2. ReciprocalRank(r.positions) \in Int
    BY <1>1, RankSum
  <1>3. \A v, m \in Int : Normalized(v, m) \in Int
    BY DEF Normalized
  <1>4. Larger(Normalized(r.score, maxScore), Normalized(ReciprocalRank(r.positions), maxRRF)) \in Int
    <2>1. Normalized(r.score, maxScore) \in Int /\ Normalized(ReciprocalRank(r.positions), maxRRF) \in Int
      BY <1>1, <1>2, <1>3
    <2>2. QED
      BY <2>1 DEF Larger
  <1>5. Coverage(r) \in Int /\ MediaQuality(r) \in Int
    BY CoverageType, QualityType DEF Coverage
  <1>6. Min({Cardinality(r.engines), 3}) \in Int
    <2>1. Cardinality(r.engines) \in Int
      BY <1>1, FS_CardinalityType
    <2>2. QED
      BY <2>1, MinPair
  <1>7. QED
    BY <1>4, <1>5, <1>6 DEF RankScore

\* The rank of a place is the number of places before it.
LEMMA RankPlaces ==
  ASSUME NEW n \in Nat, NEW Lt \in SUBSET ((1..n) \X (1..n)),
         \A i \in 1..n : <<i, i>> \notin Lt,
         \A i, j, k \in 1..n : <<i, j>> \in Lt /\ <<j, k>> \in Lt => <<i, k>> \in Lt,
         \A i, j \in 1..n : i # j => <<i, j>> \in Lt \/ <<j, i>> \in Lt
  PROVE  LET rank == [i \in 1..n |-> 1 + Cardinality({j \in 1..n : <<j, i>> \in Lt})]
         IN  /\ rank \in [1..n -> 1..n]
             /\ \A i, j \in 1..n : rank[i] = rank[j] => i = j
             /\ \A k \in 1..n : \E i \in 1..n : rank[i] = k
  <1> DEFINE Earlier(i) == {j \in 1..n : <<j, i>> \in Lt}
             rank == [i \in 1..n |-> 1 + Cardinality(Earlier(i))]
  <1>1. IsFiniteSet(1..n) /\ Cardinality(1..n) = n
    BY FS_Interval
  <1>2. ASSUME NEW i \in 1..n
        PROVE  /\ Earlier(i) \in SUBSET (1..n)
               /\ IsFiniteSet(Earlier(i)) /\ Cardinality(Earlier(i)) \in Nat
    <2>1. Earlier(i) \in SUBSET (1..n)
      OBVIOUS
    <2> HIDE DEF Earlier
    <2>2. QED
      BY <1>1, <2>1, FS_Subset, FS_CardinalityType
  <1>3. ASSUME NEW i \in 1..n PROVE rank[i] \in 1..n
    <2>1. Earlier(i) \in SUBSET (1..n) /\ Earlier(i) # 1..n
      OBVIOUS
    <2> HIDE DEF Earlier
    <2>2. Cardinality(Earlier(i)) <= n /\ Cardinality(Earlier(i)) # n
      BY <1>1, <2>1, FS_Subset
    <2>3. QED
      BY <1>2, <2>2
  <1>4. ASSUME NEW i \in 1..n, NEW j \in 1..n, <<i, j>> \in Lt PROVE rank[i] # rank[j]
    <2>1. Earlier(i) \in SUBSET Earlier(j) /\ Earlier(i) # Earlier(j)
      <3>1. \A k \in Earlier(i) : k \in Earlier(j)
        BY <1>4
      <3>2. i \in Earlier(j) /\ i \notin Earlier(i)
        BY <1>4
      <3>3. QED
        BY <3>1, <3>2, Zenon
    <2> HIDE DEF Earlier
    <2>2. Cardinality(Earlier(i)) <= Cardinality(Earlier(j)) /\ Cardinality(Earlier(i)) # Cardinality(Earlier(j))
      BY <1>2, <2>1, FS_Subset
    <2>3. QED
      BY <1>2, <2>2
  <1>5. \A i, j \in 1..n : rank[i] = rank[j] => i = j
    BY <1>4
  <1>6. rank \in Injection(1..n, 1..n)
    <2>1. rank \in [1..n -> 1..n]
      BY <1>3
    <2> HIDE DEF rank
    <2>2. QED
      BY <1>5, <2>1 DEF Injection, IsInjective
  <1>7. rank \in Surjection(1..n, 1..n)
    BY <1>1, <1>6, FS_Injection
  <1>8. rank \in [1..n -> 1..n] /\ \A k \in 1..n : \E i \in 1..n : rank[i] = k
    BY <1>7 DEF Surjection
  <1>9. QED
    BY <1>5, <1>8

\* The greatest of a list of integers and 0.
LEMMA MaxType ==
  ASSUME NEW n \in Nat, NEW f \in [1..n -> Int]
  PROVE  Max({0} \cup {f[i] : i \in 1..n}) \in Int
  <1> DEFINE S == {f[i] : i \in 1..n}
  <1>1. S \subseteq Int
    OBVIOUS
  <1>2. IsFiniteSet(S)
    <2>1. f \in Surjection(1..n, S)
      BY DEF Surjection
    <2>2. IsFiniteSet(1..n)
      BY FS_Interval
    <2>3. QED
      BY <2>1, <2>2, FS_Surjection
  <1> HIDE DEF S
  <1>3. IsFiniteSet(S \cup {0}) /\ {0} \cup S = S \cup {0}
    BY <1>2, FS_AddElement
  <1>4. {0} \cup S \subseteq Int /\ {0} \cup S # {}
    BY <1>1
  <1>5. Max({0} \cup S) \in {0} \cup S
    BY <1>3, <1>4, MaxFacts
  <1>6. QED
    BY <1>4, <1>5 DEF S

\* Ranking a list of distinct results rearranges it.
LEMMA RankGroupFacts ==
  ASSUME NEW s, IsList(s), ToSet(s) \subseteq Results, Distinct(s)
  PROVE  IsList(RankGroup(s)) /\ ToSet(RankGroup(s)) = ToSet(s) /\ Distinct(RankGroup(s))
  <1> DEFINE n == Len(s)
             maxScore == Max({0} \cup {r.score : r \in ToSet(s)})
             maxRRF == Max({0} \cup {ReciprocalRank(r.positions) : r \in ToSet(s)})
             Score(r) == RankScore(r, maxScore, maxRRF)
             Before(r, q) ==
               \/ Score(r) > Score(q)
               \/ /\ Score(r) = Score(q)
                  /\ \/ r.order < q.order
                     \/ r.order = q.order /\ r.id < q.id
             Earlier(i) == {j \in DOMAIN s : Before(s[j], s[i])}
             places == {<<1 + Cardinality(Earlier(i)), s[i]>> : i \in DOMAIN s}
             t == RankGroup(s)
  <1>1. t = [k \in DOMAIN s |-> (CHOOSE p \in places : p[1] = k)[2]]
    BY DEF RankGroup
  <1>2. n \in Nat /\ DOMAIN s = 1..n /\ \A i \in 1..n : s[i] \in Results /\ s[i] \in ToSet(s)
    BY ListFacts
  <1>3. maxScore \in Int
    <2> DEFINE f == [i \in 1..n |-> s[i].score]
    <2>1. f \in [1..n -> Int]
      BY <1>2 DEF Results
    <2>2. {r.score : r \in ToSet(s)} = {f[i] : i \in 1..n}
      BY <1>2 DEF ToSet
    <2>3. QED
      BY <1>2, <2>1, <2>2, MaxType
  <1>4. maxRRF \in Int
    <2> DEFINE f == [i \in 1..n |-> ReciprocalRank(s[i].positions)]
    <2>1. \A i \in 1..n : ReciprocalRank(s[i].positions) \in Int
      <3>1. \A i \in 1..n : IsFiniteSet(s[i].positions) /\ s[i].positions \subseteq Int
        BY <1>2 DEF Results
      <3>2. QED
        BY <3>1, RankSum
    <2>2. f \in [1..n -> Int]
      BY <2>1
    <2>3. {ReciprocalRank(r.positions) : r \in ToSet(s)} = {f[i] : i \in 1..n}
      BY <1>2 DEF ToSet
    <2>4. QED
      BY <1>2, <2>2, <2>3, MaxType
  <1> HIDE DEF maxScore, maxRRF
  <1>5. \A r \in Results : Score(r) \in Int
    BY <1>3, <1>4, ScoreType
  <1> HIDE DEF Score, n, t
  <1>6. \A i \in 1..n : /\ Score(s[i]) \in Int /\ s[i].order \in Int /\ s[i].id \in Int
    <2>1. \A i \in 1..n : Score(s[i]) \in Int
      BY <1>2, <1>5, Zenon
    <2>2. \A i \in 1..n : s[i].order \in Int /\ s[i].id \in Int
      BY <1>2 DEF Results
    <2>3. QED
      BY <2>1, <2>2, Zenon
  <1>7. \A i, j \in 1..n : i # j => s[i].id # s[j].id
    BY <1>2 DEF Distinct
  <1>8. \A i \in 1..n : ~Before(s[i], s[i])
    BY <1>6
  <1>9. \A i, j, k \in 1..n : Before(s[i], s[j]) /\ Before(s[j], s[k]) => Before(s[i], s[k])
    BY <1>6
  <1>10. \A i, j \in 1..n : i # j => Before(s[i], s[j]) \/ Before(s[j], s[i])
    BY <1>6, <1>7
  <1> HIDE DEF Before
  <1> DEFINE Lt == {p \in (1..n) \X (1..n) : Before(s[p[1]], s[p[2]])}
  <1>11. /\ Lt \in SUBSET ((1..n) \X (1..n))
         /\ \A i, j \in 1..n : <<i, j>> \in Lt <=> Before(s[i], s[j])
    OBVIOUS
  <1>12. \A i \in 1..n : Earlier(i) = {j \in 1..n : <<j, i>> \in Lt}
    BY <1>2, <1>11
  <1> DEFINE rank == [i \in 1..n |-> 1 + Cardinality({j \in 1..n : <<j, i>> \in Lt})]
  <1>13. \A i \in 1..n : rank[i] = 1 + Cardinality(Earlier(i))
    BY <1>12
  <1> HIDE DEF Earlier, Lt
  <1>14. /\ rank \in [1..n -> 1..n]
         /\ \A i, j \in 1..n : rank[i] = rank[j] => i = j
         /\ \A k \in 1..n : \E i \in 1..n : rank[i] = k
    BY <1>2, <1>8, <1>9, <1>10, <1>11, RankPlaces
  <1>15. places = {<<rank[i], s[i]>> : i \in 1..n}
    BY <1>2, <1>13
  <1> HIDE DEF rank, places
  <1>16. ASSUME NEW i \in 1..n PROVE rank[i] \in 1..n /\ t[rank[i]] = s[i]
    <2>1. <<rank[i], s[i]>> \in places
      BY <1>15
    <2>2. \A p \in places : p[1] = rank[i] => p = <<rank[i], s[i]>>
      BY <1>14, <1>15
    <2>3. (CHOOSE p \in places : p[1] = rank[i]) = <<rank[i], s[i]>>
      BY <2>1, <2>2
    <2>4. rank[i] \in 1..n
      BY <1>14
    <2>5. \A k \in 1..n : t[k] = (CHOOSE p \in places : p[1] = k)[2]
      BY <1>1, <1>2
    <2>6. t[rank[i]] = <<rank[i], s[i]>>[2]
      BY <2>3, <2>4, <2>5, Zenon
    <2>7. QED
      BY <2>4, <2>6
  <1>17. \A k \in 1..n : \E i \in 1..n : k = rank[i] /\ t[k] = s[i]
    BY <1>14, <1>16
  <1>18. DOMAIN t = 1..n
    BY <1>1, <1>2
  <1>19. ToSet(t) = ToSet(s)
    <2>1. \A r \in ToSet(t) : r \in ToSet(s)
      BY <1>2, <1>17, <1>18 DEF ToSet
    <2>2. \A r \in ToSet(s) : r \in ToSet(t)
      BY <1>2, <1>16, <1>18 DEF ToSet
    <2>3. QED
      BY <2>1, <2>2
  <1>20. IsList(t)
    <2>1. \A k \in 1..n : t[k] \in ToSet(t)
      BY <1>18 DEF ToSet
    <2>2. t = [k \in 1..n |-> t[k]]
      BY <1>1, <1>18
    <2>3. QED
      BY <1>2, <2>1, <2>2 DEF IsList
  <1>21. Distinct(t)
    <2> SUFFICES ASSUME NEW k \in 1..n, NEW l \in 1..n, t[k].id = t[l].id PROVE k = l
      BY <1>18 DEF Distinct
    <2>1. PICK i \in 1..n : k = rank[i] /\ t[k] = s[i]
      BY <1>17
    <2>2. PICK j \in 1..n : l = rank[j] /\ t[l] = s[j]
      BY <1>17
    <2>3. i = j
      BY <1>7, <2>1, <2>2
    <2>4. QED
      BY <2>1, <2>2, <2>3
  <1>22. QED
    BY <1>19, <1>20, <1>21 DEF t

-----------------------------------------------------------------------------
(* Merging                                                                 *)

\* What a card needs to show and send a result.
Usable(r) ==
  r.thumb.form = "https" /\ (IF r.category = "video" THEN r.page ELSE r.media).form = "https"

\* What mergeMedia takes from which copy.
LEMMA MergeFields ==
  ASSUME NEW dst \in Results, NEW src \in Results
  PROVE  LET m == MergeMedia(dst, src)
             best == IF MediaQuality(src) > MediaQuality(dst) THEN src ELSE dst
         IN  /\ m \in Results
             /\ m.id = dst.id /\ m.category = dst.category /\ m.pool = dst.pool
             /\ m.engines = dst.engines \cup src.engines
             /\ m.positions = dst.positions \cup src.positions
             /\ m.score = Larger(dst.score, src.score)
             /\ m.order = Min({dst.order, src.order})
             /\ m.media = best.media /\ m.thumb = best.thumb /\ m.page = best.page
  <1> DEFINE best == IF MediaQuality(src) > MediaQuality(dst) THEN src ELSE dst
             m == MergeMedia(dst, src)
             w == [id |-> dst.id, category |-> dst.category, pool |-> dst.pool,
                   order |-> Min({dst.order, src.order}),
                   media |-> best.media, thumb |-> best.thumb, page |-> best.page,
                   title |-> dst.title,
                   engines |-> dst.engines \cup src.engines,
                   positions |-> dst.positions \cup src.positions,
                   score |-> Larger(dst.score, src.score), size |-> best.size]
  <1>1. best \in Results
    OBVIOUS
  <1> HIDE DEF best
  <1>2. dst.order \in Nat /\ src.order \in Nat /\ dst.score \in Int /\ src.score \in Int
    BY DEF Results
  <1>3. Min({dst.order, src.order}) \in Nat /\ Larger(dst.score, src.score) \in Int
    BY <1>2, MinPair DEF Larger
  <1>4. /\ dst.engines \cup src.engines \in {E \in SUBSET Names : IsFiniteSet(E)}
        /\ dst.positions \cup src.positions \in {P \in SUBSET Int : IsFiniteSet(P)}
    <2>1. /\ IsFiniteSet(dst.engines) /\ IsFiniteSet(src.engines)
          /\ IsFiniteSet(dst.positions) /\ IsFiniteSet(src.positions)
          /\ dst.engines \subseteq Names /\ src.engines \subseteq Names
          /\ dst.positions \subseteq Int /\ src.positions \subseteq Int
      BY DEF Results
    <2>2. IsFiniteSet(dst.engines \cup src.engines) /\ IsFiniteSet(dst.positions \cup src.positions)
      BY <2>1, FS_Union
    <2>3. QED
      BY <2>1, <2>2
  <1>5. w \in Results
    BY <1>1, <1>3, <1>4 DEF Results
  <1>6. m = w
    <2>1. m = [dst EXCEPT !.engines = dst.engines \cup src.engines,
                          !.positions = dst.positions \cup src.positions,
                          !.score = Larger(dst.score, src.score),
                          !.order = Min({dst.order, src.order}),
                          !.media = best.media, !.thumb = best.thumb, !.page = best.page,
                          !.size = best.size]
      BY DEF MergeMedia, best
    <2>2. QED
      BY <2>1 DEF Results
  <1> HIDE DEF m
  <1>7. QED
    BY <1>5, <1>6 DEF m, best

\* r holds all that the copies C of it say.
Merged(r, C) ==
  /\ r \in Results /\ Usable(r)
  /\ C \subseteq Results
  /\ \A m \in C : m.id = r.id /\ m.category = r.category
  /\ r.engines = UNION {m.engines : m \in C}
  /\ r.positions = UNION {m.positions : m \in C}
  /\ \A m \in C : r.score >= m.score /\ r.order <= m.order

\* A result is what its only copy makes.
LEMMA MergedAlone ==
  ASSUME NEW r \in Results, Usable(r)
  PROVE  Merged(r, {r})
  BY DEF Merged, Results

\* Two merged results merge into the result of all their copies.
LEMMA MergeFacts ==
  ASSUME NEW dst, NEW C, Merged(dst, C), NEW src, NEW B, Merged(src, B),
         dst.id = src.id, dst.category = src.category
  PROVE  LET m == MergeMedia(dst, src)
         IN  Merged(m, C \cup B) /\ m.id = dst.id /\ m.pool = dst.pool /\ m.category = dst.category
  <1> DEFINE m == MergeMedia(dst, src)
             best == IF MediaQuality(src) > MediaQuality(dst) THEN src ELSE dst
  <1>1. dst \in Results /\ src \in Results
    BY DEF Merged
  <1>2. /\ m \in Results
        /\ m.id = dst.id /\ m.category = dst.category /\ m.pool = dst.pool
        /\ m.engines = dst.engines \cup src.engines
        /\ m.positions = dst.positions \cup src.positions
        /\ m.score = Larger(dst.score, src.score)
        /\ m.order = Min({dst.order, src.order})
        /\ m.media = best.media /\ m.thumb = best.thumb /\ m.page = best.page
    BY <1>1, MergeFields
  <1> HIDE DEF m
  <1>3. Usable(m)
    BY <1>2 DEF Usable, Merged
  <1>4. /\ m.engines = UNION {c.engines : c \in C \cup B}
        /\ m.positions = UNION {c.positions : c \in C \cup B}
    BY <1>2 DEF Merged
  <1>5. ASSUME NEW c \in C \cup B
        PROVE  /\ c \in Results /\ c.id = m.id /\ c.category = m.category
               /\ m.score >= c.score /\ m.order <= c.order
    <2>1. /\ c \in Results /\ c.id = m.id /\ c.category = m.category
          /\ \/ dst.score >= c.score /\ dst.order <= c.order
             \/ src.score >= c.score /\ src.order <= c.order
      BY <1>2 DEF Merged
    <2>2. /\ c.score \in Int /\ dst.score \in Int /\ src.score \in Int
          /\ c.order \in Int /\ dst.order \in Int /\ src.order \in Int
      BY <1>1, <2>1 DEF Results
    <2>3. /\ m.score >= dst.score /\ m.score >= src.score /\ m.score \in Int
      BY <1>2, <2>2 DEF Larger
    <2>4. m.order <= dst.order /\ m.order <= src.order /\ m.order \in Int
      BY <1>2, <2>2, MinPair
    <2>5. QED
      BY <2>1, <2>2, <2>3, <2>4
  <1>6. QED
    BY <1>2, <1>3, <1>4, <1>5 DEF Merged, m

\* A sequence of elements of S is a list of them.
LEMMA TypedList ==
  ASSUME NEW s, NEW S
  PROVE  s \in Seq(S) <=> IsList(s) /\ ToSet(s) \subseteq S
  <1>1. ASSUME s \in Seq(S) PROVE IsList(s) /\ ToSet(s) \subseteq S
    <2>1. DOMAIN s = 1..Len(s) /\ \A i \in 1..Len(s) : s[i] \in S
      BY <1>1
    <2>2. QED
      BY <1>1, <2>1, SelfList DEF IsList, ToSet
  <1>2. ASSUME IsList(s), ToSet(s) \subseteq S PROVE s \in Seq(S)
    BY <1>2, SeqMonotonic DEF IsList
  <1>3. QED
    BY <1>1, <1>2

\* A list with r merged into the results of r's ID.
With(acc, r) ==
  [i \in DOMAIN acc |-> IF acc[i].id = r.id THEN MergeMedia(acc[i], r) ELSE acc[i]]

\* Merging one result into a list changes no ID.
LEMMA WithFacts ==
  ASSUME NEW acc \in Seq(Results), NEW r \in Results
  PROVE  /\ With(acc, r) \in Seq(Results) /\ Len(With(acc, r)) = Len(acc)
         /\ \A i \in 1..Len(acc) : /\ With(acc, r)[i] = IF acc[i].id = r.id THEN MergeMedia(acc[i], r) ELSE acc[i]
                                   /\ With(acc, r)[i].id = acc[i].id
  <1> DEFINE n == Len(acc)
             f(i) == IF acc[i].id = r.id THEN MergeMedia(acc[i], r) ELSE acc[i]
  <1>1. n \in Nat /\ DOMAIN acc = 1..n /\ \A i \in 1..n : acc[i] \in Results
    OBVIOUS
  <1>2. \A i \in 1..n : f(i) \in Results /\ f(i).id = acc[i].id
    BY <1>1, MergeFields
  <1>3. With(acc, r) = [i \in 1..n |-> f(i)]
    BY <1>1 DEF With
  <1> HIDE DEF f
  <1>4. QED
    BY <1>1, <1>2, <1>3 DEF f

\* Absorb, one result at a time.
LEMMA AbsorbRuns ==
  ASSUME NEW into \in Seq(Results), NEW from \in Seq(Results)
  PROVE  \E acc : /\ acc[0] = into /\ Absorb(into, from) = acc[Len(from)]
                  /\ \A k \in 1..Len(from) : acc[k] = With(acc[k - 1], from[k])
  <1> DEFINE n == Len(from)
             D == Seq(Results)
             step == [i \in 1..n |-> [acc \in D |-> With(acc, from[i])]]
             F(iter) == [T \in SUBSET (1..n) |->
                           IF T = {} THEN into ELSE With(iter[T \ {Max(T)}], from[Max(T)])]
             it == CHOOSE iter : iter = F(iter)
  <1>1. n \in Nat /\ DOMAIN from = 1..n /\ \A i \in 1..n : from[i] \in Results
    OBVIOUS
  <1>2. Absorb(into, from) = it[1..n]
    BY <1>1 DEF Absorb, FoldLeft, MapThenFoldSet, With
  <1> HIDE DEF n
  <1>3. \A i \in 1..n, acc \in D : With(acc, from[i]) \in D
    BY <1>1, WithFacts
  <1>4. step \in [1..n -> [D -> D]] /\ \A i \in 1..n, acc \in D : step[i][acc] = With(acc, from[i])
    BY <1>3
  <1>5. into \in D
    OBVIOUS
  <1> HIDE DEF step, D
  <1>6. PICK f : IsListFold(f, n, D, into, step)
    BY <1>1, <1>4, <1>5, ListFoldExists, Zenon
  <1>7. \A T \in SUBSET (1..n) : T # {} => Max(T) \in 1..n /\ f[T \ {Max(T)}] \in D
    <2>1. \A T \in SUBSET (1..n) : T # {} => Max(T) \in T /\ T \ {Max(T)} \in SUBSET (1..n)
      BY <1>1, FoldPlaces
    <2>2. QED
      BY <1>6, <2>1 DEF IsListFold
  <1>8. f = F(f)
    <2>1. \A T \in SUBSET (1..n) : T # {} =>
            step[Max(T)][f[T \ {Max(T)}]] = With(f[T \ {Max(T)}], from[Max(T)])
      BY <1>4, <1>7, Zenon
    <2>2. \A T \in SUBSET (1..n) :
            (IF T = {} THEN into ELSE step[Max(T)][f[T \ {Max(T)}]])
              = (IF T = {} THEN into ELSE With(f[T \ {Max(T)}], from[Max(T)]))
      BY <2>1
    <2>3. f = [T \in SUBSET (1..n) |-> IF T = {} THEN into ELSE step[Max(T)][f[T \ {Max(T)}]]]
      BY <1>6 DEF IsListFold
    <2>4. QED
      BY <2>2, <2>3, Zenon
  <1>9. it = F(it)
    BY <1>8
  <1> HIDE DEF it
  <1> DEFINE acc == [k \in 0..n |-> it[1..k]]
  <1>10. acc[0] = into
    BY <1>1, <1>9, FoldPlaces
  <1>11. ASSUME NEW k \in 1..n PROVE acc[k] = With(acc[k - 1], from[k])
    <2>1. /\ Max(1..k) = k /\ 1..k # {} /\ (1..k) \ {k} = 1..(k - 1)
          /\ 1..k \in SUBSET (1..n)
      BY <1>1, FoldPlaces
    <2>2. it[1..k] = With(it[(1..k) \ {Max(1..k)}], from[Max(1..k)])
      BY <1>9, <2>1
    <2>3. k \in 0..n /\ k - 1 \in 0..n
      BY <1>1
    <2>4. acc[k] = it[1..k] /\ acc[k - 1] = it[1..(k - 1)]
      BY <2>3
    <2>5. QED
      BY <2>1, <2>2, <2>4
  <1>12. acc[n] = it[1..n]
    BY <1>1
  <1>13. QED
    BY <1>2, <1>10, <1>11, <1>12 DEF n

\* C[i] are the copies into[i] holds, F[j] those from[j] holds; results of one
\* ID are of one category.
Mergeable(into, from, C, F) ==
  /\ into \in Seq(Results) /\ from \in Seq(Results)
  /\ \A i \in 1..Len(into) : Merged(into[i], C[i])
  /\ \A j \in 1..Len(from) : Merged(from[j], F[j])
  /\ \A i \in 1..Len(into), j \in 1..Len(from) :
       into[i].id = from[j].id => into[i].category = from[j].category

\* The results of a are those of into in their places, with all that from
\* knows of them.
Absorbed(a, into, from, C, F) ==
  /\ a \in Seq(Results) /\ Len(a) = Len(into)
  /\ \A i \in 1..Len(into) :
       /\ a[i].id = into[i].id /\ a[i].pool = into[i].pool
       /\ a[i].category = into[i].category
       /\ Merged(a[i], C[i] \cup UNION {F[j] : j \in {l \in 1..Len(from) : from[l].id = into[i].id}})

\* Absorb gives every result its copies and changes neither order nor kind.
LEMMA AbsorbFacts ==
  ASSUME NEW into, NEW from, NEW C, NEW F, Mergeable(into, from, C, F)
  PROVE  Absorbed(Absorb(into, from), into, from, C, F)
  <1> DEFINE m == Len(into)
             n == Len(from)
             J(k, i) == {l \in 1..k : from[l].id = into[i].id}
             E(k, i) == C[i] \cup UNION {F[j] : j \in J(k, i)}
  <1>0. /\ into \in Seq(Results) /\ from \in Seq(Results)
        /\ \A i \in 1..m : Merged(into[i], C[i])
        /\ \A j \in 1..n : Merged(from[j], F[j])
        /\ \A i \in 1..m, j \in 1..n : into[i].id = from[j].id => into[i].category = from[j].category
    BY DEF Mergeable
  <1>1. m \in Nat /\ n \in Nat /\ \A j \in 1..n : from[j] \in Results
    BY <1>0
  <1>2. PICK acc : /\ acc[0] = into /\ Absorb(into, from) = acc[n]
                   /\ \A k \in 1..n : acc[k] = With(acc[k - 1], from[k])
    BY <1>0, AbsorbRuns
  <1> DEFINE At(k, i) == /\ acc[k][i].id = into[i].id /\ acc[k][i].pool = into[i].pool
                         /\ acc[k][i].category = into[i].category
                         /\ Merged(acc[k][i], E(k, i))
             Done(k) == /\ acc[k] \in Seq(Results) /\ Len(acc[k]) = m
                        /\ \A i \in 1..m : At(k, i)
             P == {k \in Nat : Done(k)}
  <1> HIDE DEF m, n
  <1>3. 0 \in P
    <2>1. \A i \in 1..m : E(0, i) = C[i]
      OBVIOUS
    <2>2. QED
      BY <1>0, <1>2, <2>1 DEF m
  <1>4. ASSUME NEW k \in 0..(n - 1), k \in P PROVE k + 1 \in P
    <2> DEFINE x == from[k + 1]
    <2>1. k \in Nat /\ k + 1 \in Nat /\ k + 1 \in 1..n /\ (k + 1) - 1 = k
      BY <1>1
    <2>2. acc[k + 1] = With(acc[k], x) /\ x \in Results /\ Merged(x, F[k + 1])
      BY <1>0, <1>1, <1>2, <2>1
    <2>3. acc[k] \in Seq(Results) /\ Len(acc[k]) = m /\ \A i \in 1..m : At(k, i)
      BY <1>4
    <2>4. /\ acc[k + 1] \in Seq(Results) /\ Len(acc[k + 1]) = m
          /\ \A i \in 1..m : acc[k + 1][i] = IF acc[k][i].id = x.id THEN MergeMedia(acc[k][i], x) ELSE acc[k][i]
      <3> HIDE DEF At, x
      <3>1. acc[k] \in Seq(Results) /\ x \in Results
        BY <2>2, <2>3
      <3>2. /\ With(acc[k], x) \in Seq(Results) /\ Len(With(acc[k], x)) = Len(acc[k])
            /\ \A i \in 1..Len(acc[k]) :
                 /\ With(acc[k], x)[i] = IF acc[k][i].id = x.id THEN MergeMedia(acc[k][i], x) ELSE acc[k][i]
                 /\ With(acc[k], x)[i].id = acc[k][i].id
        BY <3>1, WithFacts, Zenon
      <3>3. QED
        BY <2>2, <2>3, <3>2
    <2>5. ASSUME NEW i \in 1..m PROVE At(k + 1, i)
      <3>1. J(k + 1, i) = IF into[i].id = x.id THEN J(k, i) \cup {k + 1} ELSE J(k, i)
        <4>1. \A l \in 1..(k + 1) : l \in 1..k \/ l = k + 1
          BY <2>1
        <4>2. \A l \in 1..k : l \in 1..(k + 1)
          BY <2>1
        <4>3. k + 1 \in 1..(k + 1)
          BY <2>1
        <4>4. QED
          BY <4>1, <4>2, <4>3
      <3>2. At(k, i)
        BY <2>3
      <3> HIDE DEF J, x
      <3>3. CASE into[i].id = x.id
        <4>1. acc[k + 1][i] = MergeMedia(acc[k][i], x)
          BY <2>4, <3>2, <3>3
        <4>2. E(k + 1, i) = E(k, i) \cup F[k + 1]
          BY <3>1, <3>3
        <4>3. into[i].category = x.category
          BY <1>0, <2>1, <3>3 DEF x
        <4> HIDE DEF E
        <4>4. Merged(acc[k][i], E(k, i)) /\ acc[k][i].id = x.id /\ acc[k][i].category = x.category
          BY <3>2, <3>3, <4>3
        <4>5. LET w == MergeMedia(acc[k][i], x)
              IN  /\ Merged(w, E(k, i) \cup F[k + 1]) /\ w.id = acc[k][i].id
                  /\ w.pool = acc[k][i].pool /\ w.category = acc[k][i].category
          BY <2>2, <4>4, MergeFacts
        <4>6. QED
          BY <3>2, <4>1, <4>2, <4>5
      <3>4. CASE into[i].id # x.id
        <4>1. acc[k + 1][i] = acc[k][i]
          BY <2>4, <3>2, <3>4
        <4>2. E(k + 1, i) = E(k, i)
          BY <3>1, <3>4
        <4> HIDE DEF E
        <4>3. QED
          BY <3>2, <4>1, <4>2
      <3>5. QED
        BY <3>3, <3>4
    <2> HIDE DEF At, x
    <2>6. QED
      BY <2>1, <2>4, <2>5
  <1>5. n \in P
    <2> HIDE DEF P
    <2>1. \A k \in 0..n : k \in P
      BY <1>1, <1>3, <1>4, Induct DEF n
    <2>2. QED
      BY <1>1, <2>1 DEF n
  <1>6. QED
    BY <1>2, <1>5 DEF Absorbed, m, n

\* What one more result makes of a list without duplicates.
Include(acc, r) ==
  IF \E i \in DOMAIN acc : acc[i].id = r.id THEN Absorb(acc, <<r>>) ELSE Append(acc, r)

\* One more result leaves a list of results.
LEMMA IncludeType ==
  ASSUME NEW acc \in Seq(Results), NEW r \in Results
  PROVE  Include(acc, r) \in Seq(Results)
  <1> DEFINE s == <<r>>
  <1>1. s \in Seq(Results) /\ Len(s) = 1 /\ s[1] = r
    OBVIOUS
  <1> HIDE DEF s
  <1>2. PICK b : /\ b[0] = acc /\ Absorb(acc, s) = b[Len(s)]
                 /\ \A k \in 1..Len(s) : b[k] = With(b[k - 1], s[k])
    BY <1>1, AbsorbRuns, Zenon
  <1>3. b[1] = With(acc, r)
    BY <1>1, <1>2
  <1>4. Absorb(acc, s) \in Seq(Results)
    BY <1>1, <1>2, <1>3, WithFacts
  <1>5. QED
    BY <1>4 DEF Include, s

\* MergeDuplicates, one result at a time.
LEMMA MergeRuns ==
  ASSUME NEW in \in Seq(Results)
  PROVE  \E acc : /\ acc[0] = <<>> /\ MergeDuplicates(in) = acc[Len(in)]
                  /\ \A k \in 1..Len(in) : acc[k] = Include(acc[k - 1], in[k])
  <1> DEFINE n == Len(in)
             D == Seq(Results)
             step == [i \in 1..n |-> [acc \in D |-> Include(acc, in[i])]]
             F(iter) == [T \in SUBSET (1..n) |->
                           IF T = {} THEN <<>> ELSE Include(iter[T \ {Max(T)}], in[Max(T)])]
             it == CHOOSE iter : iter = F(iter)
  <1>1. n \in Nat /\ DOMAIN in = 1..n /\ \A i \in 1..n : in[i] \in Results
    OBVIOUS
  <1>2. MergeDuplicates(in) = it[1..n]
    BY <1>1 DEF MergeDuplicates, FoldLeft, MapThenFoldSet, Include
  <1> HIDE DEF n
  <1>3. \A i \in 1..n, acc \in D : Include(acc, in[i]) \in D
    BY <1>1, IncludeType
  <1>4. step \in [1..n -> [D -> D]] /\ \A i \in 1..n, acc \in D : step[i][acc] = Include(acc, in[i])
    BY <1>3
  <1>5. <<>> \in D
    OBVIOUS
  <1> HIDE DEF step, D
  <1>6. PICK f : IsListFold(f, n, D, <<>>, step)
    BY <1>1, <1>4, <1>5, ListFoldExists, Zenon
  <1>7. \A T \in SUBSET (1..n) : T # {} => Max(T) \in 1..n /\ f[T \ {Max(T)}] \in D
    <2>1. \A T \in SUBSET (1..n) : T # {} => Max(T) \in T /\ T \ {Max(T)} \in SUBSET (1..n)
      BY <1>1, FoldPlaces
    <2>2. QED
      BY <1>6, <2>1 DEF IsListFold
  <1>8. f = F(f)
    <2>1. \A T \in SUBSET (1..n) : T # {} =>
            step[Max(T)][f[T \ {Max(T)}]] = Include(f[T \ {Max(T)}], in[Max(T)])
      BY <1>4, <1>7, Zenon
    <2>2. \A T \in SUBSET (1..n) :
            (IF T = {} THEN <<>> ELSE step[Max(T)][f[T \ {Max(T)}]])
              = (IF T = {} THEN <<>> ELSE Include(f[T \ {Max(T)}], in[Max(T)]))
      BY <2>1
    <2>3. f = [T \in SUBSET (1..n) |-> IF T = {} THEN <<>> ELSE step[Max(T)][f[T \ {Max(T)}]]]
      BY <1>6 DEF IsListFold
    <2>4. QED
      BY <2>2, <2>3, Zenon
  <1>9. it = F(it)
    BY <1>8
  <1> HIDE DEF it
  <1> DEFINE acc == [k \in 0..n |-> it[1..k]]
  <1>10. acc[0] = <<>>
    BY <1>1, <1>9, FoldPlaces
  <1>11. ASSUME NEW k \in 1..n PROVE acc[k] = Include(acc[k - 1], in[k])
    <2>1. /\ Max(1..k) = k /\ 1..k # {} /\ (1..k) \ {k} = 1..(k - 1)
          /\ 1..k \in SUBSET (1..n)
      BY <1>1, FoldPlaces
    <2>2. it[1..k] = Include(it[(1..k) \ {Max(1..k)}], in[Max(1..k)])
      BY <1>9, <2>1
    <2>3. k \in 0..n /\ k - 1 \in 0..n
      BY <1>1
    <2>4. acc[k] = it[1..k] /\ acc[k - 1] = it[1..(k - 1)]
      BY <2>3
    <2>5. QED
      BY <2>1, <2>2, <2>4
  <1>12. acc[n] = it[1..n]
    BY <1>1
  <1>13. QED
    BY <1>2, <1>10, <1>11, <1>12 DEF n

\* acc is what merging the results of S makes: one result for each ID, that
\* holds what its copies say.
MergeOf(acc, S) ==
  /\ acc \in Seq(Results) /\ Distinct(acc)
  /\ \A r \in ToSet(acc) :
       /\ Merged(r, {q \in S : q.id = r.id})
       /\ \E q \in S : q.id = r.id /\ q.pool = r.pool /\ q.category = r.category
  /\ \A q \in S : \E r \in ToSet(acc) : r.id = q.id

\* And that of one more medium, or one more copy.
LEMMA IncludeFacts ==
  ASSUME NEW acc, NEW S, MergeOf(acc, S), NEW x \in Results, Usable(x),
         \A q \in S : q.id = x.id => q.category = x.category
  PROVE  MergeOf(Include(acc, x), S \cup {x})
  <1> DEFINE m == Len(acc)
             a == Include(acc, x)
             Of(T, id) == {q \in T : q.id = id}
             T == S \cup {x}
  <1>1. /\ acc \in Seq(Results) /\ IsList(acc) /\ m \in Nat /\ DOMAIN acc = 1..m /\ Distinct(acc)
        /\ \A i \in 1..m : acc[i] \in ToSet(acc) /\ acc[i] \in Results
    BY ListFacts, TypedList DEF MergeOf
  <1>2. Merged(x, {x})
    BY MergedAlone
  <1>3. \A i \in 1..m : /\ Merged(acc[i], Of(S, acc[i].id))
                        /\ \E q \in S : q.id = acc[i].id /\ q.pool = acc[i].pool /\ q.category = acc[i].category
    BY <1>1 DEF MergeOf
  <1> HIDE DEF m
  <1>4. CASE \E i \in DOMAIN acc : acc[i].id = x.id
    <2> DEFINE s == <<x>>
               C == [i \in 1..m |-> Of(S, acc[i].id)]
               F == <<{x}>>
               L(i) == {l \in 1..Len(s) : s[l].id = acc[i].id}
    <2>1. a = Absorb(acc, s)
      BY <1>4 DEF Include
    <2>2. s \in Seq(Results) /\ Len(s) = 1 /\ s[1] = x /\ F[1] = {x}
      OBVIOUS
    <2>3. \A i \in 1..m : C[i] = Of(S, acc[i].id)
      OBVIOUS
    <2> HIDE DEF s, C, F
    <2>4. \A j \in 1..Len(s) : j = 1 /\ Merged(s[j], F[j])
      <3>1. \A j \in 1..Len(s) : j = 1
        BY <2>2
      <3>2. Merged(s[1], F[1])
        BY <1>2, <2>2
      <3>3. QED
        BY <3>1, <3>2
    <2>5. \A i \in 1..m, j \in 1..Len(s) : acc[i].id = s[j].id => acc[i].category = s[j].category
      <3>1. ASSUME NEW i \in 1..m, acc[i].id = x.id PROVE acc[i].category = x.category
        <4>1. PICK q \in S : q.id = acc[i].id /\ q.category = acc[i].category
          BY <1>3
        <4>2. QED
          BY <3>1, <4>1
      <3>2. QED
        BY <2>2, <2>4, <3>1
    <2>6. \A i \in 1..m : C[i] \cup UNION {F[j] : j \in L(i)} = Of(T, acc[i].id)
      <3> SUFFICES ASSUME NEW i \in 1..m
                   PROVE  C[i] \cup UNION {F[j] : j \in L(i)} = Of(T, acc[i].id)
        OBVIOUS
      <3>1. L(i) = IF x.id = acc[i].id THEN {1} ELSE {}
        BY <2>2
      <3>2. UNION {F[j] : j \in L(i)} = IF x.id = acc[i].id THEN {x} ELSE {}
        BY <2>2, <3>1
      <3> HIDE DEF L
      <3>3. QED
        BY <2>3, <3>2
    <2>7. /\ a \in Seq(Results) /\ Len(a) = m
          /\ \A i \in 1..m : /\ a[i].id = acc[i].id /\ a[i].pool = acc[i].pool
                             /\ a[i].category = acc[i].category
                             /\ Merged(a[i], C[i] \cup UNION {F[j] : j \in L(i)})
      <3>1. \A i \in 1..m : Merged(acc[i], C[i])
        BY <1>3, <2>3
      <3>2. \A j \in 1..Len(s) : Merged(s[j], F[j])
        BY <2>4
      <3>3. Mergeable(acc, s, C, F)
        BY <1>1, <2>2, <2>5, <3>1, <3>2 DEF Mergeable, m
      <3>4. Absorbed(a, acc, s, C, F)
        BY <2>1, <3>3, AbsorbFacts
      <3> HIDE DEF a
      <3>5. QED
        BY <3>4 DEF Absorbed, m
    <2>8. \A i \in 1..m : Merged(a[i], Of(T, a[i].id))
      BY <2>6, <2>7
    <2> HIDE DEF a, L
    <2>9. /\ DOMAIN a = 1..m /\ (\A r \in ToSet(a) : \E i \in 1..m : r = a[i])
          /\ \A i \in 1..m : a[i] \in ToSet(a)
      BY <2>7 DEF ToSet
    <2>10. Distinct(a)
      BY <1>1, <2>7, <2>9 DEF Distinct
    <2>11. ASSUME NEW q \in T PROVE \E r \in ToSet(a) : r.id = q.id
      <3>1. PICK i \in 1..m : acc[i].id = q.id
        BY <1>1, <1>4 DEF MergeOf, ToSet
      <3>2. a[i] \in ToSet(a) /\ a[i].id = q.id
        BY <2>7, <2>9, <3>1
      <3>3. QED
        BY <3>2
    <2>12. ASSUME NEW r \in ToSet(a)
           PROVE  /\ Merged(r, Of(T, r.id))
                  /\ \E q \in T : q.id = r.id /\ q.pool = r.pool /\ q.category = r.category
      <3>1. PICK i \in 1..m : r = a[i]
        BY <2>9
      <3>2. Merged(r, Of(T, r.id))
        BY <2>8, <3>1
      <3>3. PICK q \in S : q.id = acc[i].id /\ q.pool = acc[i].pool /\ q.category = acc[i].category
        BY <1>3
      <3>4. q \in T /\ q.id = r.id /\ q.pool = r.pool /\ q.category = r.category
        BY <2>7, <3>1, <3>3
      <3>5. QED
        BY <3>2, <3>4
    <2>13. QED
      BY <2>7, <2>10, <2>11, <2>12 DEF MergeOf, a
  <1>5. CASE ~\E i \in DOMAIN acc : acc[i].id = x.id
    <2>1. a = Append(acc, x)
      BY <1>5 DEF Include
    <2>2. \A r \in ToSet(acc) : r.id # x.id
      BY <1>5 DEF ToSet
    <2>3. \A q \in S : q.id # x.id
      BY <2>2 DEF MergeOf
    <2>4. IsList(a) /\ ToSet(a) = ToSet(acc) \cup {x} /\ Distinct(a)
      BY <1>1, <2>1, <2>2, AppendFacts, AppendDistinct
    <2>5. a \in Seq(Results)
      BY <1>1, <2>1
    <2> HIDE DEF a
    <2>6. ASSUME NEW r \in ToSet(acc)
          PROVE  /\ Merged(r, Of(T, r.id))
                 /\ \E q \in T : q.id = r.id /\ q.pool = r.pool /\ q.category = r.category
      <3>1. Of(T, r.id) = Of(S, r.id)
        BY <2>2
      <3>2. QED
        BY <3>1 DEF MergeOf
    <2>7. Of(T, x.id) = {x}
      BY <2>3
    <2>8. \A q \in T : \E r \in ToSet(a) : r.id = q.id
      BY <2>4 DEF MergeOf
    <2>9. Merged(x, Of(T, x.id)) /\ x \in T
      BY <1>2, <2>7
    <2> HIDE DEF T
    <2>10. \A r \in ToSet(a) :
             /\ Merged(r, Of(T, r.id))
             /\ \E q \in T : q.id = r.id /\ q.pool = r.pool /\ q.category = r.category
      BY <2>4, <2>6, <2>9
    <2>11. MergeOf(a, T)
      BY <2>4, <2>5, <2>8, <2>10 DEF MergeOf
    <2>12. QED
      BY <2>11 DEF a, T
  <1>6. QED
    BY <1>4, <1>5

\* mergeDuplicates has each medium once, with all that its copies say.
LEMMA MergeDuplicatesFacts ==
  ASSUME NEW in \in Seq(Results), \A r \in ToSet(in) : Usable(r),
         \A q, r \in ToSet(in) : q.id = r.id => q.category = r.category
  PROVE  MergeOf(MergeDuplicates(in), ToSet(in))
  <1> DEFINE n == Len(in)
             Upto(k) == {in[i] : i \in 1..k}
  <1>1. n \in Nat /\ DOMAIN in = 1..n
    OBVIOUS
  <1>2. PICK acc : /\ acc[0] = <<>> /\ MergeDuplicates(in) = acc[n]
                   /\ \A k \in 1..n : acc[k] = Include(acc[k - 1], in[k])
    BY MergeRuns
  <1>3. \A k \in 1..n : in[k] \in Results /\ in[k] \in ToSet(in)
    BY <1>1 DEF ToSet
  <1> DEFINE P == {k \in Nat : MergeOf(acc[k], Upto(k))}
  <1> HIDE DEF n
  <1>4. 0 \in P
    <2>1. Upto(0) = {}
      OBVIOUS
    <2>2. MergeOf(<<>>, {})
      BY EmptyList DEF MergeOf, Distinct
    <2>3. QED
      BY <1>2, <2>1, <2>2
  <1>5. ASSUME NEW k \in 0..(n - 1), k \in P PROVE k + 1 \in P
    <2> DEFINE x == in[k + 1]
    <2>1. k \in Nat /\ k + 1 \in Nat /\ k + 1 \in 1..n /\ (k + 1) - 1 = k
      BY <1>1
    <2>2. acc[k + 1] = Include(acc[k], x) /\ x \in Results /\ Usable(x)
      BY <1>2, <1>3, <2>1
    <2>3. Upto(k + 1) = Upto(k) \cup {x}
      <3>1. \A i \in 1..(k + 1) : i \in 1..k \/ i = k + 1
        BY <2>1
      <3>2. \A i \in 1..k : i \in 1..(k + 1)
        BY <2>1
      <3>3. k + 1 \in 1..(k + 1)
        BY <2>1
      <3>4. QED
        BY <3>1, <3>2, <3>3
    <2>4. \A q \in Upto(k) : q.id = x.id => q.category = x.category
      <3>1. \A i \in 1..k : i \in 1..n
        BY <1>1, <2>1
      <3>2. QED
        BY <1>3, <2>1, <3>1
    <2>5. MergeOf(acc[k], Upto(k))
      BY <1>5
    <2> HIDE DEF Upto, x
    <2>6. QED
      BY <2>1, <2>2, <2>3, <2>4, <2>5, IncludeFacts
  <1>6. n \in P
    <2> HIDE DEF P
    <2>1. \A k \in 0..n : k \in P
      BY <1>1, <1>4, <1>5, Induct DEF n
    <2>2. QED
      BY <1>1, <2>1 DEF n
  <1>7. Upto(n) = ToSet(in)
    BY <1>1 DEF ToSet, n
  <1>8. QED
    BY <1>2, <1>6, <1>7

-----------------------------------------------------------------------------
(* What the backend's replies become                                       *)

\* A list has finitely many elements.
LEMMA FiniteList ==
  ASSUME NEW s, IsList(s)
  PROVE  IsFiniteSet(ToSet(s))
  <1>1. Len(s) \in Nat /\ DOMAIN s = 1..Len(s)
    BY ListFacts
  <1>2. IsFiniteSet(1..Len(s))
    BY <1>1, FS_Interval
  <1> DEFINE f == [i \in 1..Len(s) |-> s[i]]
  <1>3. f \in Surjection(1..Len(s), ToSet(s))
    BY <1>1 DEF Surjection, ToSet
  <1>4. QED
    BY <1>2, <1>3, FS_Surjection

\* A link that may be shown.
Secure(u) == u \in URLs /\ u.form = "https"

\* The absent link is no link to send.
LEMMA NoLink == NoURL \in URLs /\ NoURL.form = "absent"
  <1>1. "" \in Hosts /\ "absent" \in Forms /\ 0 \in Nat
    BY DEF Hosts, Forms
  <1>2. [name |-> 0, host |-> "", form |-> "absent"] \in [name : Nat, host : Hosts, form : Forms]
    BY <1>1
  <1>3. QED
    BY <1>2 DEF NoURL, URLs

\* firstValidURL returns a link over https or none.
LEMMA FirstValidFacts ==
  ASSUME NEW urls \in Seq(URLs)
  PROVE  FirstValidURL(urls) = NoURL \/ Secure(FirstValidURL(urls))
  <1> DEFINE I == {i \in 1..Len(urls) : NormalizeHTTPS(urls[i]) # NoURL}
             i == IF I # {} THEN Min(I) ELSE 0
  <1>1. FirstValidURL(urls) = IF i = 0 THEN NoURL ELSE NormalizeHTTPS(urls[i])
    BY DEF FirstValidURL, SelectInSeq
  <1>2. Len(urls) \in Nat /\ I \in SUBSET Nat /\ \A k \in 1..Len(urls) : urls[k] \in URLs
    OBVIOUS
  <1>3. i # 0 => i \in 1..Len(urls)
    BY <1>2, Least
  <1>4. \A u \in URLs : NormalizeHTTPS(u) = NoURL \/ Secure(NormalizeHTTPS(u))
    <2> SUFFICES ASSUME NEW u \in URLs
                 PROVE  [u EXCEPT !.form = "https"] \in URLs /\ [u EXCEPT !.form = "https"].form = "https"
      BY DEF NormalizeHTTPS, Secure
    <2>1. "https" \in Forms
      BY DEF Forms
    <2>2. QED
      BY <2>1 DEF URLs
  <1> HIDE DEF i
  <1>5. QED
    BY <1>1, <1>2, <1>3, <1>4

\* What a result made of a raw one has.
MediumHas(raw, pool, order, category, id, media, thumb, page) ==
  LET m == Medium(raw, pool, order, category, id, media, thumb, page)
  IN  /\ m \in Results /\ m # Unusable /\ m.pool = pool /\ m.id = id /\ m.category = category
      /\ m.media = media /\ m.thumb = thumb /\ m.page = page

\* The result of raw is a usable one of its pool, or none.
LEMMA MediumFacts ==
  ASSUME NEW raw \in Raws, NEW pool \in Pools, NEW order \in Nat, NEW category \in Categories,
         NEW id \in Nat, NEW media \in URLs, NEW thumb \in URLs, NEW page \in URLs
  PROVE  MediumHas(raw, pool, order, category, id, media, thumb, page)
  <1> DEFINE m == Medium(raw, pool, order, category, id, media, thumb, page)
  <1>1. RawOK(raw)
    BY BackendAssumption DEF BackendAssumption
  <1>2. EnginesOf(raw) \in {E \in SUBSET Names : IsFiniteSet(E)}
    <2>1. IsFiniteSet(EnginesOf(raw))
      <3>1. IsFiniteSet(ToSet(raw.engines))
        BY <1>1, FiniteList DEF RawOK, IsList
      <3>2. IsFiniteSet({raw.engine} \ {""})
        BY FS_Singleton, FS_RemoveElement
      <3>3. QED
        BY <3>1, <3>2 DEF EnginesOf
    <2>2. EnginesOf(raw) \subseteq Names
      BY DEF Names
    <2>3. QED
      BY <2>1, <2>2
  <1>3. raw.title \in Titles
    BY DEF Titles
  <1>4. raw.positions \in {P \in SUBSET Int : IsFiniteSet(P)} /\ raw.score \in Int /\ raw.size \in Sizes
    BY <1>1 DEF RawOK
  <1> DEFINE titleOf == raw.title
             enginesOf == EnginesOf(raw)
             positionsOf == raw.positions
             scoreOf == raw.score
             sizeOf == raw.size
  <1>5. m = [id |-> id, category |-> category, pool |-> pool, order |-> order,
             media |-> media, thumb |-> thumb, page |-> page, title |-> titleOf,
             engines |-> enginesOf, positions |-> positionsOf, score |-> scoreOf, size |-> sizeOf]
    BY DEF Medium
  <1> HIDE DEF m, titleOf, enginesOf, positionsOf, scoreOf, sizeOf
  <1>6. m \in Results
    BY <1>2, <1>3, <1>4, <1>5 DEF Results, titleOf, enginesOf, positionsOf, scoreOf, sizeOf
  <1>7. m # Unusable
    <2>1. "pool" \in DOMAIN m
      BY <1>5
    <2>2. DOMAIN Unusable = {"id"}
      BY DEF Unusable
    <2>3. QED
      BY <2>1, <2>2
  <1>8. m.pool = pool /\ m.id = id /\ m.category = category
    BY <1>5
  <1>9. m.media = media /\ m.thumb = thumb /\ m.page = page
    BY <1>5
  <1>10. QED
    BY <1>6, <1>7, <1>8, <1>9 DEF m, MediumHas

\* What the results of a pool are.
Made(pool) ==
  {m \in Results :
     /\ m.pool = pool /\ Usable(m)
     /\ \E raw \in Raws : LET n == Normalize(raw, "core", 0)
                          IN  n # Unusable /\ n.id = m.id /\ n.category = m.category}

\* What a pool makes of a raw result does not depend on the pool or the place.
LEMMA MediumMade ==
  ASSUME NEW raw \in Raws, NEW category \in Categories,
         NEW id \in Nat, NEW media \in URLs, NEW thumb \in URLs, NEW page \in URLs,
         Secure(thumb), Secure(IF category = "video" THEN page ELSE media),
         \A p, k : Normalize(raw, p, k) = Medium(raw, p, k, category, id, media, thumb, page)
  PROVE  \A pool \in Pools, order \in Nat : Normalize(raw, pool, order) \in Made(pool)
  <1> SUFFICES ASSUME NEW pool \in Pools, NEW order \in Nat
               PROVE  Normalize(raw, pool, order) \in Made(pool)
    OBVIOUS
  <1> DEFINE m == Medium(raw, pool, order, category, id, media, thumb, page)
             n == Medium(raw, "core", 0, category, id, media, thumb, page)
  <1>1. Normalize(raw, pool, order) = m /\ Normalize(raw, "core", 0) = n
    OBVIOUS
  <1>2. /\ m \in Results /\ m.pool = pool /\ m.id = id /\ m.category = category
        /\ m.media = media /\ m.thumb = thumb /\ m.page = page
    <2>1. MediumHas(raw, pool, order, category, id, media, thumb, page)
      BY MediumFacts
    <2>2. QED
      BY <2>1 DEF MediumHas
  <1>3. n # Unusable /\ n.id = id /\ n.category = category
    <2>1. "core" \in Pools /\ 0 \in Nat
      BY DEF Pools
    <2>2. MediumHas(raw, "core", 0, category, id, media, thumb, page)
      BY <2>1, MediumFacts
    <2>3. QED
      BY <2>2 DEF MediumHas
  <1> HIDE DEF m, n
  <1>4. Usable(m)
    BY <1>2 DEF Usable, Secure
  <1>5. QED
    BY <1>1, <1>2, <1>3, <1>4 DEF Made

\* A result that is not dropped can be shown and sent.
LEMMA NormalizeFacts ==
  ASSUME NEW raw \in Raws, NEW pool \in Pools, NEW order \in Nat,
         Normalize(raw, pool, order) # Unusable
  PROVE  Normalize(raw, pool, order) \in Made(pool)
  <1>1. RawOK(raw)
    BY BackendAssumption DEF BackendAssumption
  <1>2. /\ raw.url \in URLs /\ raw.iframeSrc \in URLs /\ raw.imgSrc \in URLs
        /\ raw.thumbnailSrc \in URLs /\ raw.thumbnail \in URLs
    <2>1. ASSUME NEW u \in Links(raw) PROVE u \in URLs
      <3>1. u \in [name : Nat, host : {u.host}, form : Forms]
        BY <1>1 DEF RawOK
      <3> DEFINE H(r) == {x.host : x \in Links(r)}
      <3>2. u.host \in H(raw)
        OBVIOUS
      <3>3. Hosts = {""} \cup UNION {H(r) : r \in Raws}
        BY DEF Hosts
      <3> HIDE DEF H
      <3>4. u.host \in Hosts
        BY <3>2, <3>3
      <3>5. QED
        BY <3>1, <3>4 DEF URLs
    <2>2. QED
      BY <2>1 DEF Links
  <1>3. NoURL \in URLs
    BY NoLink
  <1>4. \A u : Secure(u) => u \in URLs /\ u # NoURL /\ u.name \in Nat
    BY NoLink DEF Secure, URLs
  <1>5. \A u : u = NoURL \/ Secure(u) => u \in URLs
    BY <1>3, <1>4
  <1>6. "core" \in Pools /\ 0 \in Nat /\ "image" \in Categories /\ "video" \in Categories
    BY DEF Pools, Categories
  <1>7. CASE raw.template = "images.html"
    <2> DEFINE origin == FirstValidURL(<<raw.imgSrc>>)
               thumb == FirstValidURL(<<raw.thumbnailSrc, raw.thumbnail, origin>>)
               photo == IF EngineOf(raw) \in TrustedOrigin THEN FirstOf(origin, thumb)
                        ELSE FirstOf(thumb, origin)
               page == FirstValidURL(<<raw.url>>)
               id == FirstOf(origin, photo).name
               shown == FirstOf(thumb, photo)
    <2>1. \A p, n : Normalize(raw, p, n) = IF photo = NoURL THEN Unusable
                                           ELSE Medium(raw, p, n, "image", id, photo, shown, page)
      BY <1>7 DEF Normalize, NormalizeImage
    <2>2. origin = NoURL \/ Secure(origin)
      <3>1. <<raw.imgSrc>> \in Seq(URLs)
        BY <1>2
      <3>2. QED
        BY <3>1, FirstValidFacts
    <2>3. thumb = NoURL \/ Secure(thumb)
      <3> HIDE DEF origin
      <3>1. origin \in URLs
        BY <1>5, <2>2
      <3>2. <<raw.thumbnailSrc, raw.thumbnail, origin>> \in Seq(URLs)
        BY <1>2, <3>1
      <3>3. QED
        BY <3>2, FirstValidFacts
    <2>4. page = NoURL \/ Secure(page)
      <3>1. <<raw.url>> \in Seq(URLs)
        BY <1>2
      <3>2. QED
        BY <3>1, FirstValidFacts
    <2> HIDE DEF origin, thumb, page
    <2>5. photo # NoURL
      BY <2>1
    <2>6. Secure(photo)
      BY <2>2, <2>3, <2>5 DEF FirstOf
    <2> HIDE DEF photo
    <2>7. Secure(shown) /\ id \in Nat
      BY <1>4, <2>2, <2>3, <2>6 DEF FirstOf
    <2> HIDE DEF shown, id
    <2>8. photo \in URLs /\ shown \in URLs /\ page \in URLs
      BY <1>5, <2>4, <2>6, <2>7
    <2>9. \A p, n : Normalize(raw, p, n) = Medium(raw, p, n, "image", id, photo, shown, page)
      BY <2>1, <2>5
    <2>10. "image" \in Categories /\ Secure(IF "image" = "video" THEN page ELSE photo)
      BY <1>6, <2>6
    <2>11. QED
      BY <2>7, <2>8, <2>9, <2>10, MediumMade
  <1>8. CASE raw.template = "videos.html"
    <2> DEFINE thumb == FirstValidURL(<<raw.thumbnail, raw.thumbnailSrc, raw.imgSrc>>)
               page == FirstValidURL(<<raw.url, raw.iframeSrc>>)
    <2>1. \A p, k : Normalize(raw, p, k) = IF NoURL \in {thumb, page} THEN Unusable
                                           ELSE Medium(raw, p, k, "video", page.name, NoURL, thumb, page)
      BY <1>8 DEF Normalize, NormalizeVideo
    <2>2. thumb = NoURL \/ Secure(thumb)
      <3>1. <<raw.thumbnail, raw.thumbnailSrc, raw.imgSrc>> \in Seq(URLs)
        BY <1>2
      <3>2. QED
        BY <3>1, FirstValidFacts
    <2>3. page = NoURL \/ Secure(page)
      <3>1. <<raw.url, raw.iframeSrc>> \in Seq(URLs)
        BY <1>2
      <3>2. QED
        BY <3>1, FirstValidFacts
    <2> HIDE DEF thumb, page
    <2>4. NoURL \notin {thumb, page}
      BY <2>1
    <2> DEFINE id == page.name
    <2>5. Secure(thumb) /\ Secure(page) /\ id \in Nat /\ thumb \in URLs /\ page \in URLs
      BY <1>4, <2>2, <2>3, <2>4
    <2>6. \A p, k : Normalize(raw, p, k) = Medium(raw, p, k, "video", id, NoURL, thumb, page)
      BY <2>1, <2>4
    <2>7. "video" \in Categories /\ Secure(IF "video" = "video" THEN page ELSE NoURL)
      BY <1>6, <2>5
    <2> HIDE DEF id
    <2>8. QED
      BY <1>3, <2>5, <2>6, <2>7, MediumMade
  <1>9. QED
    BY <1>7, <1>8 DEF Normalize

\* Results of one ID are of one category, whichever pools returned them.
LEMMA MadeCategory ==
  \A p, o : \A q \in Made(p), r \in Made(o) : q.id = r.id => q.category = r.category
  BY BackendAssumption DEF BackendAssumption, Made

\* The results of a pool are made by it; there are none of a failed request.
LEMMA SearchPoolFacts ==
  ASSUME NEW reply \in AllReplies, NEW pool \in Pools, NEW configured, NEW categories
  PROVE  LET p == SearchPool(configured, pool, categories, reply)
         IN  /\ IsList(p.results) /\ ToSet(p.results) \subseteq Made(pool)
             /\ ~p.ok => p.results = <<>>
  <1> DEFINE p == SearchPool(configured, pool, categories, reply)
             n == Len(reply.raw)
             results == [i \in 1..n |-> Normalize(reply.raw[i], pool, i - 1)]
             kept == Keep(results, ToSet(results) \ {Unusable})
  <1>1. \/ p = Failure
        \/ p = [ok |-> TRUE, results |-> kept, hasMore |-> reply.raw # <<>>,
                degraded |-> reply.unresponsive]
    BY DEF SearchPool
  <1>2. reply.raw \in Seq(ToSet(reply.raw)) /\ ToSet(reply.raw) \subseteq Raws
    BY BackendAssumption DEF BackendAssumption, Raws
  <1>3. n \in Nat /\ \A i \in 1..n : reply.raw[i] \in Raws /\ i - 1 \in Nat
    BY <1>2
  <1>4. /\ DOMAIN results = 1..n /\ IsList(results)
        /\ \A r \in ToSet(results) : \E i \in 1..n : r = Normalize(reply.raw[i], pool, i - 1)
    <2>1. DOMAIN results = 1..n
      OBVIOUS
    <2>2. \A i \in 1..n : results[i] = Normalize(reply.raw[i], pool, i - 1)
      OBVIOUS
    <2>3. results = [i \in 1..n |-> results[i]]
      OBVIOUS
    <2> HIDE DEF results, n
    <2>4. ToSet(results) = {results[i] : i \in 1..n}
      BY <2>1 DEF ToSet
    <2>5. \A i \in 1..n : results[i] \in ToSet(results)
      BY <2>4
    <2>6. IsList(results)
      BY <1>3, <2>3, <2>5 DEF IsList
    <2>7. QED
      BY <2>1, <2>2, <2>4, <2>6
  <1> HIDE DEF results, n
  <1>5. IsList(kept) /\ ToSet(kept) = ToSet(results) \ {Unusable}
    BY <1>4, KeepFacts
  <1>6. \A r \in ToSet(kept) : r \in Made(pool)
    <2> SUFFICES ASSUME NEW r \in ToSet(kept) PROVE r \in Made(pool)
      OBVIOUS
    <2>1. r \in ToSet(results) /\ r # Unusable
      BY <1>5
    <2>2. PICK i \in 1..n : r = Normalize(reply.raw[i], pool, i - 1)
      BY <1>4, <2>1
    <2>3. QED
      BY <1>3, <2>1, <2>2, NormalizeFacts
  <1> HIDE DEF p, kept
  <1>7. CASE p = Failure
    <2>1. p.results = <<>>
      BY <1>7 DEF Failure
    <2>2. QED
      BY <2>1, EmptyList DEF p
  <1>8. CASE p # Failure
    <2>1. p.results = kept /\ p.ok
      BY <1>1, <1>8
    <2>2. QED
      BY <1>5, <1>6, <2>1 DEF p
  <1>9. QED
    BY <1>7, <1>8

-----------------------------------------------------------------------------
(* From the answers to the lanes                                           *)

\* Early the lanes are made.
Early == {"ask", "fallback", "merge"}

AnswerInv ==
  /\ pc \in Early \cup {"schedule", "diversify", "done"}
  /\ cats \in Lists /\ weak \subseteq ToSet(cats) /\ (pc = "fallback" => weak # {})
  /\ DOMAIN answer = Pools
  /\ \A pool \in Pools : /\ IsList(answer[pool].results)
                         /\ ToSet(answer[pool].results) \subseteq Made(pool)

LaneInv ==
  /\ DOMAIN lane = Pools /\ \A pool \in Pools : DOMAIN lane[pool] = Categories
  /\ LanesRanked
  /\ pc \in Early => \A pool \in Pools, cat \in Categories : lane[pool][cat] = <<>>

\* r is one result of the answers, with all that its copies say.
Whole(r) ==
  /\ Merged(r, Copies(r.id)) /\ Copies(r.id) # {}
  /\ r.pool = "core" <=> \E m \in Copies(r.id) : m.pool = "core"

Wanted == {m.id : m \in {n \in Media : n.category \in ToSet(cats)}}

\* Every wanted medium is in the schedule or in a lane, once, with all that its
\* copies say; the diversity pass keeps them apart.
EachOnce ==
  /\ \A r \in ToSet(scheduled) \cup Left : Whole(r)
  /\ Wanted = {r.id : r \in ToSet(scheduled) \cup Left}
  /\ Distinct(scheduled)
  /\ \A pool \in Pools, cat \in ToSet(cats) : Distinct(lane[pool][cat])
  /\ \A r \in ToSet(scheduled), q \in Left : r.id # q.id
  /\ pc # "schedule" => Left = {}
  /\ Distinct(out) /\ Distinct(remaining)
  /\ \A r \in ToSet(out), q \in ToSet(remaining) : r.id # q.id

CompleteInv ==
  /\ AnswerInv /\ LaneInv
  /\ pc \notin Early => EachOnce

\* The categories a search may be about.
LEMMA ListCases ==
  ASSUME NEW list \in Lists
  PROVE  /\ IsList(list) /\ ToSet(list) \subseteq Categories /\ ToSet(list) # {}
         /\ \/ list = <<"image">> /\ ToSet(list) = {"image"}
            \/ list = <<"video">> /\ ToSet(list) = {"video"}
            \/ list = <<"image", "video">> /\ ToSet(list) = {"image", "video"}
  <1>1. CASE list = <<"image">>
    <2>1. ToSet(list) = {"image"}
      BY <1>1 DEF ToSet
    <2>2. QED
      BY <1>1, <2>1 DEF IsList, Categories
  <1>2. CASE list = <<"video">>
    <2>1. ToSet(list) = {"video"}
      BY <1>2 DEF ToSet
    <2>2. QED
      BY <1>2, <2>1 DEF IsList, Categories
  <1>3. CASE list = <<"image", "video">>
    <2>1. ToSet(list) = {"image", "video"}
      BY <1>3 DEF ToSet
    <2>2. QED
      BY <1>3, <2>1 DEF IsList, Categories
  <1>4. QED
    BY <1>1, <1>2, <1>3 DEF Lists

\* What is weak of a list of categories is one.
LEMMA WeakList ==
  ASSUME NEW list \in Lists, NEW S, S \subseteq ToSet(list), S # {}
  PROVE  Keep(list, S) \in Lists
  <1>1. PICK acc : /\ acc[0] = <<>> /\ Keep(list, S) = acc[Len(list)]
                   /\ \A k \in 1..Len(list) :
                        acc[k] = IF list[k] \in S THEN Append(acc[k - 1], list[k]) ELSE acc[k - 1]
    BY ListCases, KeepRuns
  <1>2. ASSUME NEW x
        PROVE  Append(<<>>, x) = <<x>>
    <2>1. <<>> \in Seq({x}) /\ x \in {x} /\ <<x>> \in Seq({x})
      OBVIOUS
    <2>2. Append(<<>>, x) \in Seq({x}) /\ Len(Append(<<>>, x)) = 1 /\ Append(<<>>, x)[1] = x
      BY <2>1, EmptyList, AppendPlaces, AppendProperties
    <2>3. QED
      BY <2>1, <2>2, SeqEqual
  <1>3. Append(<<"image">>, "video") = <<"image", "video">>
    <2>1. /\ <<"image">> \in Seq(Categories) /\ "video" \in Categories
          /\ <<"image", "video">> \in Seq(Categories)
      BY DEF Categories
    <2> DEFINE t == Append(<<"image">>, "video")
    <2>2. t \in Seq(Categories) /\ Len(t) = 2 /\ t[1] = "image" /\ t[2] = "video"
      BY <2>1, AppendProperties
    <2> HIDE DEF t
    <2>3. t = <<"image", "video">>
      BY <2>1, <2>2, SeqEqual
    <2>4. QED
      BY <2>3 DEF t
  <1>4. ASSUME NEW x, list = <<x>>, x \in Categories
        PROVE  Keep(list, S) \in Lists
    <2>1. Len(list) = 1 /\ list[1] = x /\ ToSet(list) = {x} /\ 1 - 1 = 0 /\ 1 \in 1..1
      BY <1>4 DEF ToSet
    <2>2. x \in S
      BY <2>1
    <2>3. acc[1] = Append(acc[0], x)
      BY <1>1, <2>1, <2>2
    <2>4. Keep(list, S) = <<x>>
      BY <1>1, <1>2, <2>1, <2>3
    <2>5. QED
      BY <1>4, <2>4 DEF Lists, Categories
  <1>5. CASE list = <<"image", "video">>
    <2>1. /\ Len(list) = 2 /\ list[1] = "image" /\ list[2] = "video"
          /\ 1 - 1 = 0 /\ 2 - 1 = 1 /\ 1 \in 1..2 /\ 2 \in 1..2
      BY <1>5
    <2>2. S \subseteq {"image", "video"}
      BY <1>5, ListCases
    <2>3. acc[1] = IF "image" \in S THEN Append(<<>>, "image") ELSE <<>>
      BY <1>1, <2>1
    <2>4. acc[2] = IF "video" \in S THEN Append(acc[1], "video") ELSE acc[1]
      BY <1>1, <2>1
    <2>5. CASE "image" \notin S
      BY <1>1, <1>2, <2>1, <2>2, <2>3, <2>4, <2>5 DEF Lists
    <2>6. CASE "image" \in S
      <3>1. acc[1] = <<"image">>
        BY <1>2, <2>3, <2>6
      <3>2. QED
        BY <1>1, <1>3, <2>1, <2>4, <3>1 DEF Lists
    <2>7. QED
      BY <2>5, <2>6
  <1>6. list = <<"image">> \/ list = <<"video">> \/ list = <<"image", "video">>
    BY DEF Lists
  <1>7. QED
    BY <1>4, <1>5, <1>6 DEF Categories

\* What is asked for is answered by one of the replies.
LEMMA RepliesAre ==
  ASSUME NEW list \in Lists, NEW request \in Pools \cup {"fallback"}
  PROVE  \A reply \in Replies[request][list] : reply \in AllReplies
  <1> DEFINE All == {Replies[q][l] : q \in Pools \cup {"fallback"}, l \in Lists}
  <1>1. Replies[request][list] \in All
    OBVIOUS
  <1>2. AllReplies = UNION All
    BY DEF AllReplies
  <1> HIDE DEF All
  <1>3. QED
    BY <1>1, <1>2

\* Each answer is made of the results of its pool, the fallback's added.
LEMMA AnswerStep ==
  ASSUME AnswerInv, [Next]_vars
  PROVE  AnswerInv'
  <1> USE DEF AnswerInv
  <1>1. CASE Weigh
    <2>1. PICK c \in Replies["core"][cats], d \in Replies["discovery"][cats] :
            answer' = [core |-> Ask("core", cats, c), discovery |-> Ask("discovery", cats, d)]
      <3>1. PICK c \in Replies["core"][cats] :
              \E d \in Replies["discovery"][cats] :
                answer' = [core |-> Ask("core", cats, c), discovery |-> Ask("discovery", cats, d)]
        BY <1>1 DEF Weigh
      <3>2. QED
        BY <3>1
    <2> DEFINE core == Ask("core", cats, c)
               discovery == Ask("discovery", cats, d)
    <2>2. c \in AllReplies /\ d \in AllReplies /\ "core" \in Pools /\ "discovery" \in Pools
      BY RepliesAre DEF Pools
    <2>3. /\ IsList(core.results) /\ ToSet(core.results) \subseteq Made("core")
          /\ IsList(discovery.results) /\ ToSet(discovery.results) \subseteq Made("discovery")
      BY <2>2, SearchPoolFacts DEF Ask
    <2>4. answer' = [core |-> core, discovery |-> discovery]
      BY <2>1
    <2> HIDE DEF core, discovery
    <2>5. /\ DOMAIN answer' = Pools /\ answer'["core"] = core /\ answer'["discovery"] = discovery
      BY <2>4 DEF Pools
    <2>6. \A pool \in Pools : /\ IsList(answer'[pool].results)
                              /\ ToSet(answer'[pool].results) \subseteq Made(pool)
      BY <2>3, <2>5 DEF Pools
    <2>7. cats' = cats
      BY <1>1 DEF Weigh
    <2>8. /\ pc' \in {"done", "merge", "fallback"}
          /\ weak' \subseteq ToSet(cats) /\ (pc' = "fallback" => weak' # {})
      BY <1>1 DEF Weigh
    <2>9. QED
      BY <2>5, <2>6, <2>7, <2>8 DEF IsList, Early
  <1>2. CASE Fallback
    <2> DEFINE weakCats == Keep(cats, weak)
    <2>1. pc = "fallback" /\ pc' = "merge" /\ cats' = cats /\ weak' = weak
      BY <1>2 DEF Fallback
    <2>2. PICK reply \in Replies["fallback"][weakCats] :
            \E h, g : answer' = [answer EXCEPT !["core"] =
                    [ok       |-> answer["core"].ok,
                     results  |-> answer["core"].results \o Ask("core", weakCats, reply).results,
                     hasMore  |-> h, degraded |-> g]]
      BY <1>2 DEF Fallback
    <2>3. weakCats \in Lists
      BY <2>1, WeakList
    <2> HIDE DEF weakCats
    <2>4. reply \in AllReplies /\ "core" \in Pools
      BY <2>3, RepliesAre DEF Pools
    <2> DEFINE more == Ask("core", weakCats, reply)
    <2>5. IsList(more.results) /\ ToSet(more.results) \subseteq Made("core")
      BY <2>4, SearchPoolFacts DEF Ask
    <2>6. PICK h, g : answer' = [answer EXCEPT !["core"] =
                    [ok       |-> answer["core"].ok,
                     results  |-> answer["core"].results \o more.results,
                     hasMore  |-> h, degraded |-> g]]
      BY <2>2
    <2> HIDE DEF more
    <2>7. /\ DOMAIN answer' = Pools
          /\ answer'["core"].results = answer["core"].results \o more.results
          /\ answer'["discovery"] = answer["discovery"]
      BY <2>4, <2>6 DEF Pools
    <2>8. /\ IsList(answer["core"].results) /\ ToSet(answer["core"].results) \subseteq Made("core")
      BY <2>4
    <2>9. /\ IsList(answer'["core"].results) /\ ToSet(answer'["core"].results) \subseteq Made("core")
      <3> DEFINE a == answer["core"].results
                 b == more.results
      <3>1. IsList(a) /\ IsList(b) /\ ToSet(a) \subseteq Made("core") /\ ToSet(b) \subseteq Made("core")
        BY <2>5, <2>8
      <3> HIDE DEF a, b
      <3>2. IsList(a \o b) /\ ToSet(a \o b) = ToSet(a) \cup ToSet(b)
        BY <3>1, ConcatFacts
      <3>3. answer'["core"].results = a \o b
        BY <2>7 DEF a, b
      <3>4. QED
        BY <3>1, <3>2, <3>3
    <2>10. \A pool \in Pools : /\ IsList(answer'[pool].results)
                              /\ ToSet(answer'[pool].results) \subseteq Made(pool)
      BY <2>7, <2>9 DEF Pools
    <2>11. QED
      BY <2>1, <2>7, <2>10 DEF IsList, Early
  <1>3. CASE Postprocess \/ Schedule \/ Scheduled \/ Diversify \/ Return \/ UNCHANGED vars
    <2>1. UNCHANGED <<cats, weak, answer>>
      BY <1>3 DEF Postprocess, Schedule, Scheduled, Diversify, Return, vars
    <2>2. pc' \in {pc, "schedule", "diversify", "done"} /\ (pc' = "fallback" => pc = "fallback")
      BY <1>3 DEF Postprocess, Schedule, Scheduled, Diversify, Return, vars
    <2>3. QED
      BY <2>1, <2>2 DEF IsList, Early
  <1>4. QED
    BY <1>1, <1>2, <1>3 DEF Next

\* There is no answer at the start.
LEMMA InitAnswer == Init => AnswerInv
  <1> SUFFICES ASSUME Init PROVE AnswerInv
    OBVIOUS
  <1>1. answer = [pool \in Pools |-> Failure] /\ pc = "ask" /\ weak = {}
    BY DEF Init
  <1>2. cats \in Lists
    BY RankingAssumption DEF RankingAssumption, Init
  <1>3. \A pool \in Pools : answer[pool].results = <<>>
    BY <1>1 DEF Failure
  <1>4. \A pool \in Pools : IsList(answer[pool].results) /\ ToSet(answer[pool].results) \subseteq Made(pool)
    BY <1>3, EmptyList
  <1>5. QED
    BY <1>1, <1>2, <1>4 DEF AnswerInv, Early

-----------------------------------------------------------------------------
(* What becomes of two pools' results                                      *)

\* core and discovery have, once each, the media of A and B, and what core's
\* answer has of them in core.
Pooled(core, discovery, A, B) ==
  LET Of(id) == {m \in A \cup B : m.id = id}
  IN  /\ core \in Seq(Results) /\ discovery \in Seq(Results)
      /\ Distinct(core) /\ Distinct(discovery)
      /\ \A r \in ToSet(core) : /\ r.pool = "core" /\ Merged(r, Of(r.id))
                                /\ \E m \in Of(r.id) : m.pool = "core"
      /\ \A r \in ToSet(discovery) : /\ r.pool = "discovery" /\ Merged(r, Of(r.id))
                                     /\ Of(r.id) # {} /\ \A m \in Of(r.id) : m.pool # "core"
      /\ \A m \in A \cup B : \E r \in ToSet(core) \cup ToSet(discovery) : r.id = m.id
      /\ \A q \in ToSet(core), r \in ToSet(discovery) : q.id # r.id

\* Postprocess makes such a pair of the answers of two pools.
LEMMA PooledFacts ==
  ASSUME NEW a, NEW b, IsList(a), IsList(b),
         ToSet(a) \subseteq Made("core"), ToSet(b) \subseteq Made("discovery")
  PROVE  LET first == MergeDuplicates(a)
             second == MergeDuplicates(b)
             core == Absorb(first, second)
             rest == {r \in ToSet(second) : \A i \in DOMAIN core : core[i].id # r.id}
         IN  Pooled(core, Keep(second, rest), ToSet(a), ToSet(b))
  <1> DEFINE A == ToSet(a)
             B == ToSet(b)
             Of(id) == {m \in A \cup B : m.id = id}
             first == MergeDuplicates(a)
             second == MergeDuplicates(b)
             core == Absorb(first, second)
             rest == {r \in ToSet(second) : \A i \in DOMAIN core : core[i].id # r.id}
             discovery == Keep(second, rest)
  <1>1. /\ \A m \in A : m \in Results /\ m.pool = "core" /\ Usable(m)
        /\ \A m \in B : m \in Results /\ m.pool = "discovery" /\ Usable(m)
    BY DEF Made
  <1>2. a \in Seq(Results) /\ b \in Seq(Results)
    BY <1>1, TypedList
  <1>3. \A q, r \in A \cup B : q.id = r.id => q.category = r.category
    <2>1. \A q \in A \cup B : \E p : q \in Made(p)
      OBVIOUS
    <2> SUFFICES ASSUME NEW q \in A \cup B, NEW r \in A \cup B, q.id = r.id
                 PROVE  q.category = r.category
      OBVIOUS
    <2>2. PICK p : q \in Made(p)
      BY <2>1
    <2>3. PICK o : r \in Made(o)
      BY <2>1
    <2>4. QED
      BY <2>2, <2>3, MadeCategory
  <1>4. MergeOf(first, A)
    BY <1>1, <1>2, <1>3, MergeDuplicatesFacts
  <1>5. MergeOf(second, B)
    BY <1>1, <1>2, <1>3, MergeDuplicatesFacts
  <1> HIDE DEF first, second, A, B
  <1>6. /\ first \in Seq(Results) /\ second \in Seq(Results) /\ Distinct(first) /\ Distinct(second)
        /\ IsList(first) /\ IsList(second)
    BY <1>4, <1>5, TypedList DEF MergeOf
  <1>7. /\ \A r \in ToSet(first) : /\ Merged(r, {q \in A : q.id = r.id}) /\ r.pool = "core"
                                   /\ \E q \in A : q.id = r.id /\ q.category = r.category
        /\ \A q \in A : \E r \in ToSet(first) : r.id = q.id
    BY <1>1, <1>4 DEF MergeOf
  <1>8. /\ \A r \in ToSet(second) : /\ Merged(r, {q \in B : q.id = r.id}) /\ r.pool = "discovery"
                                    /\ \E q \in B : q.id = r.id /\ q.category = r.category
        /\ \A q \in B : \E r \in ToSet(second) : r.id = q.id
    BY <1>1, <1>5 DEF MergeOf
  <1> DEFINE C == [i \in 1..Len(first) |-> {q \in A : q.id = first[i].id}]
             F == [j \in 1..Len(second) |-> {q \in B : q.id = second[j].id}]
             More(i) == UNION {F[j] : j \in {l \in 1..Len(second) : second[l].id = first[i].id}}
  <1>9. /\ \A i \in 1..Len(first) : first[i] \in ToSet(first)
        /\ \A j \in 1..Len(second) : second[j] \in ToSet(second)
    BY <1>6, ListFacts
  <1>10. Mergeable(first, second, C, F)
    <2>1. \A i \in 1..Len(first) : Merged(first[i], C[i])
      BY <1>7, <1>9
    <2>2. \A j \in 1..Len(second) : Merged(second[j], F[j])
      BY <1>8, <1>9
    <2>3. \A q \in ToSet(first), r \in ToSet(second) : q.id = r.id => q.category = r.category
      <3> SUFFICES ASSUME NEW q \in ToSet(first), NEW r \in ToSet(second), q.id = r.id
                   PROVE  q.category = r.category
        OBVIOUS
      <3>1. PICK m \in A : m.id = q.id /\ m.category = q.category
        BY <1>7
      <3>2. PICK n \in B : n.id = r.id /\ n.category = r.category
        BY <1>8
      <3>3. m \in A \cup B /\ n \in A \cup B /\ m.id = n.id
        BY <3>1, <3>2
      <3>4. m.category = n.category
        BY <1>3, <3>3
      <3>5. QED
        BY <3>1, <3>2, <3>4
    <2>4. QED
      BY <1>6, <1>9, <2>1, <2>2, <2>3 DEF Mergeable
  <1>11. Absorbed(core, first, second, C, F)
    <2> HIDE DEF C, F
    <2>1. QED
      BY <1>10, AbsorbFacts
  <1> HIDE DEF core
  <1>12. /\ core \in Seq(Results) /\ Len(core) = Len(first) /\ IsList(core)
         /\ \A i \in 1..Len(first) : /\ core[i].id = first[i].id /\ core[i].pool = first[i].pool
                                     /\ Merged(core[i], C[i] \cup More(i))
    BY <1>11, TypedList DEF Absorbed
  <1>13. /\ DOMAIN core = 1..Len(first) /\ DOMAIN first = 1..Len(first)
         /\ \A r \in ToSet(core) : \E i \in 1..Len(first) : r = core[i]
         /\ \A i \in 1..Len(first) : core[i] \in ToSet(core)
    BY <1>6, <1>12, ListFacts
  <1>14. ASSUME NEW i \in 1..Len(first) PROVE C[i] \cup More(i) = Of(first[i].id)
    <2>1. ASSUME NEW q \in B, q.id = first[i].id PROVE q \in More(i)
      <3>1. PICK r \in ToSet(second) : r.id = q.id
        BY <1>8
      <3>2. PICK j \in 1..Len(second) : r = second[j]
        BY <1>6, ListFacts
      <3>3. q \in F[j] /\ second[j].id = first[i].id
        BY <2>1, <3>1, <3>2
      <3>4. QED
        BY <3>3
    <2>2. ASSUME NEW q \in More(i) PROVE q \in B /\ q.id = first[i].id
      OBVIOUS
    <2>3. \A q : q \in C[i] <=> q \in A /\ q.id = first[i].id
      OBVIOUS
    <2> HIDE DEF C, More
    <2>4. QED
      BY <2>1, <2>2, <2>3
  <1> HIDE DEF C, F, More
  <1>15. ASSUME NEW r \in ToSet(core)
         PROVE  r.pool = "core" /\ Merged(r, Of(r.id)) /\ \E m \in Of(r.id) : m.pool = "core"
    <2>1. PICK i \in 1..Len(first) : r = core[i]
      BY <1>13
    <2>2. r.id = first[i].id /\ r.pool = "core" /\ Merged(r, Of(r.id))
      <3>1. r.id = first[i].id /\ r.pool = first[i].pool /\ Merged(r, C[i] \cup More(i))
        BY <1>12, <2>1
      <3>2. first[i].pool = "core"
        BY <1>7, <1>9
      <3>3. C[i] \cup More(i) = Of(r.id)
        BY <1>14, <3>1
      <3>4. QED
        BY <3>1, <3>2, <3>3
    <2>3. PICK q \in A : q.id = first[i].id
      BY <1>7, <1>9
    <2>4. q \in Of(r.id) /\ q.pool = "core"
      BY <1>1, <2>2, <2>3 DEF A
    <2> HIDE DEF Of
    <2>5. QED
      BY <2>2, <2>4
  <1>16. Distinct(core)
    BY <1>6, <1>12, <1>13 DEF Distinct
  <1>17. \A q \in A : \E r \in ToSet(core) : r.id = q.id
    <2> SUFFICES ASSUME NEW q \in A PROVE \E r \in ToSet(core) : r.id = q.id
      OBVIOUS
    <2>1. PICK f \in ToSet(first) : f.id = q.id
      BY <1>7
    <2>2. PICK i \in 1..Len(first) : f = first[i]
      BY <1>6, ListFacts
    <2>3. QED
      BY <1>12, <1>13, <2>1, <2>2
  <1>18. IsList(discovery) /\ ToSet(discovery) = ToSet(second) \cap rest /\ Distinct(discovery)
    BY <1>6, KeepFacts
  <1> HIDE DEF discovery
  <1>19. /\ \A r \in ToSet(discovery) : r \in ToSet(second)
         /\ \A q \in ToSet(core), r \in ToSet(discovery) : q.id # r.id
    BY <1>13, <1>18
  <1>20. ASSUME NEW r \in ToSet(discovery)
         PROVE  /\ r.pool = "discovery" /\ Merged(r, Of(r.id)) /\ Of(r.id) # {}
                /\ \A m \in Of(r.id) : m.pool # "core"
    <2>1. \A q \in A : q.id # r.id
      BY <1>17, <1>19
    <2>2. Of(r.id) = {q \in B : q.id = r.id}
      BY <2>1
    <2>3. PICK q \in B : q.id = r.id
      BY <1>8, <1>19
    <2>4. r.pool = "discovery" /\ Merged(r, Of(r.id))
      BY <1>8, <1>19, <2>2
    <2>5. \A m \in B : m.pool # "core"
      BY <1>1 DEF B
    <2>6. QED
      BY <2>2, <2>3, <2>4, <2>5
  <1>21. \A m \in A \cup B : \E r \in ToSet(core) \cup ToSet(discovery) : r.id = m.id
    <2> SUFFICES ASSUME NEW m \in B, \A r \in ToSet(core) : r.id # m.id
                 PROVE  \E r \in ToSet(discovery) : r.id = m.id
      BY <1>17
    <2>1. PICK s \in ToSet(second) : s.id = m.id
      BY <1>8
    <2>2. s \in rest
      BY <1>13, <2>1
    <2>3. QED
      BY <1>18, <2>1, <2>2
  <1>22. discovery \in Seq(Results)
    <2>1. ToSet(second) \subseteq Results
      BY <1>6, TypedList
    <2>2. QED
      BY <1>18, <1>19, <2>1, TypedList
  <1> HIDE DEF Of
  <1>23. Pooled(core, discovery, A, B)
    BY <1>12, <1>15, <1>16, <1>18, <1>19, <1>20, <1>21, <1>22 DEF Pooled, Of
  <1>24. QED
    BY <1>23 DEF discovery, core, first, second, A, B

\* The results of one category.
LEMMA FilterFacts ==
  ASSUME NEW s \in Seq(Results), Distinct(s), NEW cat
  PROVE  /\ IsList(FilterCategory(s, cat)) /\ Distinct(FilterCategory(s, cat))
         /\ ToSet(FilterCategory(s, cat)) = {r \in ToSet(s) : r.category = cat}
         /\ ToSet(FilterCategory(s, cat)) \subseteq Results
  <1>1. IsList(s) /\ ToSet(s) \subseteq Results
    BY TypedList
  <1>2. QED
    BY <1>1, KeepFacts DEF FilterCategory

\* The strong ones go first.
LEMMA PrioritizeFacts ==
  ASSUME NEW s, IsList(s), Distinct(s)
  PROVE  LET t == PrioritizeDiscovery(s)
         IN  /\ IsList(t) /\ ToSet(t) = ToSet(s) /\ Distinct(t)
             /\ \A i, j \in DOMAIN t : i < j /\ Strong(t[j]) => Strong(t[i])
  <1> DEFINE S == {r \in ToSet(s) : Strong(r)}
             u == Keep(s, S)
             v == Keep(s, ToSet(s) \ S)
             t == u \o v
  <1>1. /\ IsList(u) /\ ToSet(u) = ToSet(s) \cap S /\ Distinct(u)
        /\ IsList(v) /\ ToSet(v) = ToSet(s) \cap (ToSet(s) \ S) /\ Distinct(v)
    BY KeepFacts
  <1> HIDE DEF u, v
  <1>2. \A q \in ToSet(u), r \in ToSet(v) : q.id # r.id
    BY <1>1, ListFacts DEF Distinct
  <1>3. /\ IsList(t) /\ ToSet(t) = ToSet(u) \cup ToSet(v) /\ Distinct(t)
        /\ Len(t) = Len(u) + Len(v)
        /\ \A i \in 1..(Len(u) + Len(v)) : t[i] = IF i <= Len(u) THEN u[i] ELSE v[i - Len(u)]
    BY <1>1, <1>2, ConcatFacts
  <1>4. ToSet(t) = ToSet(s)
    BY <1>1, <1>3
  <1> HIDE DEF t
  <1>5. /\ \A i \in 1..Len(u) : Strong(u[i])
        /\ \A i \in 1..Len(v) : ~Strong(v[i])
    BY <1>1, ListFacts
  <1>6. Len(u) \in Nat /\ Len(v) \in Nat /\ DOMAIN t = 1..(Len(u) + Len(v))
    BY <1>1, <1>3, ListFacts
  <1>7. ASSUME NEW i \in DOMAIN t, NEW j \in DOMAIN t, i < j, Strong(t[j]) PROVE Strong(t[i])
    <2>1. j <= Len(u)
      <3> SUFFICES ASSUME ~(j <= Len(u)) PROVE FALSE
        OBVIOUS
      <3>1. t[j] = v[j - Len(u)] /\ j - Len(u) \in 1..Len(v)
        BY <1>3, <1>6
      <3>2. QED
        BY <1>5, <1>7, <3>1
    <2>2. i \in 1..Len(u) /\ t[i] = u[i]
      BY <1>3, <1>6, <1>7, <2>1
    <2>3. QED
      BY <1>5, <2>2
  <1>8. QED
    BY <1>3, <1>4, <1>7 DEF PrioritizeDiscovery, t, u, v, S

-----------------------------------------------------------------------------
(* The lanes                                                               *)

\* The media are those of the two answers.
LEMMA MediaAre ==
  ASSUME DOMAIN answer = Pools
  PROVE  Media = ToSet(answer["core"].results) \cup ToSet(answer["discovery"].results)
  BY DEF Media, Pools

\* The lanes of a pool's merged results.
LEMMA CoreLane ==
  ASSUME NEW s \in Seq(Results), Distinct(s), NEW cat
  PROVE  LET t == RankGroup(FilterCategory(s, cat))
         IN  IsList(t) /\ Distinct(t) /\ ToSet(t) = {r \in ToSet(s) : r.category = cat}
  <1> DEFINE u == FilterCategory(s, cat)
  <1>1. /\ IsList(u) /\ Distinct(u) /\ ToSet(u) = {r \in ToSet(s) : r.category = cat}
        /\ ToSet(u) \subseteq Results
    BY FilterFacts
  <1> HIDE DEF u
  <1>2. IsList(RankGroup(u)) /\ ToSet(RankGroup(u)) = ToSet(u) /\ Distinct(RankGroup(u))
    BY <1>1, RankGroupFacts
  <1>3. QED
    BY <1>1, <1>2 DEF u

\* In discovery's the strong ones come first.
LEMMA DiscoveryLane ==
  ASSUME NEW s \in Seq(Results), Distinct(s), NEW cat
  PROVE  LET t == PrioritizeDiscovery(RankGroup(FilterCategory(s, cat)))
         IN  /\ IsList(t) /\ Distinct(t) /\ ToSet(t) = {r \in ToSet(s) : r.category = cat}
             /\ \A i, j \in DOMAIN t : i < j /\ Strong(t[j]) => Strong(t[i])
  <1> DEFINE u == RankGroup(FilterCategory(s, cat))
  <1>1. IsList(u) /\ Distinct(u) /\ ToSet(u) = {r \in ToSet(s) : r.category = cat}
    BY CoreLane
  <1> HIDE DEF u
  <1>2. /\ IsList(PrioritizeDiscovery(u)) /\ ToSet(PrioritizeDiscovery(u)) = ToSet(u)
        /\ Distinct(PrioritizeDiscovery(u))
        /\ \A i, j \in DOMAIN PrioritizeDiscovery(u) :
             i < j /\ Strong(PrioritizeDiscovery(u)[j]) => Strong(PrioritizeDiscovery(u)[i])
    BY <1>1, PrioritizeFacts
  <1>3. QED
    BY <1>1, <1>2 DEF u

\* A well-kept list of the results of a pool and a category.
LaneOf(t, all, pool, cat) ==
  /\ IsList(t) /\ Distinct(t) /\ ToSet(t) = {r \in ToSet(all) : r.category = cat}
  /\ pool = "discovery" => \A i, j \in DOMAIN t : i < j /\ Strong(t[j]) => Strong(t[i])

\* The lanes have what the pools have, each where it belongs.
LEMMA LanesMade ==
  ASSUME AnswerInv, Postprocess
  PROVE  \E core, discovery :
           LET all == [pool \in Pools |-> IF pool = "core" THEN core ELSE discovery]
           IN  /\ Pooled(core, discovery, ToSet(answer["core"].results),
                                          ToSet(answer["discovery"].results))
               /\ DOMAIN lane' = Pools /\ \A pool \in Pools : DOMAIN lane'[pool] = Categories
               /\ \A pool \in Pools, cat \in Categories :
                    IF cat \in ToSet(cats) THEN LaneOf(lane'[pool][cat], all[pool], pool, cat)
                    ELSE lane'[pool][cat] = <<>>
  <1> DEFINE a == answer["core"].results
             b == answer["discovery"].results
             second == MergeDuplicates(b)
             core == Absorb(MergeDuplicates(a), second)
             discovery == Keep(second, {r \in ToSet(second) : \A i \in DOMAIN core : core[i].id # r.id})
             all == [pool \in Pools |-> IF pool = "core" THEN core ELSE discovery]
             Lane(pool, cat) == IF cat \notin ToSet(cats) THEN <<>>
                                ELSE IF pool = "core" THEN RankGroup(FilterCategory(core, cat))
                                ELSE PrioritizeDiscovery(RankGroup(FilterCategory(discovery, cat)))
  <1>1. /\ IsList(a) /\ ToSet(a) \subseteq Made("core")
        /\ IsList(b) /\ ToSet(b) \subseteq Made("discovery")
    BY DEF AnswerInv, Pools
  <1>2. Pooled(core, discovery, ToSet(a), ToSet(b))
    <2> HIDE DEF a, b
    <2>1. QED
      BY <1>1, PooledFacts
  <1>3. lane' = [pool \in Pools |-> [cat \in Categories |-> Lane(pool, cat)]]
    BY DEF Postprocess
  <1> HIDE DEF core, discovery
  <1>4. /\ core \in Seq(Results) /\ Distinct(core)
        /\ discovery \in Seq(Results) /\ Distinct(discovery)
    BY <1>2 DEF Pooled
  <1>5. ASSUME NEW pool \in Pools, NEW cat \in ToSet(cats)
        PROVE  LaneOf(Lane(pool, cat), all[pool], pool, cat)
    <2>1. CASE pool = "core"
      <3>1. Lane(pool, cat) = RankGroup(FilterCategory(core, cat)) /\ all[pool] = core
        BY <2>1
      <3>2. QED
        BY <1>4, <2>1, <3>1, CoreLane DEF LaneOf
    <2>2. CASE pool = "discovery"
      <3>1. /\ Lane(pool, cat) = PrioritizeDiscovery(RankGroup(FilterCategory(discovery, cat)))
            /\ all[pool] = discovery
        BY <2>2
      <3> DEFINE t == PrioritizeDiscovery(RankGroup(FilterCategory(discovery, cat)))
      <3>2. /\ IsList(t) /\ Distinct(t) /\ ToSet(t) = {r \in ToSet(discovery) : r.category = cat}
            /\ \A i, j \in DOMAIN t : i < j /\ Strong(t[j]) => Strong(t[i])
        BY <1>4, DiscoveryLane
      <3> HIDE DEF t
      <3>3. LaneOf(t, discovery, pool, cat)
        BY <3>2 DEF LaneOf
      <3>4. QED
        BY <3>1, <3>3 DEF t
    <2>3. QED
      BY <2>1, <2>2 DEF Pools
  <1>6. \A pool \in Pools, cat \in Categories : cat \notin ToSet(cats) => Lane(pool, cat) = <<>>
    OBVIOUS
  <1> HIDE DEF Lane, all
  <1>7. /\ DOMAIN lane' = Pools /\ \A pool \in Pools : DOMAIN lane'[pool] = Categories
        /\ \A pool \in Pools, cat \in Categories : lane'[pool][cat] = Lane(pool, cat)
    BY <1>3
  <1>8. \A pool \in Pools, cat \in Categories :
          IF cat \in ToSet(cats) THEN LaneOf(lane'[pool][cat], all[pool], pool, cat)
          ELSE lane'[pool][cat] = <<>>
    BY <1>5, <1>6, <1>7
  <1>9. QED
    BY <1>2, <1>7, <1>8 DEF all, a, b

\* Once the lanes are made, they have every wanted medium.
LEMMA PostprocessStep ==
  ASSUME RankInv, CompleteInv, Postprocess
  PROVE  CompleteInv'
  <1> DEFINE A == ToSet(answer["core"].results)
             B == ToSet(answer["discovery"].results)
             Of(id) == {m \in A \cup B : m.id = id}
             asked == ToSet(cats)
  <1>1. AnswerInv /\ AnswerInv'
    <2>1. [Next]_vars
      BY DEF Next
    <2>2. QED
      BY <2>1, AnswerStep DEF CompleteInv
  <1>2. /\ pc = "merge" /\ pc' = "schedule"
        /\ UNCHANGED <<cats, answer, scheduled, remaining, out>>
    BY DEF Postprocess
  <1>3. scheduled' = <<>> /\ remaining' = <<>> /\ out' = <<>>
    BY <1>2 DEF RankInv, PassOK
  <1>4. PICK core, discovery :
           LET all == [pool \in Pools |-> IF pool = "core" THEN core ELSE discovery]
           IN  /\ Pooled(core, discovery, A, B)
               /\ DOMAIN lane' = Pools /\ \A pool \in Pools : DOMAIN lane'[pool] = Categories
               /\ \A pool \in Pools, cat \in Categories :
                    IF cat \in asked THEN LaneOf(lane'[pool][cat], all[pool], pool, cat)
                    ELSE lane'[pool][cat] = <<>>
    BY <1>1, LanesMade
  <1> DEFINE all == [pool \in Pools |-> IF pool = "core" THEN core ELSE discovery]
             lanes == lane'
  <1>5. /\ Pooled(core, discovery, A, B)
        /\ DOMAIN lanes = Pools /\ \A pool \in Pools : DOMAIN lanes[pool] = Categories
        /\ \A pool \in Pools, cat \in asked : LaneOf(lanes[pool][cat], all[pool], pool, cat)
        /\ \A pool \in Pools, cat \in Categories : cat \notin asked => lanes[pool][cat] = <<>>
    <2>1. asked \subseteq Categories
      BY <1>1, ListCases DEF AnswerInv
    <2> HIDE DEF asked, A, B
    <2>2. QED
      BY <1>4, <2>1
  <1> HIDE DEF lanes
  <1>6. Media = A \cup B /\ Media' = A \cup B
    <2>1. DOMAIN answer = Pools
      BY <1>1 DEF AnswerInv
    <2>2. Media = A \cup B
      BY <2>1, MediaAre
    <2>3. Media' = Media
      BY <1>2 DEF Media
    <2>4. QED
      BY <2>2, <2>3
  <1>7. \A id : Copies(id)' = Of(id)
    BY <1>6 DEF Copies
  <1> HIDE DEF asked, A, B, Of
  <1>8. /\ core \in Seq(Results) /\ discovery \in Seq(Results)
        /\ \A r \in ToSet(core) : /\ r.pool = "core" /\ Merged(r, Of(r.id))
                                  /\ \E m \in Of(r.id) : m.pool = "core"
        /\ \A r \in ToSet(discovery) : /\ r.pool = "discovery" /\ Merged(r, Of(r.id))
                                       /\ Of(r.id) # {} /\ \A m \in Of(r.id) : m.pool # "core"
        /\ \A m \in A \cup B : \E r \in ToSet(core) \cup ToSet(discovery) : r.id = m.id
    BY <1>5 DEF Pooled, Of
  <1>9. all["core"] = core /\ all["discovery"] = discovery
    BY DEF Pools
  <1>10. \A pool \in Pools : \A r \in ToSet(all[pool]) : r.pool = pool /\ r \in Results
    <2>1. /\ \A r \in ToSet(core) : r \in Results
          /\ \A r \in ToSet(discovery) : r \in Results
      BY <1>8 DEF Merged
    <2>2. QED
      BY <1>8, <1>9, <2>1 DEF Pools
  <1> HIDE DEF all
  <1>11. LanesRanked'
    <2> SUFFICES ASSUME NEW pool \in Pools, NEW cat \in Categories
                 PROVE  LET ranked == lanes[pool][cat]
                        IN  /\ ranked \in Seq(ToSet(ranked))
                            /\ \A r \in ToSet(ranked) : r.pool = pool /\ r.category = cat /\ r.id \in Nat
                            /\ pool = "discovery" =>
                                 \A i, j \in DOMAIN ranked : i < j /\ Strong(ranked[j]) => Strong(ranked[i])
      BY DEF LanesRanked, lanes
    <2>1. CASE cat \in asked
      <3> DEFINE t == lanes[pool][cat]
      <3>1. LaneOf(t, all[pool], pool, cat)
        BY <1>5, <2>1
      <3> HIDE DEF t
      <3>2. \A r \in ToSet(t) : r.pool = pool /\ r.category = cat /\ r.id \in Nat
        BY <1>10, <3>1 DEF LaneOf, Results
      <3>3. QED
        BY <3>1, <3>2 DEF LaneOf, IsList, t
    <2>2. CASE cat \notin asked
      <3>1. lanes[pool][cat] = <<>>
        BY <1>5, <2>2
      <3>2. DOMAIN lanes[pool][cat] = {} /\ <<>> \in Seq({})
        BY <3>1
      <3>3. QED
        BY <3>1, <3>2, EmptyList
    <2>3. QED
      BY <2>1, <2>2
  <1>12. LaneInv'
    BY <1>2, <1>5, <1>11 DEF LaneInv, lanes, Early
  <1>13. ASSUME NEW r
         PROVE  r \in Left' <=> r \in ToSet(core) \cup ToSet(discovery) /\ r.category \in asked
    <2> DEFINE Sets == {ToSet(lanes[pool][cat]) : pool \in Pools, cat \in asked}
    <2>1. Left' = UNION Sets
      BY <1>2 DEF Left, asked, lanes
    <2>2. \A pool \in Pools, cat \in asked :
            ToSet(lanes[pool][cat]) = {q \in ToSet(all[pool]) : q.category = cat}
      BY <1>5 DEF LaneOf
    <2>3. r \in UNION Sets <=> \E pool \in Pools, cat \in asked : r \in ToSet(all[pool]) /\ r.category = cat
      BY <2>2
    <2> HIDE DEF Sets
    <2>4. QED
      BY <1>9, <2>1, <2>3 DEF Pools
  <1>14. \A r \in ToSet(core) \cup ToSet(discovery) : Whole(r)' /\ Merged(r, Of(r.id)) /\ Of(r.id) # {}
    <2> SUFFICES ASSUME NEW r \in ToSet(core) \cup ToSet(discovery)
                 PROVE  Whole(r)' /\ Merged(r, Of(r.id)) /\ Of(r.id) # {}
      OBVIOUS
    <2>1. Merged(r, Of(r.id)) /\ Of(r.id) # {}
      BY <1>8
    <2>2. r.pool = "core" <=> \E m \in Of(r.id) : m.pool = "core"
      BY <1>8
    <2>3. Copies(r.id)' = Of(r.id)
      BY <1>7
    <2>4. QED
      BY <2>1, <2>2, <2>3 DEF Whole
  <1>15. Wanted' = {r.id : r \in Left'}
    <2>1. Wanted' = {m.id : m \in {n \in A \cup B : n.category \in asked}}
      BY <1>2, <1>6 DEF Wanted, asked
    <2>2. ASSUME NEW m \in A \cup B, m.category \in asked
          PROVE  \E r \in Left' : r.id = m.id
      <3>1. PICK r \in ToSet(core) \cup ToSet(discovery) : r.id = m.id
        BY <1>8
      <3>2. m \in Of(r.id)
        BY <3>1 DEF Of
      <3>3. m.category = r.category
        BY <1>14, <3>2 DEF Merged
      <3>4. QED
        BY <1>13, <2>2, <3>1, <3>3
    <2>3. ASSUME NEW r \in Left'
          PROVE  \E m \in {n \in A \cup B : n.category \in asked} : m.id = r.id
      <3>1. r \in ToSet(core) \cup ToSet(discovery) /\ r.category \in asked
        BY <1>13
      <3>2. PICK m \in Of(r.id) : TRUE
        BY <1>14, <3>1
      <3>3. m.id = r.id /\ m.category = r.category
        BY <1>14, <3>1, <3>2 DEF Merged
      <3>4. QED
        BY <3>1, <3>2, <3>3 DEF Of
    <2>4. QED
      BY <2>1, <2>2, <2>3
  <1>16. EachOnce'
    <2>1. ToSet(scheduled') = {} /\ ToSet(out') = {} /\ ToSet(remaining') = {}
      BY <1>3, EmptyList
    <2>2. Distinct(<<>>)
      BY DEF Distinct
    <2>3. \A pool \in Pools, cat \in asked : Distinct(lanes[pool][cat])
      BY <1>5 DEF LaneOf
    <2>4. \A r \in Left' : Whole(r)'
      BY <1>13, <1>14
    <2>5. (\A pool \in Pools, cat \in ToSet(cats) : Distinct(lane[pool][cat]))'
      BY <1>2, <2>3 DEF asked, lanes
    <2>6. (\A r \in ToSet(scheduled) \cup Left : Whole(r))'
      BY <2>1, <2>4
    <2>7. (Wanted = {r.id : r \in ToSet(scheduled) \cup Left})'
      BY <1>15, <2>1
    <2>8. (Distinct(scheduled) /\ Distinct(out) /\ Distinct(remaining))'
      BY <1>3, <2>2
    <2>9. QED
      BY <1>2, <2>1, <2>5, <2>6, <2>7, <2>8 DEF EachOnce
  <1>17. QED
    BY <1>1, <1>12, <1>16 DEF CompleteInv

-----------------------------------------------------------------------------
(* The schedule and the diversity pass, result by result                   *)

\* The places of a tail.
LEMMA TailPlaces ==
  ASSUME NEW s, IsList(s), s # <<>>
  PROVE  LET t == Tail(s)
         IN  /\ IsList(t) /\ DOMAIN t = 1..(Len(s) - 1) /\ DOMAIN s = 1..Len(s) /\ Len(s) \in Nat \ {0}
             /\ \A i \in DOMAIN t : t[i] = s[i + 1]
             /\ s[1] = Head(s)
  <1> DEFINE S == ToSet(s)
             t == Tail(s)
  <1>1. s \in Seq(S) /\ Len(s) \in Nat /\ Len(s) # 0 /\ DOMAIN s = 1..Len(s) /\ Head(s) = s[1]
    BY ListFacts DEF IsList
  <1>2. /\ t \in Seq(S) /\ Len(t) = Len(s) - 1
        /\ \A i \in 1..Len(t) : t[i] = s[i + 1]
    BY <1>1, HeadTailProperties
  <1> HIDE DEF t
  <1>3. DOMAIN t = 1..Len(t) /\ t \in Seq(ToSet(t))
    BY <1>2, SelfList
  <1>4. QED
    BY <1>1, <1>2, <1>3 DEF IsList, t

\* The head of a distinct list is in no other place.
LEMMA TailDistinct ==
  ASSUME NEW s, IsList(s), s # <<>>, Distinct(s)
  PROVE  Distinct(Tail(s)) /\ \A r \in ToSet(Tail(s)) : r.id # Head(s).id
  <1> DEFINE t == Tail(s)
  <1>1. /\ IsList(t) /\ DOMAIN t = 1..(Len(s) - 1) /\ DOMAIN s = 1..Len(s) /\ Len(s) \in Nat \ {0}
        /\ \A i \in DOMAIN t : t[i] = s[i + 1]
        /\ s[1] = Head(s)
    BY TailPlaces
  <1> HIDE DEF t
  <1>2. \A i \in DOMAIN t : i + 1 \in DOMAIN s /\ i + 1 # 1 /\ i \in Int
    BY <1>1
  <1>3. 1 \in DOMAIN s
    BY <1>1
  <1>4. Distinct(t)
    <2> SUFFICES ASSUME NEW i \in DOMAIN t, NEW j \in DOMAIN t, t[i].id = t[j].id
                 PROVE  i = j
      BY DEF Distinct
    <2>1. i + 1 = j + 1
      BY <1>1, <1>2 DEF Distinct
    <2>2. QED
      BY <1>2, <2>1
  <1>5. \A r \in ToSet(t) : r.id # s[1].id
    BY <1>1, <1>2, <1>3 DEF ToSet, Distinct
  <1>6. QED
    BY <1>1, <1>4, <1>5 DEF t

\* Nor is a result that is taken out of one.
LEMMA WithoutDistinct ==
  ASSUME NEW s, IsList(s), NEW i \in 1..Len(s), Distinct(s)
  PROVE  Distinct(Without(s, i)) /\ \A r \in ToSet(Without(s, i)) : r.id # s[i].id
  <1> DEFINE t == Without(s, i)
             n == Len(s)
             From(j) == IF j + 1 = i THEN 1 ELSE j + 1
  <1>1. n \in Nat /\ DOMAIN s = 1..n
    BY ListFacts
  <1>2. DOMAIN t = 1..(n - 1) /\ \A j \in DOMAIN t : t[j] = s[From(j)]
    BY WithoutPlaces
  <1> HIDE DEF t
  <1>3. /\ \A j \in DOMAIN t : From(j) \in 1..n /\ From(j) # i
        /\ \A j, k \in DOMAIN t : From(j) = From(k) => j = k
    BY <1>1, <1>2
  <1> HIDE DEF From
  <1>4. Distinct(t)
    BY <1>1, <1>2, <1>3 DEF Distinct
  <1>5. \A r \in ToSet(t) : r.id # s[i].id
    BY <1>1, <1>2, <1>3 DEF ToSet, Distinct
  <1>6. QED
    BY <1>4, <1>5 DEF t

\* Two whole results of one medium are of one lane.
LEMMA OneLane ==
  ASSUME NEW q, NEW r, Whole(q), Whole(r), q.id = r.id
  PROVE  q.pool = r.pool /\ q.category = r.category
  <1>1. q.pool \in Pools /\ r.pool \in Pools
    BY DEF Whole, Merged, Results
  <1>2. PICK m \in Copies(q.id) : TRUE
    BY DEF Whole
  <1>3. m.category = q.category /\ m.category = r.category
    BY <1>2 DEF Whole, Merged
  <1>4. q.pool = "core" <=> r.pool = "core"
    BY DEF Whole
  <1>5. QED
    BY <1>1, <1>3, <1>4 DEF Pools

\* The loop takes from a lane and leaves it ranked.
LEMMA ScheduleLanes ==
  ASSUME RankInv, QuotaInv, CompleteInv, Schedule
  PROVE  LaneInv'
  <1> DEFINE cat == NextCategory
             pool == IF TakesDiscovery(cat) THEN "discovery" ELSE "core"
             lanes == lane'
  <1>1. LanesRanked /\ pc' = "schedule"
    BY DEF CompleteInv, LaneInv, Schedule
  <1>2. /\ cat \in Categories /\ pool \in Pools /\ lane[pool][cat] # <<>>
        /\ DOMAIN lanes = Pools /\ \A p \in Pools : DOMAIN lanes[p] = Categories
        /\ \A p \in Pools, c \in Categories :
             lanes[p][c] = IF p = pool /\ c = cat THEN Tail(lane[p][c]) ELSE lane[p][c]
    BY <1>1, ScheduleTakes
  <1> HIDE DEF cat, pool, lanes
  <1>3. ASSUME NEW p \in Pools, NEW c \in Categories
        PROVE  LET ranked == lanes[p][c]
               IN  /\ ranked \in Seq(ToSet(ranked))
                   /\ \A r \in ToSet(ranked) : r.pool = p /\ r.category = c /\ r.id \in Nat
                   /\ p = "discovery" =>
                        \A i, j \in DOMAIN ranked : i < j /\ Strong(ranked[j]) => Strong(ranked[i])
    <2> DEFINE l == lane[p][c]
               t == Tail(l)
    <2>1. /\ IsList(l)
          /\ \A r \in ToSet(l) : r.pool = p /\ r.category = c /\ r.id \in Nat
          /\ p = "discovery" => \A i, j \in DOMAIN l : i < j /\ Strong(l[j]) => Strong(l[i])
      BY <1>1 DEF LanesRanked, IsList
    <2>2. CASE ~(p = pool /\ c = cat)
      <3>1. lanes[p][c] = l
        BY <1>2, <2>2
      <3> HIDE DEF l
      <3>2. QED
        BY <2>1, <3>1 DEF IsList
    <2>3. CASE p = pool /\ c = cat
      <3>1. lanes[p][c] = t /\ l # <<>>
        BY <1>2, <2>3
      <3> HIDE DEF l
      <3>2. /\ IsList(t) /\ DOMAIN t = 1..(Len(l) - 1) /\ DOMAIN l = 1..Len(l) /\ Len(l) \in Nat \ {0}
            /\ \A i \in DOMAIN t : t[i] = l[i + 1]
        BY <2>1, <3>1, TailPlaces
      <3> HIDE DEF t
      <3>3. /\ \A i \in DOMAIN t : i + 1 \in DOMAIN l
            /\ \A i, j \in DOMAIN t : i < j => i + 1 < j + 1
        BY <3>2
      <3>4. \A r \in ToSet(t) : r \in ToSet(l)
        BY <3>2, <3>3 DEF ToSet
      <3>5. p = "discovery" => \A i, j \in DOMAIN t : i < j /\ Strong(t[j]) => Strong(t[i])
        BY <2>1, <3>2, <3>3
      <3>6. QED
        BY <2>1, <3>1, <3>2, <3>4, <3>5 DEF IsList
    <2>4. QED
      BY <2>2, <2>3
  <1>4. LanesRanked'
    BY <1>3 DEF LanesRanked, lanes
  <1>5. QED
    BY <1>1, <1>2, <1>4 DEF LaneInv, Early, lanes

\* What the loop takes from a lane is in the schedule, and nowhere else.
LEMMA ScheduleComplete ==
  ASSUME RankInv, QuotaInv, CompleteInv, Schedule
  PROVE  EachOnce'
  <1> DEFINE cat == NextCategory
             pool == IF TakesDiscovery(cat) THEN "discovery" ELSE "core"
             x == Head(lane[pool][cat])
             lanes == lane'
  <1>1. /\ LanesRanked /\ EachOnce /\ pc = "schedule" /\ IsList(scheduled)
        /\ UNCHANGED <<pc, cats, answer, out, remaining>>
    BY DEF CompleteInv, LaneInv, Schedule, Early, RankInv
  <1>2. /\ cat \in ToSet(cats) /\ cat \in Categories /\ pool \in Pools /\ lane[pool][cat] # <<>>
        /\ scheduled' = Append(scheduled, x)
        /\ \A p \in Pools, c \in Categories :
             lanes[p][c] = IF p = pool /\ c = cat THEN Tail(lane[p][c]) ELSE lane[p][c]
    BY <1>1, ScheduleTakes
  <1> HIDE DEF cat, pool
  <1>3. /\ ToSet(cats) \subseteq Categories
        /\ \A p \in Pools, c \in ToSet(cats) :
             /\ ToSet(lane[p][c]) \subseteq Left /\ IsList(lane[p][c]) /\ Distinct(lane[p][c])
             /\ \A r \in ToSet(lane[p][c]) : r.pool = p /\ r.category = c
    <2>1. ToSet(cats) \subseteq Categories
      BY <1>1, LeftFacts
    <2>2. QED
      BY <1>1, <2>1, LeftFacts, LaneFacts DEF EachOnce
  <1>4. /\ ToSet(lane[pool][cat]) = ToSet(Tail(lane[pool][cat])) \cup {x}
        /\ Distinct(Tail(lane[pool][cat]))
        /\ \A r \in ToSet(Tail(lane[pool][cat])) : r.id # x.id
    BY <1>2, <1>3, TailFacts, TailDistinct
  <1> HIDE DEF x
  <1>5. x \in Left
    BY <1>2, <1>3, <1>4
  <1>6. \A p \in Pools, c \in ToSet(cats) :
          /\ Distinct(lanes[p][c]) /\ ToSet(lanes[p][c]) \subseteq ToSet(lane[p][c])
          /\ ToSet(lane[p][c]) \subseteq ToSet(lanes[p][c]) \cup {x}
          /\ \A r \in ToSet(lanes[p][c]) : r.id # x.id
    <2> SUFFICES ASSUME NEW p \in Pools, NEW c \in ToSet(cats)
                 PROVE  /\ Distinct(lanes[p][c]) /\ ToSet(lanes[p][c]) \subseteq ToSet(lane[p][c])
                        /\ ToSet(lane[p][c]) \subseteq ToSet(lanes[p][c]) \cup {x}
                        /\ \A r \in ToSet(lanes[p][c]) : r.id # x.id
      OBVIOUS
    <2>1. CASE p = pool /\ c = cat
      BY <1>2, <1>3, <1>4, <2>1
    <2>2. CASE ~(p = pool /\ c = cat)
      <3>1. lanes[p][c] = lane[p][c]
        BY <1>2, <1>3, <2>2
      <3>2. ASSUME NEW r \in ToSet(lane[p][c]), r.id = x.id PROVE FALSE
        <4>1. r \in Left /\ r.pool = p /\ r.category = c
          BY <1>3
        <4>2. x.pool = pool /\ x.category = cat
          BY <1>2, <1>3, <1>4
        <4>3. Whole(r) /\ Whole(x)
          BY <1>1, <1>5, <4>1 DEF EachOnce
        <4>4. QED
          BY <2>2, <3>2, <4>1, <4>2, <4>3, OneLane
      <3>3. QED
        BY <1>3, <3>1, <3>2
    <2>3. QED
      BY <2>1, <2>2
  <1>7. \A r : r \in Left' <=> \E p \in Pools, c \in ToSet(cats) : r \in ToSet(lanes[p][c])
    <2> DEFINE Sets == {ToSet(lanes[p][c]) : p \in Pools, c \in ToSet(cats)}
    <2>1. Left' = UNION Sets
      BY <1>1 DEF Left
    <2>2. \A r : r \in UNION Sets <=> \E p \in Pools, c \in ToSet(cats) : r \in ToSet(lanes[p][c])
      OBVIOUS
    <2> HIDE DEF Sets
    <2>3. QED
      BY <2>1, <2>2
  <1>8. \A r : r \in Left <=> \E p \in Pools, c \in ToSet(cats) : r \in ToSet(lane[p][c])
    <2> DEFINE Sets == {ToSet(lane[p][c]) : p \in Pools, c \in ToSet(cats)}
    <2>1. Left = UNION Sets
      BY DEF Left
    <2>2. \A r : r \in UNION Sets <=> \E p \in Pools, c \in ToSet(cats) : r \in ToSet(lane[p][c])
      OBVIOUS
    <2> HIDE DEF Sets
    <2>3. QED
      BY <2>1, <2>2
  <1> HIDE DEF lanes
  <1>9. Left' \cup {x} = Left /\ \A r \in Left' : r.id # x.id
    <2>1. \A r \in Left' : r \in Left /\ r.id # x.id
      BY <1>6, <1>7, <1>8
    <2>2. \A r \in Left : r \in Left' \cup {x}
      BY <1>6, <1>7, <1>8
    <2>3. QED
      BY <1>5, <2>1, <2>2
  <1>10. \A r \in ToSet(scheduled) : r.id # x.id
    BY <1>1, <1>5 DEF EachOnce
  <1>11. /\ ToSet(scheduled') = ToSet(scheduled) \cup {x} /\ Distinct(scheduled')
    BY <1>1, <1>2, <1>10, AppendFacts, AppendDistinct DEF EachOnce
  <1>12. \A r \in ToSet(scheduled'), q \in Left' : r.id # q.id
    <2>1. \A r \in ToSet(scheduled), q \in Left : r.id # q.id
      BY <1>1 DEF EachOnce
    <2>2. QED
      BY <1>9, <1>11, <2>1
  <1>13. ToSet(scheduled') \cup Left' = ToSet(scheduled) \cup Left
    BY <1>9, <1>11
  <1>14. Media' = Media
    BY <1>1 DEF Media
  <1>15. (\A r \in ToSet(scheduled) \cup Left : Whole(r))'
    <2>1. \A r : Whole(r)' <=> Whole(r)
      BY <1>14 DEF Whole, Copies
    <2>2. \A r \in ToSet(scheduled) \cup Left : Whole(r)
      BY <1>1 DEF EachOnce
    <2>3. QED
      BY <1>13, <2>1, <2>2
  <1>16. (Wanted = {r.id : r \in ToSet(scheduled) \cup Left})'
    <2>1. Wanted' = Wanted
      BY <1>1, <1>14 DEF Wanted
    <2>2. Wanted = {r.id : r \in ToSet(scheduled) \cup Left}
      BY <1>1 DEF EachOnce
    <2>3. QED
      BY <1>13, <2>1, <2>2
  <1>17. (\A p \in Pools, c \in ToSet(cats) : Distinct(lane[p][c]))'
    BY <1>1, <1>6 DEF lanes
  <1>18. (Distinct(out) /\ Distinct(remaining) /\ \A r \in ToSet(out), q \in ToSet(remaining) : r.id # q.id)'
    <2>1. Distinct(out) /\ Distinct(remaining) /\ \A r \in ToSet(out), q \in ToSet(remaining) : r.id # q.id
      BY <1>1 DEF EachOnce
    <2>2. QED
      BY <1>1, <2>1
  <1>19. QED
    BY <1>1, <1>11, <1>12, <1>15, <1>16, <1>17, <1>18 DEF EachOnce

\* Nothing is left when no category is available.
LEMMA ScheduledComplete ==
  ASSUME RankInv, QuotaInv, CompleteInv, Scheduled
  PROVE  EachOnce'
  <1>1. /\ LanesRanked /\ EachOnce /\ pc = "schedule" /\ out = <<>>
        /\ UNCHANGED <<cats, answer, out, scheduled, lane>> /\ remaining' = scheduled
        /\ ~\E cat \in ToSet(cats) : Available(cat)
    BY DEF CompleteInv, LaneInv, Scheduled, Early, RankInv, PassOK
  <1>2. Left = {}
    BY <1>1, LeftFacts
  <1>3. Left' = {} /\ Media' = Media
    BY <1>1, <1>2 DEF Left, Media
  <1>4. ToSet(out') = {} /\ Distinct(out')
    BY <1>1, EmptyList DEF Distinct
  <1>5. Distinct(remaining)'
    BY <1>1 DEF EachOnce
  <1>6. (\A r \in ToSet(scheduled) \cup Left : Whole(r))'
    BY <1>1, <1>2, <1>3 DEF EachOnce, Whole, Copies
  <1>7. Wanted' = Wanted
    BY <1>1, <1>3 DEF Wanted
  <1>8. (Wanted = {r.id : r \in ToSet(scheduled) \cup Left})'
    BY <1>1, <1>2, <1>3, <1>7 DEF EachOnce
  <1>9. (\A p \in Pools, c \in ToSet(cats) : Distinct(lane[p][c]))'
    BY <1>1 DEF EachOnce
  <1>10. Distinct(scheduled)'
    BY <1>1 DEF EachOnce
  <1>11. QED
    BY <1>3, <1>4, <1>5, <1>6, <1>8, <1>9, <1>10 DEF EachOnce

\* The diversity pass takes one at a time.
LEMMA DiversifyComplete ==
  ASSUME RankInv, CompleteInv, Diversify
  PROVE  EachOnce'
  <1>1. /\ EachOnce /\ pc = "diversify" /\ remaining # <<>>
        /\ UNCHANGED <<pc, cats, answer, scheduled, lane>>
        /\ IsList(remaining) /\ IsList(out)
        /\ out' = Append(out, remaining[Pick]) /\ remaining' = Without(remaining, Pick)
    BY DEF CompleteInv, Diversify, Early, RankInv
  <1>2. Pick \in 1..Len(remaining)
    BY <1>1, PickFacts
  <1> DEFINE x == remaining[Pick]
  <1>3. /\ Distinct(out) /\ Distinct(remaining)
        /\ \A r \in ToSet(out), q \in ToSet(remaining) : r.id # q.id
    BY <1>1 DEF EachOnce
  <1>4. x \in ToSet(remaining)
    BY <1>1, <1>2, ListFacts
  <1>5. Distinct(remaining') /\ \A r \in ToSet(remaining') : r.id # x.id
    BY <1>1, <1>2, <1>3, WithoutDistinct
  <1>6. ToSet(remaining') \cup {x} = ToSet(remaining)
    BY <1>1, <1>2, WithoutFacts
  <1> HIDE DEF x
  <1>7. \A r \in ToSet(out) : r.id # x.id
    BY <1>3, <1>4
  <1>8. ToSet(out') = ToSet(out) \cup {x} /\ Distinct(out')
    BY <1>1, <1>3, <1>7, AppendFacts, AppendDistinct DEF x
  <1>9. \A r \in ToSet(out'), q \in ToSet(remaining') : r.id # q.id
    BY <1>3, <1>5, <1>6, <1>8
  <1>10. Left' = Left /\ Media' = Media /\ Wanted' = Wanted
    BY <1>1 DEF Left, Media, Wanted
  <1>11. \A r : Whole(r)' <=> Whole(r)
    BY <1>10 DEF Whole, Copies
  <1>12. (\A r \in ToSet(scheduled) \cup Left : Whole(r))'
    BY <1>1, <1>10, <1>11 DEF EachOnce
  <1>13. (Wanted = {r.id : r \in ToSet(scheduled) \cup Left})'
    BY <1>1, <1>10 DEF EachOnce
  <1>14. QED
    BY <1>1, <1>5, <1>8, <1>9, <1>10, <1>12, <1>13 DEF EachOnce

-----------------------------------------------------------------------------
(* The invariant                                                           *)

\* Of two failed answers there is nothing to show.
LEMMA FailedComplete ==
  ASSUME RankInv, CompleteInv, Weigh, pc' \notin Early
  PROVE  EachOnce'
  <1>1. PICK c \in Replies["core"][cats], d \in Replies["discovery"][cats] :
          /\ answer' = [core |-> Ask("core", cats, c), discovery |-> Ask("discovery", cats, d)]
          /\ ~Ask("core", cats, c).ok /\ ~Ask("discovery", cats, d).ok
    BY DEF Weigh, Early
  <1> DEFINE a == Ask("core", cats, c)
             b == Ask("discovery", cats, d)
  <1>2. c \in AllReplies /\ d \in AllReplies /\ "core" \in Pools /\ "discovery" \in Pools
    BY RepliesAre DEF Pools, CompleteInv, AnswerInv
  <1>3. a.results = <<>> /\ b.results = <<>>
    BY <1>1, <1>2, SearchPoolFacts DEF Ask
  <1>4. answer' = [core |-> a, discovery |-> b]
    BY <1>1
  <1> HIDE DEF a, b
  <1>5. answer'["core"].results = <<>> /\ answer'["discovery"].results = <<>>
    BY <1>3, <1>4
  <1>6. Media' = {}
    BY <1>5, EmptyList DEF Media, Pools
  <1>7. /\ pc = "ask" /\ pc \in Early /\ UNCHANGED <<cats, lane, scheduled, remaining, out>>
        /\ scheduled = <<>> /\ remaining = <<>> /\ out = <<>>
    BY DEF Weigh, Early, RankInv, PassOK
  <1>8. \A pool \in Pools, cat \in ToSet(cats) : lane'[pool][cat] = <<>>
    BY <1>7, ListCases DEF CompleteInv, AnswerInv, LaneInv
  <1>9. Left' = {}
    BY <1>7, <1>8, EmptyList DEF Left
  <1>10. /\ ToSet(scheduled') = {} /\ ToSet(out') = {} /\ ToSet(remaining') = {}
         /\ Distinct(scheduled') /\ Distinct(out') /\ Distinct(remaining')
    BY <1>7, EmptyList DEF Distinct
  <1>11. (\A pool \in Pools, cat \in ToSet(cats) : Distinct(lane[pool][cat]))'
    BY <1>7, <1>8 DEF Distinct
  <1>12. Wanted' = {}
    BY <1>6 DEF Wanted
  <1>13. QED
    BY <1>9, <1>10, <1>11, <1>12 DEF EachOnce

\* The inductive invariant of the whole search.
SearchInv == RankInv /\ QuotaInv /\ CompleteInv

\* Every step keeps each medium once.
LEMMA CompleteInvStep ==
  ASSUME SearchInv, [Next]_vars
  PROVE  CompleteInv'
  <1> USE DEF SearchInv
  <1>1. AnswerInv'
    BY AnswerStep DEF CompleteInv
  <1>2. CASE Postprocess
    BY <1>2, PostprocessStep
  <1>3. CASE Schedule
    BY <1>1, <1>3, ScheduleLanes, ScheduleComplete DEF CompleteInv
  <1>4. CASE Weigh \/ Fallback
    <2>1. pc \in Early /\ lane' = lane
      BY <1>4 DEF Weigh, Fallback, Early
    <2>2. LaneInv'
      <3>1. LanesRanked'
        BY <2>1 DEF CompleteInv, LaneInv, LanesRanked
      <3>2. QED
        BY <2>1, <3>1 DEF CompleteInv, LaneInv
    <2>3. Fallback => pc' \in Early
      BY DEF Fallback, Early
    <2>4. QED
      BY <1>1, <1>4, <2>2, <2>3, FailedComplete DEF CompleteInv
  <1>5. CASE Scheduled \/ Diversify \/ Return \/ UNCHANGED vars
    <2>1. /\ lane' = lane /\ (pc' \in Early <=> pc \in Early) /\ (pc' \in Early => pc' = pc)
      BY <1>5 DEF Scheduled, Diversify, Return, vars, Early
    <2>2. LaneInv'
      <3>1. LanesRanked'
        BY <2>1 DEF CompleteInv, LaneInv, LanesRanked
      <3>2. QED
        BY <2>1, <3>1 DEF CompleteInv, LaneInv
    <2>3. CASE Scheduled \/ Diversify
      BY <1>1, <2>2, <2>3, ScheduledComplete, DiversifyComplete DEF CompleteInv
    <2>4. CASE Return \/ UNCHANGED vars
      <3>1. /\ UNCHANGED <<cats, answer, scheduled, remaining, out, lane>>
            /\ pc' = pc \/ (pc = "diversify" /\ pc' = "done")
        BY <2>4 DEF Return, vars
      <3>2. Left' = Left /\ Media' = Media /\ Wanted' = Wanted
        BY <3>1 DEF Left, Media, Wanted
      <3>3. \A r : Whole(r)' <=> Whole(r)
        BY <3>2 DEF Whole, Copies
      <3>4. EachOnce => EachOnce'
        <4> SUFFICES ASSUME EachOnce PROVE EachOnce'
          OBVIOUS
        <4>1. (\A r \in ToSet(scheduled) \cup Left : Whole(r))'
          BY <3>1, <3>2, <3>3 DEF EachOnce
        <4>2. (Wanted = {r.id : r \in ToSet(scheduled) \cup Left})'
          BY <3>1, <3>2 DEF EachOnce
        <4>3. QED
          BY <3>1, <3>2, <4>1, <4>2 DEF EachOnce
      <3>5. QED
        BY <1>1, <2>1, <2>2, <3>4 DEF CompleteInv
    <2>5. QED
      BY <1>5, <2>3, <2>4
  <1>6. QED
    BY <1>2, <1>3, <1>4, <1>5 DEF Next

\* The invariant holds at the start.
LEMMA InitSearch == Init => SearchInv
  <1> SUFFICES ASSUME Init PROVE SearchInv
    OBVIOUS
  <1>1. AnswerInv
    BY InitAnswer
  <1>2. pc = "ask" /\ lane = [pool \in Pools |-> [cat \in Categories |-> <<>>]]
    BY DEF Init
  <1>3. \A pool \in Pools, cat \in Categories : lane[pool][cat] = <<>>
    BY <1>2
  <1>4. DOMAIN lane = Pools /\ \A pool \in Pools : DOMAIN lane[pool] = Categories
    BY <1>2
  <1>5. <<>> \in Seq(ToSet(<<>>)) /\ ToSet(<<>>) = {} /\ DOMAIN <<>> = {}
    BY EmptyList DEF IsList
  <1>6. LanesRanked
    BY <1>3, <1>5 DEF LanesRanked
  <1>7. CompleteInv
    BY <1>1, <1>2, <1>3, <1>4, <1>6 DEF CompleteInv, LaneInv, Early
  <1>8. QED
    BY <1>7, InitRank, InitQuota DEF SearchInv

\* In every state of a search: the passes' bookkeeping, the quotas, and that each
\* wanted medium is in the schedule or in a lane once, with all its copies say.
THEOREM SearchInvariant == Spec => []SearchInv
  <1>1. SearchInv /\ [Next]_vars => SearchInv'
    <2> SUFFICES ASSUME SearchInv, [Next]_vars PROVE SearchInv'
      OBVIOUS
    <2>1. RankInv'
      <3>1. CASE UNCHANGED vars
        BY <3>1 DEF vars, SearchInv, RankInv, SettingsOK, PassOK, IsList, SlotsOK, LanesMoveForVideos, KeepsLane
      <3>2. QED
        BY <3>1, DiversifyStep, OtherSteps DEF Next, SearchInv
    <2>2. LanesRanked
      BY DEF SearchInv, CompleteInv, LaneInv
    <2>3. QuotaInv'
      BY <2>2, QuotaInvStep DEF SearchInv
    <2>4. QED
      BY <2>1, <2>3, CompleteInvStep DEF SearchInv
  <1>2. QED
    BY <1>1, InitSearch, PTL DEF Spec

-----------------------------------------------------------------------------
(* The answer                                                              *)

\* A schedule has as many media as places.
LEMMA CountDistinct ==
  ASSUME NEW s, IsList(s), Distinct(s)
  PROVE  Cardinality({r.id : r \in ToSet(s)}) = Len(s)
  <1> DEFINE n == Len(s)
             ids == {r.id : r \in ToSet(s)}
             f == [i \in 1..n |-> s[i].id]
  <1>1. n \in Nat /\ DOMAIN s = 1..n
    BY ListFacts
  <1>2. f \in [1..n -> ids]
    BY ListFacts
  <1>3. \A i, j \in 1..n : f[i] = f[j] => i = j
    BY <1>1 DEF Distinct
  <1>4. \A id \in ids : \E i \in 1..n : f[i] = id
    <2> SUFFICES ASSUME NEW r \in ToSet(s) PROVE \E i \in 1..n : f[i] = r.id
      OBVIOUS
    <2>1. PICK i \in 1..n : r = s[i]
      BY ListFacts
    <2>2. QED
      BY <2>1
  <1> HIDE DEF f, n, ids
  <1>5. f \in Bijection(1..n, ids)
    <2>1. DOMAIN f = 1..n
      BY <1>2
    <2>2. IsInjective(f)
      BY <1>3, <2>1 DEF IsInjective
    <2>3. QED
      BY <1>2, <1>4, <2>2 DEF Bijection, Injection, Surjection
  <1>6. ExistsBijection(1..n, ids)
    BY <1>5 DEF ExistsBijection
  <1>7. QED
    BY <1>1, <1>6, FS_CountingElements DEF n, ids

\* It has the type invariant in it.
LEMMA TypesFollow == SearchInv => TypeOK
  <1> SUFFICES ASSUME SearchInv PROVE TypeOK
    OBVIOUS
  <1>1. /\ pc \in Early \cup {"schedule", "diversify", "done"}
        /\ weak \subseteq ToSet(cats) /\ LanesRanked
    BY DEF SearchInv, CompleteInv, AnswerInv, LaneInv
  <1>2. /\ settings.maxResults \in 1..50 /\ Len(out) <= settings.maxResults
        /\ settings.percent \in 0..100 /\ settings.weakPercent \in 0..100
        /\ settings.percent <= settings.weakPercent
    BY DEF SearchInv, RankInv, SettingsOK
  <1>3. \A n \in 0..100 : 0 <= n /\ n <= 100
    OBVIOUS
  <1>4. 0 <= settings.percent /\ settings.weakPercent <= 100
    BY <1>2, <1>3, Zenon
  <1>5. QED
    BY <1>1, <1>2, <1>4 DEF TypeOK, Early

\* Of a finished search it says that the answer is complete.
LEMMA CompleteFollows == SearchInv => AnswerIsComplete
  <1> SUFFICES ASSUME SearchInv, pc = "done" PROVE NothingLost /\ ConsensusKept
    BY DEF AnswerIsComplete
  <1>1. /\ EachOnce /\ IsList(scheduled) /\ IsList(out) /\ IsList(remaining)
        /\ Len(out) <= settings.maxResults /\ settings.maxResults \in 1..50
        /\ ToSet(out) \cup ToSet(remaining) = ToSet(scheduled)
        /\ Len(out) + Len(remaining) = Len(scheduled)
        /\ remaining = <<>> \/ Len(out) = settings.maxResults
    BY DEF SearchInv, CompleteInv, RankInv, PassOK, SettingsOK, Early
  <1>2. /\ Left = {} /\ Distinct(scheduled) /\ Distinct(out)
        /\ Wanted = {r.id : r \in ToSet(scheduled)}
        /\ \A r \in ToSet(scheduled) : Whole(r)
    BY <1>1 DEF EachOnce
  <1>3. Len(out) = Min({settings.maxResults, Cardinality(Wanted)})
    <2>1. Cardinality(Wanted) = Len(scheduled)
      BY <1>1, <1>2, CountDistinct
    <2>2. Len(out) \in Nat /\ Len(remaining) \in Nat /\ Len(scheduled) \in Nat
      BY <1>1, ListFacts
    <2>3. remaining = <<>> => Len(remaining) = 0
      BY <1>1, ListFacts
    <2>4. \A m \in 1..50 : m \in Int
      OBVIOUS
    <2>5. settings.maxResults \in Int
      BY <1>1, <2>4, Zenon
    <2>6. Min({settings.maxResults, Len(scheduled)})
            = IF settings.maxResults <= Len(scheduled) THEN settings.maxResults ELSE Len(scheduled)
      BY <2>2, <2>5, MinPair
    <2>7. QED
      BY <1>1, <2>1, <2>2, <2>3, <2>5, <2>6
  <1>4. \A r \in ToSet(out) : /\ r.id \in Wanted /\ r.thumb.form = "https"
                              /\ (IF r.category = "video" THEN r.page ELSE r.media).form = "https"
    <2> SUFFICES ASSUME NEW r \in ToSet(out)
                 PROVE  r.id \in Wanted /\ Usable(r)
      BY DEF Usable
    <2>1. r \in ToSet(scheduled)
      BY <1>1
    <2>2. QED
      BY <1>2, <2>1 DEF Whole, Merged
  <1>5. NothingLost
    BY <1>2, <1>3, <1>4 DEF NothingLost, Wanted, Distinct
  <1>6. ConsensusKept
    <2> SUFFICES ASSUME NEW r \in ToSet(scheduled)
                 PROVE  /\ r.engines = UNION {m.engines : m \in Copies(r.id)}
                        /\ r.positions = UNION {m.positions : m \in Copies(r.id)}
                        /\ \A m \in Copies(r.id) : r.score >= m.score /\ r.order <= m.order
                        /\ r.pool = "core" <=> \E m \in Copies(r.id) : m.pool = "core"
      BY DEF ConsensusKept
    <2>1. QED
      BY <1>2 DEF Whole, Merged
  <1>7. QED
    BY <1>5, <1>6

\* Every variable of a search stays in its type: its settings within the limits
\* of Load, its lanes ranked and of one pool and category each, its answer within
\* its limit.
THEOREM TypesKept == Spec => []TypeOK
  BY SearchInvariant, TypesFollow, PTL

\* Whatever the backend returns, the answer has every usable medium of the wanted
\* categories or is full, each once, and each with what all its copies say
\* (search, mergeDuplicates, mergeMedia, postprocess, applyDomainDiversity).
THEOREM AnswerComplete == Spec => []AnswerIsComplete
  BY SearchInvariant, CompleteFollows, PTL

\* The schedule keeps its quotas in every prefix (scheduleResults).
THEOREM QuotasAreMet == Spec => []QuotasMet
  <1>1. SearchInv => QuotasMet
    BY QuotasFollow DEF SearchInv
  <1>2. QED
    BY <1>1, SearchInvariant, PTL
=============================================================================
