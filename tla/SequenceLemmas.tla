----------------------------- MODULE SequenceLemmas -----------------------------
(***************************************************************************)
(* What the queues and stores of the modules do to a sequence that holds   *)
(* every element at most once, and what a loop over a sequence computes.   *)
(***************************************************************************)
EXTENDS Naturals, Sequences, SequencesExt, SequenceTheorems, WellFoundedInduction, TLAPS

\* Removing an element of a sequence that holds everything at most once.
LEMMA RemoveFirstFacts ==
    ASSUME NEW S, NEW s \in Seq(S), IsInjective(s), NEW e
    PROVE  /\ RemoveFirst(s, e) \in Seq(S)
           /\ IsInjective(RemoveFirst(s, e))
           /\ Range(RemoveFirst(s, e)) = Range(s) \ {e}
           /\ Len(RemoveFirst(s, e)) = IF e \in Range(s) THEN Len(s) - 1 ELSE Len(s)
<1> DEFINE n == Len(s)
<1>1. n \in Nat /\ DOMAIN s = 1..n /\ s \in [1..n -> S]
    BY LenProperties
<1>2. CASE e \notin Range(s)
    <2>1. RemoveFirst(s, e) = s
        BY <1>1, <1>2 DEF RemoveFirst, Range
    <2> QED
        BY <1>2, <2>1
<1>3. CASE e \in Range(s)
    <2>1. PICK i \in 1..n : s[i] = e
        BY <1>1, <1>3 DEF Range
    <2>2. SelectInSeq(s, LAMBDA v : v = e) = i
        <3> DEFINE I == {j \in 1..n : s[j] = e}
        <3>1. I = {i}
            BY <1>1, <2>1 DEF IsInjective
        <3>2. Min({i}) = i
            BY <1>1, <2>1 DEF Min
        <3> QED
            BY <3>1, <3>2 DEF SelectInSeq
    <2> DEFINE r == RemoveAt(s, i)
    <2>3. RemoveFirst(s, e) = r
        BY <1>1, <2>1, <2>2 DEF RemoveFirst
    <2> DEFINE a == SubSeq(s, 1, i - 1)
               b == SubSeq(s, i + 1, n)
    <2>4. /\ a \in Seq(S) /\ Len(a) = i - 1 /\ \A j \in 1..(i - 1) : a[j] = s[j]
          /\ b \in Seq(S) /\ Len(b) = n - i /\ \A j \in 1..(n - i) : b[j] = s[i + j]
        <3>1. /\ a \in Seq(S) /\ Len(a) = i - 1 /\ \A j \in 1..(i - 1) : a[j] = s[j]
            BY <1>1, <2>1, SubSeqProperties
        <3>2. /\ b \in Seq(S) /\ Len(b) = n - i /\ \A j \in 1..(n - i) : b[j] = s[i + j]
            <4> DEFINE m == i + 1
            <4>1. m \in Int /\ n \in Int /\ \A k \in m..n : s[k] \in S
                BY <1>1, <2>1
            <4> HIDE DEF m
            <4>2. /\ SubSeq(s, m, n) \in Seq(S)
                  /\ Len(SubSeq(s, m, n)) = IF m <= n THEN n - m + 1 ELSE 0
                  /\ \A j \in 1..(n - m + 1) : SubSeq(s, m, n)[j] = s[m + j - 1]
                BY <4>1, SubSeqProperties
            <4>3. m = i + 1 /\ m - 1 = i /\ n - m + 1 = n - i
                BY <1>1, <2>1 DEF m
            <4>4. \A j \in 1..(n - i) : m + j - 1 = i + j
                BY <1>1, <2>1, <4>3
            <4>5. b = SubSeq(s, m, n)
                BY <4>3
            <4>6. (IF m <= n THEN n - m + 1 ELSE 0) = n - i
                <5>1. n \in Nat /\ i \in 1..n
                    BY <1>1, <2>1
                <5> HIDE DEF n
                <5>2. CASE i = n
                    BY <5>1, <5>2, <4>3
                <5>3. CASE i # n
                    BY <5>1, <5>3, <4>3
                <5> QED
                    BY <5>2, <5>3
            <4>7. Len(b) = n - i
                BY <4>2, <4>5, <4>6
            <4>8. \A j \in 1..(n - i) : b[j] = s[i + j]
                BY <4>2, <4>3, <4>4, <4>5
            <4> HIDE DEF b
            <4> QED
                BY <4>2, <4>5, <4>7, <4>8
        <3> QED BY <3>1, <3>2
    <2>5. r = a \o b
        BY DEF RemoveAt
    <2> HIDE DEF a, b, r
    <2>6. /\ r \in Seq(S) /\ Len(r) = n - 1
          /\ \A j \in 1..(n - 1) : r[j] = IF j < i THEN s[j] ELSE s[j + 1]
        <3>1. /\ r \in Seq(S) /\ Len(r) = Len(a) + Len(b)
              /\ \A j \in 1..(Len(a) + Len(b)) : r[j] = IF j <= Len(a) THEN a[j] ELSE b[j - Len(a)]
            BY <2>4, <2>5, ConcatProperties
        <3>2. /\ Len(a) = i - 1 /\ Len(b) = n - i /\ i \in 1..n /\ n \in Nat
            BY <1>1, <2>1, <2>4
        <3>3. Len(r) = n - 1
            BY <3>1, <3>2
        <3>4. ASSUME NEW j \in 1..(n - 1) PROVE r[j] = IF j < i THEN s[j] ELSE s[j + 1]
            <4>1. r[j] = IF j <= i - 1 THEN a[j] ELSE b[j - (i - 1)]
                BY <3>1, <3>2
            <4>2. CASE j < i
                BY <4>1, <4>2, <3>2, <2>4
            <4>3. CASE ~(j < i)
                <5>1. j - (i - 1) \in 1..(n - i) /\ i + (j - (i - 1)) = j + 1
                    BY <4>3, <3>2
                <5>2. r[j] = b[j - (i - 1)]
                    BY <4>1, <4>3, <3>2
                <5>3. b[j - (i - 1)] = s[i + (j - (i - 1))]
                    BY <5>1, <2>4
                <5> QED BY <4>3, <5>1, <5>2, <5>3
            <4> QED BY <4>2, <4>3
        <3> QED BY <3>1, <3>3, <3>4
    <2>7. DOMAIN r = 1..(n - 1)
        BY <2>6, <1>1, LenProperties
    <2>8. IsInjective(r)
        <3> DEFINE at(k) == IF k < i THEN k ELSE k + 1
        <3>1. \A k \in 1..(n - 1) : at(k) \in DOMAIN s /\ r[k] = s[at(k)]
            BY <1>1, <2>1, <2>6
        <3>2. \A k, m \in 1..(n - 1) : at(k) = at(m) => k = m
            BY <2>1, <1>1
        <3>3. \A k, m \in DOMAIN s : s[k] = s[m] => k = m
            BY DEF IsInjective
        <3> HIDE DEF at
        <3> QED
            BY <2>7, <3>1, <3>2, <3>3 DEF IsInjective
    <2>9. Range(r) = Range(s) \ {e}
        <3>1. \A x \in Range(r) : x \in Range(s) \ {e}
            BY <1>1, <2>1, <2>6, <2>7 DEF Range, IsInjective
        <3>2. ASSUME NEW x \in Range(s) \ {e} PROVE x \in Range(r)
            <4>1. PICK j \in 1..n : s[j] = x
                BY <1>1 DEF Range
            <4>2. j # i
                BY <4>1, <2>1
            <4>3. CASE j < i
                <5>1. j \in 1..(n - 1) /\ r[j] = x
                    BY <4>1, <4>3, <2>1, <2>6, <1>1
                <5> QED BY <5>1, <2>7 DEF Range
            <4>4. CASE j > i
                <5>1. j - 1 \in 1..(n - 1) /\ r[j - 1] = x
                    BY <4>1, <4>4, <2>1, <2>6, <1>1
                <5> QED BY <5>1, <2>7 DEF Range
            <4> QED BY <4>2, <4>3, <4>4
        <3> QED BY <3>1, <3>2
    <2> QED
        BY <1>3, <2>3, <2>6, <2>8, <2>9
<1> QED
    BY <1>2, <1>3

\* A new element at the end of a sequence that holds everything at most once.
LEMMA AppendRange ==
    ASSUME NEW S, NEW s \in Seq(S), IsInjective(s), NEW e \in S, e \notin Range(s)
    PROVE  Range(Append(s, e)) = Range(s) \cup {e} /\ IsInjective(Append(s, e))
<1> DEFINE r == Append(s, e)
<1>1. /\ r \in Seq(S) /\ Len(r) = Len(s) + 1 /\ \A i \in 1..Len(s) : r[i] = s[i]
      /\ r[Len(s) + 1] = e
    BY AppendProperties
<1>2. Len(s) \in Nat /\ DOMAIN s = 1..Len(s)
    BY LenProperties
<1>3. DOMAIN r = 1..(Len(s) + 1)
    BY <1>1, LenProperties
<1> HIDE DEF r
<1>4. \A i \in 1..(Len(s) + 1) : i = Len(s) + 1 \/ i \in 1..Len(s)
    BY <1>2
<1>5. Len(s) + 1 \in 1..(Len(s) + 1) /\ 1..Len(s) \subseteq 1..(Len(s) + 1)
    BY <1>2
<1>6. Range(r) = Range(s) \cup {e}
    BY <1>1, <1>2, <1>3, <1>4, <1>5 DEF Range
<1>7. IsInjective(r)
    BY <1>1, <1>2, <1>3, <1>4 DEF IsInjective, Range
<1> QED
    BY <1>6, <1>7 DEF r

\* Taking the first element of such a sequence.
LEMMA TailRange ==
    ASSUME NEW S, NEW s \in Seq(S), IsInjective(s), s # <<>>
    PROVE  /\ Head(s) \in S /\ Head(s) \in Range(s)
           /\ Tail(s) \in Seq(S) /\ IsInjective(Tail(s))
           /\ Range(Tail(s)) = Range(s) \ {Head(s)} /\ Len(Tail(s)) = Len(s) - 1
<1> DEFINE n == Len(s)
           r == Tail(s)
<1>1. n \in Nat /\ DOMAIN s = 1..n
    BY LenProperties
<1>2. n # 0
    BY EmptySeq
<1>3. /\ Head(s) \in S /\ Head(s) = s[1] /\ r \in Seq(S) /\ Len(r) = n - 1
      /\ \A i \in 1..(n - 1) : r[i] = s[i + 1]
    BY HeadTailProperties
<1>4. DOMAIN r = 1..(n - 1)
    BY <1>1, <1>3, LenProperties
<1> HIDE DEF n, r
<1>5. 1 \in 1..n /\ \A i \in 1..(n - 1) : i + 1 \in 1..n /\ i + 1 # 1
    BY <1>1, <1>2
<1>6. \A j \in 1..n : j = 1 \/ (j - 1 \in 1..(n - 1) /\ (j - 1) + 1 = j)
    BY <1>1, <1>2
<1>7. Range(r) = Range(s) \ {s[1]}
    <2>1. ASSUME NEW x \in Range(r) PROVE x \in Range(s) \ {s[1]}
        BY <1>1, <1>3, <1>4, <1>5 DEF Range, IsInjective
    <2>2. ASSUME NEW x \in Range(s) \ {s[1]} PROVE x \in Range(r)
        <3>1. PICK j \in 1..n : s[j] = x
            BY <1>1 DEF Range
        <3>2. j - 1 \in 1..(n - 1) /\ r[j - 1] = x
            BY <1>3, <1>6, <3>1
        <3> QED
            BY <1>4, <3>2 DEF Range
    <2> QED
        BY <2>1, <2>2
<1>8. IsInjective(r)
    <2> SUFFICES ASSUME NEW a \in 1..(n - 1), NEW b \in 1..(n - 1), r[a] = r[b]
                 PROVE  a = b
        BY <1>4 DEF IsInjective
    <2>1. a + 1 \in 1..n /\ b + 1 \in 1..n /\ s[a + 1] = s[b + 1]
        BY <1>3, <1>5
    <2>2. a + 1 = b + 1
        BY <1>1, <2>1 DEF IsInjective
    <2> QED
        BY <1>1, <2>2
<1>9. s[1] \in Range(s)
    BY <1>1, <1>5 DEF Range
<1> QED
    BY <1>3, <1>7, <1>8, <1>9 DEF n, r

-----------------------------------------------------------------------------
(***************************************************************************)
(* Induction, stated about sets of numbers: a fact about all numbers is    *)
(* proved by showing that the set of those it holds for has them all.      *)
(***************************************************************************)

LEMMA LeastElement ==
    ASSUME NEW T \in SUBSET Nat, T # {}
    PROVE  \E x \in T : \A y \in T : x <= y
<1> DEFINE R == {ss \in Nat \X Nat : ss[1] < ss[2]}
<1>1. IsWellFoundedOn(R, Nat)
    BY NatLessThanWellFounded DEF OpToRel
<1>2. \E x \in T : \A y \in T : ~(<<y, x>> \in R)
    <2> HIDE DEF R
    <2> QED
        BY <1>1, WFMin
<1>3. PICK x \in T : \A y \in T : ~(<<y, x>> \in R)
    BY <1>2
<1>4. ASSUME NEW y \in T
      PROVE  x <= y
    <2>1. x \in Nat /\ y \in Nat /\ <<y, x>> \in Nat \X Nat /\ <<y, x>>[1] = y /\ <<y, x>>[2] = x
        OBVIOUS
    <2>2. ~(y < x)
        BY <1>3, <2>1
    <2> QED
        BY <2>1, <2>2
<1> QED
    BY <1>4

LEMMA EveryNumber ==
    ASSUME NEW S, 0 \in S, \A n \in Nat : n \in S => n + 1 \in S
    PROVE  Nat \subseteq S
<1> DEFINE T == {n \in Nat : n \notin S}
<1>1. SUFFICES ASSUME T # {}
               PROVE  FALSE
    OBVIOUS
<1>2. PICK x \in T : \A y \in T : x <= y
    BY <1>1, LeastElement
<1>3. x - 1 \in Nat /\ x - 1 \notin T
    BY <1>2
<1> QED
    BY <1>2, <1>3

LEMMA GreatestElement ==
    ASSUME NEW n \in Nat, NEW T \in SUBSET (0..n), T # {}
    PROVE  \E x \in T : \A y \in T : y <= x
<1> DEFINE D == {n - y : y \in T}
<1>1. D \in SUBSET Nat /\ D # {}
    <2>1. \A y \in T : y \in 0..n /\ n - y \in Nat
        OBVIOUS
    <2> QED
        BY <2>1
<1>2. PICK d \in D : \A e \in D : d <= e
    <2> HIDE DEF D
    <2> QED
        BY <1>1, LeastElement
<1>3. PICK x \in T : d = n - x
    BY <1>2
<1>4. ASSUME NEW y \in T
      PROVE  y <= x
    <2>1. n - x <= n - y
        BY <1>2, <1>3
    <2> QED
        BY <2>1
<1> QED
    BY <1>4

\* The courses of a loop of n rounds, each of them F, that starts from w.
Courses(W, w, n, F) ==
    {g \in [0..n -> W] : \A k \in 0..n : g[k] = IF k = 0 THEN w ELSE F[<<k, g[k - 1]>>]}

\* A loop has a course, when each round stays in W.
LEMMA LoopExists ==
    ASSUME NEW W, NEW w \in W, NEW n \in Nat, NEW F \in [(1..n) \X W -> W]
    PROVE  \E g : g \in Courses(W, w, n, F)
<1> DEFINE Upto(m) == \E g \in [0..m -> W] :
                          \A k \in 0..m : g[k] = IF k = 0 THEN w ELSE F[<<k, g[k - 1]>>]
           S == {m \in Nat : m <= n => Upto(m)}
<1>1. 0 \in S
    <2>1. [k \in 0..0 |-> w] \in [0..0 -> W] /\ \A k \in 0..0 : [j \in 0..0 |-> w][k] = w /\ k = 0
        OBVIOUS
    <2> QED
        BY <2>1
<1>2. ASSUME NEW m \in Nat, m \in S
      PROVE  m + 1 \in S
    <2>1. SUFFICES ASSUME m + 1 <= n
                   PROVE  Upto(m + 1)
        OBVIOUS
    <2>2. PICK g \in [0..m -> W] : \A k \in 0..m : g[k] = IF k = 0 THEN w ELSE F[<<k, g[k - 1]>>]
        BY <1>2, <2>1
    <2> DEFINE h == [k \in 0..(m + 1) |-> IF k <= m THEN g[k] ELSE F[<<k, g[m]>>]]
    <2>3. m + 1 \in 1..n /\ g[m] \in W /\ F[<<m + 1, g[m]>>] \in W
        BY <2>1, <2>2
    <2>4. /\ \A k \in 0..m : h[k] = g[k]
          /\ h[m + 1] = F[<<m + 1, g[m]>>]
        OBVIOUS
    <2>5. h \in [0..(m + 1) -> W]
        <3>1. \A k \in 0..(m + 1) : k \in 0..m \/ k = m + 1
            OBVIOUS
        <3>2. \A k \in 0..(m + 1) : (IF k <= m THEN g[k] ELSE F[<<k, g[m]>>]) \in W
            BY <2>2, <2>3, <3>1
        <3> QED
            BY <3>2
    <2> HIDE DEF h
    <2>6. ASSUME NEW k \in 0..(m + 1)
          PROVE  h[k] = IF k = 0 THEN w ELSE F[<<k, h[k - 1]>>]
        <3>1. CASE k \in 0..m
            <4>1. k # 0 => k - 1 \in 0..m
                BY <3>1
            <4> QED
                BY <2>2, <2>4, <3>1, <4>1
        <3>2. CASE k = m + 1
            <4>1. k # 0 /\ k - 1 = m /\ m \in 0..m
                BY <3>2
            <4> QED
                BY <2>4, <3>2, <4>1
        <3> QED
            BY <3>1, <3>2
    <2> QED
        BY <2>5, <2>6
<1> HIDE DEF S
<1>3. Nat \subseteq S
    BY <1>1, <1>2, EveryNumber
<1>4. n \in S
    BY <1>3
<1>5. \E g \in [0..n -> W] : \A k \in 0..n : g[k] = IF k = 0 THEN w ELSE F[<<k, g[k - 1]>>]
    BY <1>4 DEF S
<1> QED
    BY <1>5 DEF Courses

-----------------------------------------------------------------------------
(***************************************************************************)
(* Queues in which some elements matter only while nothing follows them    *)
(* that makes up for them.                                                 *)
(***************************************************************************)

\* Each element of P is followed by one of R, or is in Q.
Followed(w, P, R, Q) ==
    \A i \in 1..Len(w) : w[i] \in P => (\E j \in (i + 1)..Len(w) : w[j] \in R) \/ w[i] \in Q

NoneOf(w, R) == \A i \in 1..Len(w) : w[i] \notin R

LEMMA AppendFollowed ==
    ASSUME NEW S, NEW w \in Seq(S), NEW m \in S, NEW P, NEW R, NEW Q,
           m \in P => m \in Q, m \in R \/ Followed(w, P, R, Q)
    PROVE  Followed(Append(w, m), P, R, Q)
<1> DEFINE n == Len(w)
           v == Append(w, m)
<1>1. /\ n \in Nat /\ Len(v) = n + 1 /\ \A i \in 1..n : v[i] = w[i]
      /\ v[n + 1] = m
    BY AppendProperties, LenProperties
<1>2. Followed(w, P, R, Q) =>
         \A i \in 1..n : w[i] \in P => (\E j \in (i + 1)..n : w[j] \in R) \/ w[i] \in Q
    BY DEF Followed
<1> HIDE DEF n, v
<1>3. /\ \A i \in 1..(n + 1) : i \in 1..n \/ i = n + 1
      /\ \A i \in 1..n : n + 1 \in (i + 1)..(n + 1) /\ (i + 1)..n \subseteq (i + 1)..(n + 1)
      /\ \A i \in 1..n : (i + 1)..n \subseteq 1..n
    BY <1>1
<1>4. SUFFICES ASSUME NEW i \in 1..(n + 1), v[i] \in P
               PROVE  (\E j \in (i + 1)..(n + 1) : v[j] \in R) \/ v[i] \in Q
    BY <1>1 DEF Followed, v
<1>5. CASE i = n + 1
    BY <1>1, <1>4, <1>5
<1>6. CASE i \in 1..n /\ m \in R
    BY <1>1, <1>3, <1>6
<1>7. CASE i \in 1..n /\ Followed(w, P, R, Q)
    <2>1. (\E j \in (i + 1)..n : w[j] \in R) \/ w[i] \in Q
        BY <1>1, <1>2, <1>4, <1>7
    <2> QED
        BY <1>1, <1>3, <1>7, <2>1
<1> QED
    BY <1>3, <1>5, <1>6, <1>7

LEMMA AppendNone ==
    ASSUME NEW S, NEW w \in Seq(S), NEW m \in S, NEW R
    PROVE  NoneOf(Append(w, m), R) <=> NoneOf(w, R) /\ m \notin R
<1> DEFINE n == Len(w)
           v == Append(w, m)
<1>1. /\ n \in Nat /\ Len(v) = n + 1 /\ \A i \in 1..n : v[i] = w[i]
      /\ v[n + 1] = m
    BY AppendProperties, LenProperties
<1>2. NoneOf(w, R) <=> \A i \in 1..n : w[i] \notin R
    BY DEF NoneOf
<1>3. NoneOf(v, R) <=> \A i \in 1..(n + 1) : v[i] \notin R
    BY <1>1 DEF NoneOf
<1> HIDE DEF n, v
<1>4. /\ \A i \in 1..(n + 1) : i \in 1..n \/ i = n + 1
      /\ 1..n \subseteq 1..(n + 1) /\ n + 1 \in 1..(n + 1)
    BY <1>1
<1>5. NoneOf(v, R) <=> NoneOf(w, R) /\ m \notin R
    BY <1>1, <1>2, <1>3, <1>4
<1> QED
    BY <1>5 DEF v

LEMMA TailFollowed ==
    ASSUME NEW S, NEW w \in Seq(S), w # <<>>, NEW P, NEW R, NEW Q, Followed(w, P, R, Q)
    PROVE  /\ Followed(Tail(w), P, R, Q)
           /\ Head(w) \in P /\ NoneOf(Tail(w), R) => Head(w) \in Q
<1> DEFINE n == Len(w)
           v == Tail(w)
<1>1. /\ n \in Nat /\ n # 0 /\ Len(v) = n - 1 /\ Head(w) = w[1]
      /\ \A i \in 1..(n - 1) : v[i] = w[i + 1]
    BY HeadTailProperties, LenProperties, EmptySeq
<1>2. \A i \in 1..n : w[i] \in P => (\E j \in (i + 1)..n : w[j] \in R) \/ w[i] \in Q
    BY DEF Followed
<1>3. /\ Followed(v, P, R, Q) <=>
             \A i \in 1..(n - 1) : v[i] \in P => (\E j \in (i + 1)..(n - 1) : v[j] \in R) \/ v[i] \in Q
      /\ NoneOf(v, R) <=> \A i \in 1..(n - 1) : v[i] \notin R
    BY <1>1 DEF Followed, NoneOf
<1> HIDE DEF n, v
<1>4. /\ \A j \in (1 + 1)..n : j - 1 \in 1..(n - 1) /\ v[j - 1] = w[j]
      /\ \A i \in 1..(n - 1) : \A j \in (i + 1 + 1)..n : j - 1 \in (i + 1)..(n - 1) /\ v[j - 1] = w[j]
    <2>1. ASSUME NEW j \in (1 + 1)..n
          PROVE  j - 1 \in 1..(n - 1) /\ v[j - 1] = w[j]
        <3>1. j - 1 \in 1..(n - 1) /\ (j - 1) + 1 = j
            BY <1>1
        <3> QED
            BY <1>1, <3>1
    <2>2. ASSUME NEW i \in 1..(n - 1), NEW j \in (i + 1 + 1)..n
          PROVE  j \in (1 + 1)..n /\ j - 1 \in (i + 1)..(n - 1)
        BY <1>1
    <2> QED
        BY <2>1, <2>2
<1>5. ASSUME NEW i \in 1..(n - 1), v[i] \in P
      PROVE  (\E j \in (i + 1)..(n - 1) : v[j] \in R) \/ v[i] \in Q
    <2>1. i + 1 \in 1..n /\ v[i] = w[i + 1]
        BY <1>1
    <2>2. (\E j \in (i + 1 + 1)..n : w[j] \in R) \/ w[i + 1] \in Q
        BY <1>2, <1>5, <2>1
    <2>3. ASSUME NEW j \in (i + 1 + 1)..n, w[j] \in R
          PROVE  \E k \in (i + 1)..(n - 1) : v[k] \in R
        <3>1. j - 1 \in (i + 1)..(n - 1) /\ v[j - 1] = w[j]
            BY <1>4
        <3> QED
            BY <2>3, <3>1
    <2> QED
        BY <2>1, <2>2, <2>3
<1>6. ASSUME w[1] \in P, NoneOf(v, R)
      PROVE  w[1] \in Q
    <2>1. 1 \in 1..n
        BY <1>1
    <2>2. (\E j \in (1 + 1)..n : w[j] \in R) \/ w[1] \in Q
        BY <1>2, <1>6, <2>1
    <2>3. \A i \in 1..(n - 1) : v[i] \notin R
        BY <1>3, <1>6
    <2> QED
        BY <1>4, <2>2, <2>3
<1> QED
    BY <1>1, <1>3, <1>5, <1>6 DEF v

LEMMA TailNone ==
    ASSUME NEW S, NEW w \in Seq(S), w # <<>>, NEW R
    PROVE  NoneOf(w, R) <=> NoneOf(Tail(w), R) /\ Head(w) \notin R
<1> DEFINE n == Len(w)
           v == Tail(w)
<1>1. /\ n \in Nat /\ n # 0 /\ Len(v) = n - 1 /\ Head(w) = w[1]
      /\ \A i \in 1..(n - 1) : v[i] = w[i + 1]
    BY HeadTailProperties, LenProperties, EmptySeq
<1>2. /\ NoneOf(w, R) <=> \A i \in 1..n : w[i] \notin R
      /\ NoneOf(v, R) <=> \A i \in 1..(n - 1) : v[i] \notin R
    BY <1>1 DEF NoneOf
<1> HIDE DEF n, v
<1>3. ASSUME NEW i \in 1..n
      PROVE  i = 1 \/ (i - 1 \in 1..(n - 1) /\ w[i] = v[i - 1])
    <2>1. i = 1 \/ (i - 1 \in 1..(n - 1) /\ (i - 1) + 1 = i)
        BY <1>1
    <2> QED
        BY <1>1, <2>1
<1>4. 1 \in 1..n /\ \A i \in 1..(n - 1) : i + 1 \in 1..n
    BY <1>1
<1>5. NoneOf(w, R) <=> NoneOf(v, R) /\ Head(w) \notin R
    BY <1>1, <1>2, <1>3, <1>4
<1> QED
    BY <1>5 DEF v

=============================================================================
