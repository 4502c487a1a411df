----------------------------- MODULE DataFacts -----------------------------
(***************************************************************************)
(* Facts about data that the proofs of the engines share: what taking an   *)
(* entry out of a list, or putting one in, does to its contents, and that  *)
(* a finite set has a first element, which every engine's PeekNext and     *)
(* every Min relies on; what a loop has done after n iterations; division.  *)
(***************************************************************************)
EXTENDS Integers, Sequences, FiniteSets, Functions, StdList, SequenceTheorems,
        FiniteSetTheorems, WellFoundedInduction, TLAPS

\* Tail takes the first element away.
LEMMA TailOfDistinct ==
    ASSUME NEW S, NEW s \in Seq(S), s # <<>>,
           \A i, j \in DOMAIN s : s[i] = s[j] => i = j
    PROVE  /\ Range(Tail(s)) = Range(s) \ {Head(s)}
           /\ Head(s) \in Range(s)
           /\ \A i, j \in DOMAIN Tail(s) : Tail(s)[i] = Tail(s)[j] => i = j
<1>1. /\ Tail(s) \in Seq(S) /\ Len(Tail(s)) = Len(s) - 1
      /\ \A i \in 1..(Len(s) - 1) : Tail(s)[i] = s[i + 1]
      /\ Head(s) = s[1] /\ Len(s) \in Nat \ {0}
    OBVIOUS
<1>2. DOMAIN s = 1..Len(s) /\ DOMAIN Tail(s) = 1..(Len(s) - 1)
    BY <1>1
<1>3. Head(s) \in Range(s)
    BY <1>1, <1>2 DEF Range
<1>4. Range(Tail(s)) \subseteq Range(s) \ {Head(s)}
    BY <1>1, <1>2 DEF Range
<1>5. ASSUME NEW x \in Range(s) \ {Head(s)} PROVE x \in Range(Tail(s))
  <2>1. PICK k \in 1..Len(s) : x = s[k]
      BY <1>2 DEF Range
  <2>2. k # 1
      BY <1>1, <2>1
  <2>3. k - 1 \in 1..(Len(s) - 1) /\ Tail(s)[k - 1] = x
      BY <1>1, <2>1, <2>2
  <2> QED BY <1>2, <2>3 DEF Range
<1>6. \A i, j \in DOMAIN Tail(s) : Tail(s)[i] = Tail(s)[j] => i = j
    BY <1>1, <1>2
<1> QED BY <1>3, <1>4, <1>5, <1>6

\* A piece of a list.
LEMMA PieceEntries ==
    ASSUME NEW S, NEW s \in Seq(S), NEW m \in Nat \ {0}, NEW n \in Nat,
           m <= n + 1, n <= Len(s)
    PROVE  /\ SubSeq(s, m, n) \in Seq(S) /\ Len(SubSeq(s, m, n)) = n - m + 1
           /\ \A i \in 1..(n - m + 1) : SubSeq(s, m, n)[i] = s[m + i - 1]
<1>1. \A i \in m..n : s[i] \in S
    OBVIOUS
<1>2. /\ SubSeq(s, m, n) \in Seq(S)
      /\ Len(SubSeq(s, m, n)) = IF m <= n THEN n - m + 1 ELSE 0
      /\ \A i \in 1..(n - m + 1) : SubSeq(s, m, n)[i] = s[m + i - 1]
    BY <1>1, SubSeqProperties
<1>3. ~(m <= n) => n - m + 1 = 0
    OBVIOUS
<1> QED BY <1>2, <1>3

\* The entries of a list with entry k erased.
LEMMA EraseEntry ==
    ASSUME NEW S, NEW s \in Seq(S), NEW k \in 1..Len(s)
    PROVE  /\ Erase(s, k) \in Seq(S) /\ Len(Erase(s, k)) = Len(s) - 1
           /\ \A i \in 1..(Len(s) - 1) : Erase(s, k)[i] = s[IF i < k THEN i ELSE i + 1]
<1> DEFINE a == SubSeq(s, 1, k - 1)
           b == SubSeq(s, k + 1, Len(s))
<1>1. Len(s) \in Nat /\ k \in Nat /\ 1 <= k /\ k <= Len(s)
    OBVIOUS
<1>2. a \in Seq(S) /\ Len(a) = k - 1 /\ \A i \in 1..(k - 1) : a[i] = s[i]
  <2>1. /\ a \in Seq(S) /\ Len(a) = (k - 1) - 1 + 1
        /\ \A i \in 1..((k - 1) - 1 + 1) : a[i] = s[1 + i - 1]
      BY <1>1, PieceEntries
  <2> QED BY <1>1, <2>1
<1>3. b \in Seq(S) /\ Len(b) = Len(s) - k /\ \A i \in 1..(Len(s) - k) : b[i] = s[k + i]
  <2>1. /\ b \in Seq(S) /\ Len(b) = Len(s) - (k + 1) + 1
        /\ \A i \in 1..(Len(s) - (k + 1) + 1) : b[i] = s[(k + 1) + i - 1]
      BY <1>1, PieceEntries
  <2> QED BY <1>1, <2>1
<1>4. Erase(s, k) = a \o b
    BY DEF Erase
<1> HIDE DEF a, b
<1>5. /\ a \o b \in Seq(S) /\ Len(a \o b) = Len(a) + Len(b)
      /\ \A i \in 1..(Len(a) + Len(b)) :
            (a \o b)[i] = IF i <= Len(a) THEN a[i] ELSE b[i - Len(a)]
    BY <1>2, <1>3, ConcatProperties
<1>6. Len(a) + Len(b) = Len(s) - 1
    BY <1>1, <1>2, <1>3
<1>7. ASSUME NEW i \in 1..(Len(s) - 1)
      PROVE  Erase(s, k)[i] = s[IF i < k THEN i ELSE i + 1]
  <2>1. Erase(s, k)[i] = IF i <= k - 1 THEN a[i] ELSE b[i - (k - 1)]
      BY <1>2, <1>4, <1>5, <1>6
  <2>2. CASE i < k
      BY <1>1, <1>2, <2>1, <2>2
  <2>3. CASE i >= k
    <3>1. i - (k - 1) \in 1..(Len(s) - k) /\ k + (i - (k - 1)) = i + 1 /\ ~(i <= k - 1)
        BY <1>1, <2>3
    <3>2. b[i - (k - 1)] = s[i + 1]
        BY <1>3, <3>1
    <3> QED BY <1>1, <2>1, <2>3, <3>1, <3>2
  <2> QED BY <1>1, <2>2, <2>3
<1> QED BY <1>4, <1>5, <1>6, <1>7

\* Erasing one entry of a list without duplicates takes exactly that one away.
LEMMA EraseFromDistinct ==
    ASSUME NEW S, NEW s \in Seq(S), NEW k \in 1..Len(s),
           \A i, j \in DOMAIN s : s[i] = s[j] => i = j
    PROVE  /\ Range(Erase(s, k)) = Range(s) \ {s[k]}
           /\ \A i, j \in DOMAIN Erase(s, k) : Erase(s, k)[i] = Erase(s, k)[j] => i = j
<1> DEFINE t == Erase(s, k)
           g(i) == IF i < k THEN i ELSE i + 1
<1>1. DOMAIN s = 1..Len(s) /\ Len(s) \in Nat
    OBVIOUS
<1>2. t \in Seq(S) /\ Len(t) = Len(s) - 1 /\ \A i \in 1..(Len(s) - 1) : t[i] = s[g(i)]
    BY EraseEntry
<1> HIDE DEF t
<1>3. DOMAIN t = 1..(Len(s) - 1)
    BY <1>2
<1>4. \A i \in 1..(Len(s) - 1) : g(i) \in 1..Len(s) /\ g(i) # k
    BY <1>1
<1>5. \A i, j \in 1..(Len(s) - 1) : g(i) = g(j) => i = j
    BY <1>1
<1>6. \A m \in 1..Len(s) : m # k => \E i \in 1..(Len(s) - 1) : g(i) = m
  <2> SUFFICES ASSUME NEW m \in 1..Len(s), m # k
               PROVE  \E i \in 1..(Len(s) - 1) : g(i) = m
      OBVIOUS
  <2>1. CASE m < k
    <3>1. m \in 1..(Len(s) - 1) /\ g(m) = m
        BY <1>1, <2>1
    <3> QED BY <3>1
  <2>2. CASE m > k
    <3>1. m - 1 \in 1..(Len(s) - 1) /\ g(m - 1) = m
        BY <1>1, <2>2
    <3> QED BY <3>1
  <2> QED BY <1>1, <2>1, <2>2
<1> HIDE DEF g
<1>7. ASSUME NEW x \in Range(t) PROVE x \in Range(s) \ {s[k]}
  <2>1. PICK i \in 1..(Len(s) - 1) : x = s[g(i)]
      BY <1>2, <1>3 DEF Range
  <2>2. g(i) \in 1..Len(s) /\ g(i) # k
      BY <1>4
  <2> QED BY <1>1, <2>1, <2>2 DEF Range
<1>8. ASSUME NEW x \in Range(s) \ {s[k]} PROVE x \in Range(t)
  <2>1. PICK m \in 1..Len(s) : x = s[m]
      BY <1>1 DEF Range
  <2>2. PICK i \in 1..(Len(s) - 1) : g(i) = m
      BY <1>6, <2>1
  <2>3. t[i] = x
      BY <1>2, <2>1, <2>2
  <2> QED BY <1>3, <2>3 DEF Range
<1>9. ASSUME NEW i \in DOMAIN t, NEW j \in DOMAIN t, t[i] = t[j] PROVE i = j
  <2>1. s[g(i)] = s[g(j)] /\ g(i) \in 1..Len(s) /\ g(j) \in 1..Len(s)
      BY <1>2, <1>3, <1>4, <1>9
  <2>2. g(i) = g(j)
      BY <1>1, <2>1
  <2> QED BY <1>3, <1>5, <2>2
<1> QED BY <1>7, <1>8, <1>9 DEF t

\* The entries of a list with e inserted before entry k.
LEMMA InsertEntry ==
    ASSUME NEW S, NEW s \in Seq(S), NEW k \in 1..(Len(s) + 1), NEW e \in S
    PROVE  /\ InsertBefore(s, k, e) \in Seq(S)
           /\ Len(InsertBefore(s, k, e)) = Len(s) + 1
           /\ \A i \in 1..(Len(s) + 1) :
                 InsertBefore(s, k, e)[i] =
                     IF i < k THEN s[i] ELSE IF i = k THEN e ELSE s[i - 1]
<1> DEFINE a == SubSeq(s, 1, k - 1)
           b == SubSeq(s, k, Len(s))
           c == a \o <<e>>
<1>1. Len(s) \in Nat /\ k \in Nat /\ 1 <= k /\ k <= Len(s) + 1
    OBVIOUS
<1>2. a \in Seq(S) /\ Len(a) = k - 1 /\ \A i \in 1..(k - 1) : a[i] = s[i]
  <2>1. /\ a \in Seq(S) /\ Len(a) = (k - 1) - 1 + 1
        /\ \A i \in 1..((k - 1) - 1 + 1) : a[i] = s[1 + i - 1]
      BY <1>1, PieceEntries
  <2> QED BY <1>1, <2>1
<1>3. /\ b \in Seq(S) /\ Len(b) = Len(s) - k + 1
      /\ \A i \in 1..(Len(s) - k + 1) : b[i] = s[k + i - 1]
    BY <1>1, PieceEntries
<1>4. InsertBefore(s, k, e) = c \o b
    BY DEF InsertBefore
<1> HIDE DEF a, b
<1>5. <<e>> \in Seq(S) /\ Len(<<e>>) = 1 /\ <<e>>[1] = e
    OBVIOUS
<1>6. /\ c \in Seq(S) /\ Len(c) = Len(a) + 1
      /\ \A i \in 1..(Len(a) + 1) : c[i] = IF i <= Len(a) THEN a[i] ELSE <<e>>[i - Len(a)]
    BY <1>2, <1>5, ConcatProperties
<1>7. Len(c) = k /\ c[k] = e /\ \A i \in 1..(k - 1) : c[i] = s[i]
  <2>1. Len(c) = k
      BY <1>1, <1>2, <1>6
  <2>2. c[k] = e
    <3>1. k \in 1..(Len(a) + 1) /\ ~(k <= Len(a)) /\ k - Len(a) = 1
        BY <1>1, <1>2
    <3> QED BY <1>5, <1>6, <3>1
  <2>3. ASSUME NEW i \in 1..(k - 1) PROVE c[i] = s[i]
    <3>1. i \in 1..(Len(a) + 1) /\ i <= Len(a)
        BY <1>1, <1>2
    <3> QED BY <1>2, <1>6, <3>1
  <2> QED BY <2>1, <2>2, <2>3
<1> HIDE DEF c
<1>8. /\ c \o b \in Seq(S) /\ Len(c \o b) = Len(c) + Len(b)
      /\ \A i \in 1..(Len(c) + Len(b)) :
            (c \o b)[i] = IF i <= Len(c) THEN c[i] ELSE b[i - Len(c)]
    BY <1>3, <1>6, ConcatProperties
<1>9. Len(c) + Len(b) = Len(s) + 1
    BY <1>1, <1>3, <1>7
<1>10. ASSUME NEW i \in 1..(Len(s) + 1)
       PROVE  InsertBefore(s, k, e)[i] = IF i < k THEN s[i] ELSE IF i = k THEN e ELSE s[i - 1]
  <2>1. InsertBefore(s, k, e)[i] = IF i <= k THEN c[i] ELSE b[i - k]
      BY <1>4, <1>7, <1>8, <1>9
  <2>2. CASE i < k
    <3>1. i \in 1..(k - 1) /\ i <= k
        BY <1>1, <2>2
    <3> QED BY <1>7, <2>1, <2>2, <3>1
  <2>3. CASE i = k
      BY <1>1, <1>7, <2>1, <2>3
  <2>4. CASE i > k
    <3>1. i - k \in 1..(Len(s) - k + 1) /\ k + (i - k) - 1 = i - 1 /\ ~(i <= k) /\ ~(i < k) /\ i # k
        BY <1>1, <2>4
    <3> QED BY <1>3, <2>1, <3>1
  <2> QED BY <1>1, <2>2, <2>3, <2>4
<1> QED BY <1>4, <1>8, <1>9, <1>10

\* Inserting an entry adds it to the contents and changes nothing else.
LEMMA InsertRange ==
    ASSUME NEW S, NEW s \in Seq(S), NEW k \in 1..(Len(s) + 1), NEW e \in S
    PROVE  Range(InsertBefore(s, k, e)) = Range(s) \cup {e}
<1> DEFINE t == InsertBefore(s, k, e)
<1>1. Len(s) \in Nat /\ k \in Nat /\ 1 <= k /\ k <= Len(s) + 1 /\ DOMAIN s = 1..Len(s)
    OBVIOUS
<1>2. /\ t \in Seq(S) /\ Len(t) = Len(s) + 1
      /\ \A i \in 1..(Len(s) + 1) : t[i] = IF i < k THEN s[i] ELSE IF i = k THEN e ELSE s[i - 1]
    BY InsertEntry
<1> HIDE DEF t
<1>3. DOMAIN t = 1..(Len(s) + 1)
    BY <1>2
<1>4. ASSUME NEW i \in 1..(Len(s) + 1) PROVE t[i] \in Range(s) \cup {e}
  <2>1. CASE i < k
      BY <1>1, <1>2, <2>1 DEF Range
  <2>2. CASE i = k
      BY <1>1, <1>2, <2>2
  <2>3. CASE i > k
    <3>1. i - 1 \in 1..Len(s) /\ ~(i < k) /\ i # k
        BY <1>1, <2>3
    <3> QED BY <1>1, <1>2, <3>1 DEF Range
  <2> QED BY <1>1, <2>1, <2>2, <2>3
<1>5. e \in Range(t)
  <2>1. t[k] = e /\ k \in DOMAIN t
      BY <1>1, <1>2, <1>3
  <2> QED BY <2>1 DEF Range
<1>6. ASSUME NEW i \in 1..Len(s) PROVE s[i] \in Range(t)
  <2>1. CASE i < k
    <3>1. t[i] = s[i] /\ i \in DOMAIN t
        BY <1>1, <1>2, <1>3, <2>1
    <3> QED BY <3>1 DEF Range
  <2>2. CASE i >= k
    <3>1. i + 1 \in 1..(Len(s) + 1) /\ ~(i + 1 < k) /\ i + 1 # k /\ (i + 1) - 1 = i
        BY <1>1, <2>2
    <3>2. t[i + 1] = s[i] /\ i + 1 \in DOMAIN t
        BY <1>2, <1>3, <3>1
    <3> QED BY <3>2 DEF Range
  <2> QED BY <1>1, <2>1, <2>2
<1>7. Range(t) \subseteq Range(s) \cup {e}
    BY <1>3, <1>4 DEF Range
<1>8. Range(s) \cup {e} \subseteq Range(t)
    BY <1>1, <1>5, <1>6 DEF Range
<1> QED BY <1>7, <1>8 DEF t

-----------------------------------------------------------------------------
(* First elements.                                                         *)

\* R is a strict order on S.
StrictOrder(R, S) ==
    /\ \A x \in S : <<x, x>> \notin R
    /\ \A x, y, z \in S : <<x, y>> \in R /\ <<y, z>> \in R => <<x, z>> \in R

\* A finite set that is not empty has a minimal element: of the subsets that
\* have none, one is smallest, and an element more or less makes no difference
\* to it.
LEMMA MinimalElement ==
    ASSUME NEW S, IsFiniteSet(S), S # {}, NEW R, StrictOrder(R, S)
    PROVE  \E x \in S : \A y \in S : <<y, x>> \notin R
<1> DEFINE HasMinimal(T) == \E x \in T : \A y \in T : <<y, x>> \notin R
           Bad == {T \in SUBSET S : T # {} /\ ~HasMinimal(T)}
<1>1. SUFFICES ASSUME Bad # {} PROVE FALSE
    OBVIOUS
<1>2. Bad \subseteq FiniteSubsetsOf(S)
    BY FS_FiniteSubsetsOfFinite
<1>3. IsWellFoundedOn(StrictSubsetOrdering(S), FiniteSubsetsOf(S))
    BY FS_StrictSubsetOrderingWellFounded
<1> HIDE DEF Bad
<1>4. PICK T \in Bad : \A U \in Bad : <<U, T>> \notin StrictSubsetOrdering(S)
    BY ONLY <1>1, <1>2, <1>3, WFMin
<1> USE DEF Bad
<1>5. PICK z \in T : TRUE
    BY <1>4
<1> DEFINE U == T \ {z}
<1>6. U \notin Bad
  <2>1. <<U, T>> \in (SUBSET S) \X (SUBSET S) /\ U \subseteq T /\ U # T
      BY <1>4, <1>5
  <2>2. <<U, T>> \in StrictSubsetOrdering(S)
      BY <2>1 DEF StrictSubsetOrdering
  <2> QED  BY <1>4, <2>2
<1>7. \A y \in T : <<y, y>> \notin R
    BY <1>4 DEF StrictOrder
<1>8. U # {}
    BY <1>4, <1>5, <1>7
<1>9. PICK x \in U : \A y \in U : <<y, x>> \notin R
    BY <1>4, <1>6, <1>8
<1>10. <<z, x>> \in R
    BY <1>4, <1>5, <1>9
<1>11. ASSUME NEW y \in T PROVE <<y, z>> \notin R
  <2>1. <<y, z>> \in R => <<y, x>> \in R
      BY <1>4, <1>9, <1>10, <1>5 DEF StrictOrder
  <2> QED  BY <2>1, <1>7, <1>9, <1>5
<1> QED  BY <1>4, <1>5, <1>11

\* A finite set of numbers that is not empty has a least and a greatest one.
LEMMA LeastNumber ==
    ASSUME NEW S \in SUBSET Int, IsFiniteSet(S), S # {}
    PROVE  \E x \in S : \A y \in S : x <= y
<1> DEFINE R == {p \in S \X S : p[1] < p[2]}
<1>1. \A x, y \in S : <<x, y>> \in R <=> x < y
    OBVIOUS
<1>2. StrictOrder(R, S)
    BY <1>1 DEF StrictOrder
<1> HIDE DEF R
<1>3. PICK x \in S : \A y \in S : <<y, x>> \notin R
    BY <1>2, MinimalElement
<1>4. ASSUME NEW y \in S PROVE x <= y
  <2>1. <<y, x>> \notin R
      BY <1>3
  <2> QED  BY <1>1, <2>1
<1> QED  BY <1>4

\* A finite set of numbers has a greatest element.
LEMMA GreatestNumber ==
    ASSUME NEW S \in SUBSET Int, IsFiniteSet(S), S # {}
    PROVE  \E x \in S : \A y \in S : x >= y
<1> DEFINE R == {p \in S \X S : p[1] > p[2]}
<1>1. \A x, y \in S : <<x, y>> \in R <=> x > y
    OBVIOUS
<1>2. StrictOrder(R, S)
    BY <1>1 DEF StrictOrder
<1> HIDE DEF R
<1>3. PICK x \in S : \A y \in S : <<y, x>> \notin R
    BY <1>2, MinimalElement
<1>4. ASSUME NEW y \in S PROVE x >= y
  <2>1. <<y, x>> \notin R
      BY <1>3
  <2> QED  BY <1>1, <2>1
<1> QED  BY <1>4

\* The values of a function on a finite set.
LEMMA FiniteValues ==
    ASSUME NEW S, IsFiniteSet(S), NEW f, DOMAIN f = S
    PROVE  IsFiniteSet({f[x] : x \in S})
<1> DEFINE T == {f[x] : x \in S}
<1>1. [x \in S |-> f[x]] \in Surjection(S, T)
    BY DEF Surjection
<1> QED  BY <1>1, FS_Surjection

\* A finite set of events with different uids has one that is before all
\* others in the order of the event keys.
LEMMA FirstByKey ==
    ASSUME NEW S, IsFiniteSet(S), S # {},
           \A e \in S : e.ts \in Int /\ e.uid \in Int,
           \A e, f \in S : e # f => e.uid # f.uid
    PROVE  \E e \in S : \A f \in S \ {e} :
               e.ts < f.ts \/ (e.ts = f.ts /\ e.uid < f.uid)
<1> DEFINE R == {p \in S \X S :
                    p[1].ts < p[2].ts \/ (p[1].ts = p[2].ts /\ p[1].uid < p[2].uid)}
<1>1. \A x, y \in S :
          <<x, y>> \in R <=> x.ts < y.ts \/ (x.ts = y.ts /\ x.uid < y.uid)
    OBVIOUS
<1>2. StrictOrder(R, S)
    BY <1>1 DEF StrictOrder
<1> HIDE DEF R
<1>3. PICK x \in S : \A y \in S : <<y, x>> \notin R
    BY <1>2, MinimalElement
<1>4. ASSUME NEW y \in S \ {x}
      PROVE  x.ts < y.ts \/ (x.ts = y.ts /\ x.uid < y.uid)
  <2>1. ~(y.ts < x.ts \/ (y.ts = x.ts /\ y.uid < x.uid))
      BY <1>1, <1>3
  <2> QED  BY <2>1
<1> QED  BY <1>4

-----------------------------------------------------------------------------
(* Loops.  A loop is a recursive function of the number of its iterations; *)
(* what it keeps is shown by counting them.                                *)

\* Counting up from 0 reaches every number up to N: of those that are not
\* reached, the least would have one before it that is.
LEMMA CountingUp ==
    ASSUME NEW N \in Nat, NEW P, 0 \in P, \A k \in 1..N : k - 1 \in P => k \in P
    PROVE  \A k \in 0..N : k \in P
<1> DEFINE Bad == {k \in 0..N : k \notin P}
<1>1. SUFFICES ASSUME Bad # {} PROVE FALSE
    OBVIOUS
<1>2. Bad \in SUBSET Int /\ IsFiniteSet(Bad)
  <2>1. IsFiniteSet(0..N) /\ Bad \in SUBSET (0..N)
      BY FS_Interval
  <2> QED BY <2>1, FS_Subset
<1> HIDE DEF Bad
<1>3. PICK k \in Bad : \A j \in Bad : k <= j
    BY <1>1, <1>2, LeastNumber
<1> USE DEF Bad
<1>4. k # 0 /\ k \in 1..N /\ k - 1 \notin Bad /\ k - 1 \in 0..N
    BY <1>3
<1> QED BY <1>3, <1>4

\* A list that holds nothing twice is as long as its contents are many.
LEMMA DistinctCount ==
    ASSUME NEW S, NEW s \in Seq(S), IsInjective(s)
    PROVE  IsFiniteSet(Range(s)) /\ Cardinality(Range(s)) = Len(s)
<1>1. Len(s) \in Nat /\ DOMAIN s = 1..Len(s)
    OBVIOUS
<1>2. IsFiniteSet(1..Len(s)) /\ Cardinality(1..Len(s)) = Len(s)
    BY <1>1, FS_Interval
<1>3. s \in Bijection(1..Len(s), Range(s))
    BY <1>1 DEF Bijection, Injection, Surjection, IsInjective, Range
<1>4. ExistsBijection(1..Len(s), Range(s))
    BY <1>3 DEF ExistsBijection
<1> QED BY <1>2, <1>4, FS_Bijection

\* The contents R lose the element d[k] with iteration k of a loop.
Takes(n, R, d) == \A k \in 1..n : d[k] \in R[k - 1] /\ R[k] = R[k - 1] \ {d[k]}

\* What leaves is never the same twice.
LEMMA TakenOneByOne ==
    ASSUME NEW n \in Nat, NEW R, NEW d, Takes(n, R, d)
    PROVE  /\ \A k \in 0..n : R[k] = R[0] \ {d[j] : j \in 1..k}
           /\ \A i, j \in 1..n : d[i] = d[j] => i = j
<1> USE DEF Takes
<1> DEFINE P == {k \in 0..n : R[k] = R[0] \ {d[j] : j \in 1..k}}
<1>1. 0 \in P
    OBVIOUS
<1>2. ASSUME NEW k \in 1..n, k - 1 \in P PROVE k \in P
  <2>1. {d[j] : j \in 1..k} = {d[j] : j \in 1..(k - 1)} \cup {d[k]}
    <3>1. 1..k = 1..(k - 1) \cup {k}
        OBVIOUS
    <3> QED BY <3>1
  <2>2. R[k - 1] = R[0] \ {d[j] : j \in 1..(k - 1)}
      BY <1>2
  <2> QED BY <2>1, <2>2
<1> HIDE DEF P
<1>3. \A k \in 0..n : k \in P
    BY <1>1, <1>2, CountingUp
<1>4. \A k \in 0..n : R[k] = R[0] \ {d[j] : j \in 1..k}
    BY <1>3 DEF P
<1>5. ASSUME NEW i \in 1..n, NEW j \in 1..n, i < j PROVE d[i] # d[j]
  <2>1. d[j] \in R[0] \ {d[x] : x \in 1..(j - 1)}
      BY <1>4
  <2>2. i \in 1..(j - 1)
      BY <1>5
  <2> QED BY <2>1, <2>2
<1>6. ASSUME NEW i \in 1..n, NEW j \in 1..n, d[i] = d[j] PROVE i = j
    BY <1>5, <1>6
<1> QED BY <1>4, <1>6

\* The contents R get the element d[k] with iteration k of a loop.
Puts(n, R, d) == \A k \in 1..n : R[k] = R[k - 1] \cup {d[k]}

\* What has been put in after n iterations.
LEMMA PutOneByOne ==
    ASSUME NEW n \in Nat, NEW R, NEW d, Puts(n, R, d)
    PROVE  \A k \in 0..n : R[k] = R[0] \cup {d[j] : j \in 1..k}
<1> USE DEF Puts
<1> DEFINE P == {k \in 0..n : R[k] = R[0] \cup {d[j] : j \in 1..k}}
<1>1. 0 \in P
    OBVIOUS
<1>2. ASSUME NEW k \in 1..n, k - 1 \in P PROVE k \in P
  <2>1. {d[j] : j \in 1..k} = {d[j] : j \in 1..(k - 1)} \cup {d[k]}
    <3>1. 1..k = 1..(k - 1) \cup {k}
        OBVIOUS
    <3> QED BY <3>1
  <2>2. R[k - 1] = R[0] \cup {d[j] : j \in 1..(k - 1)}
      BY <1>2
  <2> QED BY <2>1, <2>2
<1> HIDE DEF P
<1>3. \A k \in 0..n : k \in P
    BY <1>1, <1>2, CountingUp
<1> QED BY <1>3 DEF P

-----------------------------------------------------------------------------
(* Quotients and rests, for time stamps that are counted in days.          *)

\* A number in days of length w: the day it is on, and where the day begins.
LEMMA DivFacts ==
    ASSUME NEW a \in Nat, NEW w \in Nat \ {0}
    PROVE  a \div w \in Nat /\ w * (a \div w) <= a /\ a < w * (a \div w) + w
OBVIOUS

\* Quotient and rest.
LEMMA ModFacts ==
    ASSUME NEW a \in Nat, NEW n \in Nat \ {0}
    PROVE  a % n \in 0..(n - 1) /\ a = n * (a \div n) + (a % n)
OBVIOUS

\* A product grows with its factor.
LEMMA ProductGrows ==
    ASSUME NEW w \in Nat \ {0}, NEW c \in Int, NEW d \in Int, c <= d
    PROVE  w * c <= w * d
OBVIOUS

\* The next multiple.
LEMMA ProductStep ==
    ASSUME NEW w \in Nat \ {0}, NEW c \in Int
    PROVE  w * (c + 1) = w * c + w /\ w * c \in Int
OBVIOUS

\* A quotient is at most d exactly below the next multiple of the divisor.
LEMMA DivBound ==
    ASSUME NEW a \in Nat, NEW w \in Nat \ {0}, NEW d \in Nat
    PROVE  a < w * (d + 1) <=> a \div w <= d
<1> DEFINE q == a \div w
<1>1. q \in Nat /\ w * q <= a /\ a < w * q + w
    BY DivFacts
<1> HIDE DEF q
<1>2. w * q \in Int /\ w * d \in Int /\ w * (d + 1) = w * d + w /\ w * (d + 1) \in Int
    BY <1>1, ProductStep
<1>3. CASE q <= d
  <2>1. w * q <= w * d
      BY <1>1, <1>3, ProductGrows
  <2> QED BY <1>1, <1>2, <1>3, <2>1 DEF q
<1>4. CASE d + 1 <= q
  <2>1. w * (d + 1) <= w * q
      BY <1>1, <1>4, ProductGrows
  <2> QED BY <1>1, <1>2, <1>4, <2>1 DEF q
<1> QED BY <1>1, <1>3, <1>4

\* Division keeps the order.
LEMMA DivOrder ==
    ASSUME NEW a \in Nat, NEW b \in Nat, NEW w \in Nat \ {0}
    PROVE  /\ a <= b => a \div w <= b \div w
           /\ a \div w < b \div w => a < b
<1> DEFINE d == b \div w
           c == a \div w
<1>1. d \in Nat /\ c \in Nat
    BY DivFacts
<1>2. b < w * (d + 1)
    BY <1>1, DivBound
<1>3. a < w * (d + 1) <=> c <= d
    BY <1>1, DivBound
<1> HIDE DEF c, d
<1>4. w * (d + 1) \in Int
    BY <1>1, ProductStep
<1> QED BY <1>1, <1>2, <1>3, <1>4 DEF c, d

\* Numbers less than n apart that leave the same rest are equal.
LEMMA SameRest ==
    ASSUME NEW n \in Nat \ {0}, NEW a \in Nat, NEW b \in Nat, a % n = b % n,
           a <= b, b < a + n
    PROVE  a = b
<1> DEFINE x == a \div n
           y == b \div n
           r == a % n
<1>1. x \in Nat /\ y \in Nat /\ r \in 0..(n - 1)
    BY DivFacts, ModFacts
<1>2. a = n * x + r /\ b = n * y + r
    BY ModFacts
<1>3. x <= y
    BY DivOrder
<1> HIDE DEF x, y, r
<1>4. n * x \in Int /\ n * y \in Int /\ n * (x + 1) = n * x + n
    BY <1>1, ProductStep
<1>5. ~(x + 1 <= y)
  <2> SUFFICES ASSUME x + 1 <= y PROVE FALSE
      OBVIOUS
  <2>1. n * (x + 1) <= n * y
      BY <1>1, ProductGrows
  <2> QED BY <1>1, <1>2, <1>4, <2>1
<1>6. x = y
    BY <1>1, <1>3, <1>5
<1> QED BY <1>2, <1>6

\* The rest of a multiple and less than the divisor.
LEMMA UniqueRest ==
    ASSUME NEW n \in Nat \ {0}, NEW q \in Nat, NEW r \in 0..(n - 1)
    PROVE  (n * q + r) % n = r
OBVIOUS

\* Going on from a rest is going on from the number.
LEMMA RestOfSum ==
    ASSUME NEW n \in Nat \ {0}, NEW a \in Nat, NEW k \in Nat
    PROVE  ((a % n) + k) % n = (a + k) % n
<1> DEFINE x == a \div n
           r == a % n
           q == (r + k) \div n
           s == (r + k) % n
<1>0. x \in Nat /\ r \in 0..(n - 1) /\ a = n * x + r
    BY DivFacts, ModFacts
<1>1. x \in Nat /\ r \in 0..(n - 1) /\ a = n * x + r /\ r + k \in Nat
  <2> HIDE DEF x, r
  <2> QED BY <1>0
<1>2. q \in Nat /\ s \in 0..(n - 1) /\ r + k = n * q + s
    BY <1>1, DivFacts, ModFacts
<1> HIDE DEF x, r, q, s
<1>3. n * x \in Int /\ n * q \in Int /\ n * (x + q) = n * x + n * q /\ x + q \in Nat
    BY <1>1, <1>2
<1>4. a + k = n * (x + q) + s
    BY <1>1, <1>2, <1>3
<1>5. (n * (x + q) + s) % n = s
    BY <1>2, <1>3, UniqueRest
<1> QED BY <1>4, <1>5 DEF s, r
=============================================================================
