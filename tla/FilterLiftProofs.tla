-------------------------- MODULE FilterLiftProofs --------------------------
(***************************************************************************)
(* Proofs about the two lift passes, for spines of any length: afterwards  *)
(* filters are built above all conditions, and a condition on the scanned  *)
(* table finds its columns all the while.                                  *)
(***************************************************************************)
EXTENDS FilterLift, SequenceTheorems, FiniteSetTheorems, WellFoundedInduction, TLAPS

-----------------------------------------------------------------------------
\* Sequences.

LEMMA SubSeqIs ==
    ASSUME NEW S, NEW s \in Seq(S), NEW m \in 1 .. Len(s) + 1, NEW n \in 0 .. Len(s),
           m <= n + 1
    PROVE  /\ SubSeq(s, m, n) \in Seq(S)
           /\ Len(SubSeq(s, m, n)) = n - m + 1
           /\ \A i \in 1 .. n - m + 1 : SubSeq(s, m, n)[i] = s[m + i - 1]
<1>1. m \in Int /\ n \in Int /\ \A i \in m .. n : s[i] \in S
  OBVIOUS
<1>2. /\ SubSeq(s, m, n) \in Seq(S)
      /\ Len(SubSeq(s, m, n)) = IF m <= n THEN n - m + 1 ELSE 0
      /\ \A i \in 1 .. n - m + 1 : SubSeq(s, m, n)[i] = s[m + i - 1]
  BY ONLY <1>1, SubSeqProperties
<1>3. (IF m <= n THEN n - m + 1 ELSE 0) = n - m + 1
  OBVIOUS
<1> QED BY <1>2, <1>3

LEMMA RemoveAtIs ==
    ASSUME NEW S, NEW s \in Seq(S), NEW k \in 1 .. Len(s)
    PROVE  /\ RemoveAt(s, k) \in Seq(S)
           /\ Len(RemoveAt(s, k)) = Len(s) - 1
           /\ \A i \in 1 .. Len(s) - 1 :
                RemoveAt(s, k)[i] = IF i < k THEN s[i] ELSE s[i + 1]
<1> DEFINE a == SubSeq(s, 1, k - 1)
           b == SubSeq(s, k + 1, Len(s))
<1>1. /\ a \in Seq(S) /\ Len(a) = k - 1
      /\ \A i \in 1 .. k - 1 : a[i] = s[i]
  <2>1. 1 \in 1 .. Len(s) + 1 /\ k - 1 \in 0 .. Len(s) /\ 1 <= (k - 1) + 1
    OBVIOUS
  <2>2. /\ a \in Seq(S) /\ Len(a) = (k - 1) - 1 + 1
        /\ \A i \in 1 .. (k - 1) - 1 + 1 : a[i] = s[1 + i - 1]
    BY <2>1, SubSeqIs
  <2> HIDE DEF a
  <2>3. (k - 1) - 1 + 1 = k - 1 /\ \A i \in 1 .. k - 1 : 1 + i - 1 = i
    OBVIOUS
  <2> QED BY <2>2, <2>3
<1>2. /\ b \in Seq(S) /\ Len(b) = Len(s) - k
      /\ \A i \in 1 .. Len(s) - k : b[i] = s[k + i]
  <2>1. k + 1 \in 1 .. Len(s) + 1 /\ Len(s) \in 0 .. Len(s) /\ k + 1 <= Len(s) + 1
    OBVIOUS
  <2>2. /\ b \in Seq(S) /\ Len(b) = Len(s) - (k + 1) + 1
        /\ \A i \in 1 .. Len(s) - (k + 1) + 1 : b[i] = s[(k + 1) + i - 1]
    BY <2>1, SubSeqIs
  <2> HIDE DEF b
  <2> QED BY <2>2
<1>3. RemoveAt(s, k) = a \o b
  BY DEF RemoveAt
<1> HIDE DEF a, b
<1>4. /\ a \o b \in Seq(S) /\ Len(a \o b) = Len(s) - 1
  BY <1>1, <1>2
<1>5. ASSUME NEW i \in 1 .. Len(s) - 1
      PROVE  (a \o b)[i] = IF i < k THEN s[i] ELSE s[i + 1]
  <2>1. CASE i < k
    BY <1>1, <1>2, <2>1
  <2>2. CASE ~ (i < k)
    <3>1. (a \o b)[i] = b[i - (k - 1)] /\ i - (k - 1) \in 1 .. Len(s) - k
      BY <1>1, <1>2, <2>2
    <3>2. b[i - (k - 1)] = s[k + (i - (k - 1))] /\ k + (i - (k - 1)) = i + 1
      BY <1>2, <3>1
    <3> QED BY <2>2, <3>1, <3>2
  <2> QED BY <2>1, <2>2
<1> QED BY <1>3, <1>4, <1>5

LEMMA InsertAtIs ==
    ASSUME NEW S, NEW s \in Seq(S), NEW d \in 1 .. Len(s), NEW e \in S
    PROVE  /\ InsertAt(s, d, e) \in Seq(S)
           /\ Len(InsertAt(s, d, e)) = Len(s) + 1
           /\ \A i \in 1 .. Len(s) + 1 :
                InsertAt(s, d, e)[i] = IF i < d THEN s[i] ELSE IF i = d THEN e ELSE s[i - 1]
<1> DEFINE a == SubSeq(s, 1, d - 1)
           b == SubSeq(s, d, Len(s))
<1>1. /\ a \in Seq(S) /\ Len(a) = d - 1
      /\ \A i \in 1 .. d - 1 : a[i] = s[i]
  <2>1. 1 \in 1 .. Len(s) + 1 /\ d - 1 \in 0 .. Len(s) /\ 1 <= (d - 1) + 1
    OBVIOUS
  <2>2. /\ a \in Seq(S) /\ Len(a) = (d - 1) - 1 + 1
        /\ \A i \in 1 .. (d - 1) - 1 + 1 : a[i] = s[1 + i - 1]
    BY <2>1, SubSeqIs
  <2> HIDE DEF a
  <2> QED BY <2>2
<1>2. /\ b \in Seq(S) /\ Len(b) = Len(s) - d + 1
      /\ \A i \in 1 .. Len(s) - d + 1 : b[i] = s[d + i - 1]
  <2>1. d \in 1 .. Len(s) + 1 /\ Len(s) \in 0 .. Len(s) /\ d <= Len(s) + 1
    OBVIOUS
  <2>2. /\ b \in Seq(S) /\ Len(b) = Len(s) - d + 1
        /\ \A i \in 1 .. Len(s) - d + 1 : b[i] = s[d + i - 1]
    BY <2>1, SubSeqIs
  <2> QED BY <2>2
<1> DEFINE c == a \o <<e>>
<1>3. InsertAt(s, d, e) = c \o b
  BY DEF InsertAt
<1> HIDE DEF a, b
<1>4. c \in Seq(S) /\ Len(c) = d /\ c[d] = e /\ \A i \in 1 .. d - 1 : c[i] = s[i]
  BY <1>1
<1> HIDE DEF c
<1>5. c \o b \in Seq(S) /\ Len(c \o b) = Len(s) + 1
  BY <1>2, <1>4
<1>6. ASSUME NEW i \in 1 .. Len(s) + 1
      PROVE  (c \o b)[i] = IF i < d THEN s[i] ELSE IF i = d THEN e ELSE s[i - 1]
  <2>1. CASE i <= d
    BY <1>2, <1>4, <2>1
  <2>2. CASE ~ (i <= d)
    <3>1. (c \o b)[i] = b[i - d] /\ i - d \in 1 .. Len(s) - d + 1
      BY <1>2, <1>4, <2>2
    <3>2. b[i - d] = s[d + (i - d) - 1] /\ d + (i - d) - 1 = i - 1
      BY <1>2, <3>1
    <3> QED BY <2>2, <3>1, <3>2
  <2> QED BY <2>1, <2>2
<1> QED BY <1>3, <1>5, <1>6

\* Where the operator at j was before the one at k was put at d.
From(j, k, d) == IF j < d \/ j > k THEN j ELSE IF j = d THEN k ELSE j - 1

\* h is the spine s once the operator at k has been put at d.
Moved(h, s, k, d) ==
    /\ h \in Seq(Operators)
    /\ Len(h) = Len(s)
    /\ \A j \in 1 .. Len(s) : From(j, k, d) \in 1 .. Len(s) /\ h[j] = s[From(j, k, d)]

LEMMA PutBelowIs ==
    ASSUME NEW s \in Seq(Operators), NEW k \in 1 .. Len(s), NEW d \in 1 .. k - 1
    PROVE  Moved(InsertAt(RemoveAt(s, k), d, s[k]), s, k, d)
<1> DEFINE r == RemoveAt(s, k)
           e == s[k]
           h == InsertAt(r, d, e)
<1>1. /\ r \in Seq(Operators) /\ Len(r) = Len(s) - 1
      /\ \A i \in 1 .. Len(s) - 1 : r[i] = IF i < k THEN s[i] ELSE s[i + 1]
  BY RemoveAtIs
<1> HIDE DEF r
<1>2. d \in 1 .. Len(r) /\ e \in Operators
  BY <1>1
<1> HIDE DEF e
<1>3. r \in Seq(Operators)
  BY <1>1
<1>4. /\ h \in Seq(Operators) /\ Len(h) = Len(r) + 1
      /\ \A i \in 1 .. Len(r) + 1 :
            h[i] = IF i < d THEN r[i] ELSE IF i = d THEN e ELSE r[i - 1]
  BY ONLY <1>2, <1>3, InsertAtIs
<1> HIDE DEF h
<1>5. ASSUME NEW j \in 1 .. Len(s)
      PROVE  From(j, k, d) \in 1 .. Len(s) /\ h[j] = s[From(j, k, d)]
  <2>1. j \in 1 .. Len(r) + 1
    BY <1>1
  <2>2. CASE j < d
    BY <1>1, <1>4, <2>1, <2>2 DEF From
  <2>3. CASE j = d
    BY <1>1, <1>4, <2>1, <2>3 DEF From, e
  <2>4. CASE j > d /\ j <= k
    <3>1. h[j] = r[j - 1] /\ j - 1 \in 1 .. Len(s) - 1 /\ j - 1 < k
      BY <1>1, <1>4, <2>1, <2>4
    <3> QED BY <1>1, <2>4, <3>1 DEF From
  <2>5. CASE j > d /\ j > k
    <3>1. /\ h[j] = r[j - 1] /\ j - 1 \in 1 .. Len(s) - 1
          /\ ~ (j - 1 < k) /\ (j - 1) + 1 = j
      BY <1>1, <1>4, <2>1, <2>5
    <3> QED BY <1>1, <2>5, <3>1 DEF From
  <2> QED BY <2>2, <2>3, <2>4, <2>5
<1>6. Len(h) = Len(s)
  BY <1>1, <1>4
<1>7. Moved(h, s, k, d)
  BY <1>4, <1>5, <1>6 DEF Moved
<1> QED BY <1>7 DEF h, r, e

-----------------------------------------------------------------------------
\* The invariant, of a spine s.

\* One scan, at the bottom; no column is added twice.
Shape(s) ==
    /\ s \in Seq(Operators) /\ s # << >>
    /\ \A i \in DOMAIN s : s[i].kind = "SCAN" <=> i = 1
    /\ \A i, j \in DOMAIN s : i # j => s[i].gives \cap s[j].gives = {}

\* The operator at k uses columns of the scan, and marks computed from it.
LocalAt(s, k) ==
    \A x \in s[k].uses : x \in s[1].gives \/
        \E m \in DOMAIN s : /\ s[m].kind = "MARK"
                            /\ x \in s[m].gives
                            /\ s[m].uses \subseteq s[1].gives

\* The operator at k finds the columns it uses below it.
Sees(s, k) == \A x \in s[k].uses : \E i \in 1 .. k - 1 : x \in s[i].gives

LocalsSee(s) == \A k \in DOMAIN s : LocalAt(s, k) => Sees(s, k)

\* Up to position n, all filters are built above all operators of this kind.
CreatesAbove(s, kind, n) ==
    \A i, m \in 1 .. n : (s[i].kind = "CREATE" /\ s[m].kind = kind) => m < i

LiftedAbove(s, p, c) ==
    /\ p = "MARK" => CreatesAbove(s, "MARK", c)
    /\ p # "MARK" => CreatesAbove(s, "MARK", Len(s))
    /\ p = "FILTER" => CreatesAbove(s, "FILTER", c)
    /\ p = "done" => CreatesAbove(s, "FILTER", Len(s))

LiftInv ==
    /\ Shape(spine)
    /\ pass \in {"MARK", "FILTER", "done"}
    /\ cursor \in 0 .. Len(spine)
    /\ LocalsSee(spine)
    /\ LiftedAbove(spine, pass, cursor)

-----------------------------------------------------------------------------
\* Moving one operator.

\* The positions of the moved spine: where each operator has gone.
To(i, k, d) == IF i < d \/ i > k THEN i ELSE IF i = k THEN d ELSE i + 1

\* All operators but the moved one keep their order, and the moved one only
\* gets below operators that were below it.
LEMMA OrderAfterMove ==
    ASSUME NEW n \in Nat, NEW k \in 1 .. n, NEW d \in 1 .. k - 1,
           NEW i \in 1 .. n, NEW j \in 1 .. n, From(i, k, d) < From(j, k, d), j # d
    PROVE  i < j
BY DEF From

\* The move keeps the scan at the bottom and adds no column twice.
LEMMA MoveKeepsShape ==
    ASSUME NEW s, NEW h, NEW k \in 1 .. Len(s), NEW d \in 1 .. k - 1, d # 1,
           Shape(s), Moved(h, s, k, d)
    PROVE  Shape(h) /\ h[1] = s[1] /\ DOMAIN h = DOMAIN s
<1>1. /\ s \in Seq(Operators) /\ h \in Seq(Operators) /\ Len(h) = Len(s)
      /\ DOMAIN s = 1 .. Len(s) /\ DOMAIN h = 1 .. Len(s) /\ Len(s) \in Nat
      /\ k \in 1 .. Len(s) /\ 1 \in 1 .. Len(s)
  BY DEF Shape, Moved
<1>2. /\ \A j \in 1 .. Len(s) : From(j, k, d) \in 1 .. Len(s) /\ h[j] = s[From(j, k, d)]
      /\ From(1, k, d) = 1
  BY DEF Moved, From
<1>3. \A j \in 1 .. Len(s) : From(j, k, d) = 1 <=> j = 1
  BY <1>1 DEF From
<1>4. \A i, j \in 1 .. Len(s) : From(i, k, d) = From(j, k, d) => i = j
  BY <1>1 DEF From
<1>5. h # << >>
  BY <1>1
<1>6. \A i \in DOMAIN h : h[i].kind = "SCAN" <=> i = 1
  BY <1>1, <1>2, <1>3 DEF Shape
<1>7. \A i, j \in DOMAIN h : i # j => h[i].gives \cap h[j].gives = {}
  <2> TAKE i, j \in DOMAIN h
  <2> HAVE i # j
  <2>1. /\ From(i, k, d) \in DOMAIN s /\ From(j, k, d) \in DOMAIN s
        /\ From(i, k, d) # From(j, k, d)
    BY <1>1, <1>2, <1>4
  <2>2. s[From(i, k, d)].gives \cap s[From(j, k, d)].gives = {}
    BY <2>1 DEF Shape
  <2> QED BY <1>1, <1>2, <2>2
<1>8. h[1] = s[1]
  BY <1>1, <1>2
<1> QED BY <1>1, <1>5, <1>6, <1>7, <1>8 DEF Shape

\* The move takes no column from a condition on the scanned table, provided
\* that every MARK join below the moved operator is below its new place.
LEMMA MoveKeepsLocals ==
    ASSUME NEW s, NEW h, NEW k \in 1 .. Len(s), NEW d \in 1 .. k - 1, d # 1,
           Shape(s), Moved(h, s, k, d), LocalsSee(s),
           \A m \in 1 .. k - 1 : s[m].kind = "MARK" => m < d
    PROVE  LocalsSee(h)
<1>1. Shape(h) /\ h[1] = s[1] /\ DOMAIN h = DOMAIN s
  BY MoveKeepsShape
<1>2. DOMAIN s = 1 .. Len(s) /\ Len(s) \in Nat /\ 1 \in 1 .. Len(s)
  BY DEF Shape
<1>3. \A j \in 1 .. Len(s) : From(j, k, d) \in 1 .. Len(s) /\ h[j] = s[From(j, k, d)]
  BY DEF Moved
<1>4. \A i \in 1 .. Len(s) :
        /\ To(i, k, d) \in 1 .. Len(s)
        /\ From(To(i, k, d), k, d) = i
        /\ h[To(i, k, d)] = s[i]
  <2> TAKE i \in 1 .. Len(s)
  <2>1. To(i, k, d) \in 1 .. Len(s) /\ From(To(i, k, d), k, d) = i
    BY <1>2 DEF To, From
  <2>2. h[To(i, k, d)] = s[From(To(i, k, d), k, d)]
    BY <1>3, <2>1
  <2> QED BY <2>1, <2>2
<1> SUFFICES ASSUME NEW j \in DOMAIN h, LocalAt(h, j), NEW x \in h[j].uses
             PROVE  \E i \in 1 .. j - 1 : x \in h[i].gives
  BY DEF LocalsSee, Sees
<1> DEFINE f == From(j, k, d)
<1>5. f \in 1 .. Len(s) /\ h[j] = s[f] /\ j \in 1 .. Len(s)
  BY <1>1, <1>2, <1>3
<1>6. LocalAt(s, f)
  <2> SUFFICES ASSUME NEW y \in s[f].uses
               PROVE  y \in s[1].gives \/
                        \E m \in DOMAIN s : /\ s[m].kind = "MARK"
                                            /\ y \in s[m].gives
                                            /\ s[m].uses \subseteq s[1].gives
    BY DEF LocalAt
  <2>1. y \in h[1].gives \/ \E m \in DOMAIN h : /\ h[m].kind = "MARK"
                                                /\ y \in h[m].gives
                                                /\ h[m].uses \subseteq h[1].gives
    BY <1>5 DEF LocalAt
  <2>2. ASSUME NEW m \in DOMAIN h, h[m].kind = "MARK", y \in h[m].gives,
               h[m].uses \subseteq h[1].gives
        PROVE  \E q \in DOMAIN s : /\ s[q].kind = "MARK"
                                   /\ y \in s[q].gives
                                   /\ s[q].uses \subseteq s[1].gives
    <3>1. From(m, k, d) \in DOMAIN s /\ h[m] = s[From(m, k, d)]
      BY <1>1, <1>2, <1>3
    <3> QED BY <1>1, <2>2, <3>1
  <2> QED BY <1>1, <2>1, <2>2
<1>7. PICK i \in 1 .. f - 1 : x \in s[i].gives
  BY <1>2, <1>5, <1>6 DEF LocalsSee, Sees
<1>8. CASE j # d
  <2>1. i \in 1 .. Len(s) /\ From(To(i, k, d), k, d) < From(j, k, d)
    <3>1. i \in 1 .. Len(s) /\ i < f
      BY <1>2, <1>5, <1>7
    <3> QED BY <1>4, <3>1
  <2>2. To(i, k, d) < j
    BY <1>2, <1>4, <1>5, <1>8, <2>1, OrderAfterMove
  <2>3. To(i, k, d) \in 1 .. j - 1 /\ x \in h[To(i, k, d)].gives
    <3>1. To(i, k, d) \in 1 .. Len(s) /\ h[To(i, k, d)] = s[i]
      BY <1>4, <2>1
    <3>2. To(i, k, d) \in 1 .. j - 1
      BY <1>2, <1>5, <2>2, <3>1
    <3> QED BY <1>7, <3>1, <3>2
  <2> QED BY <2>3
<1>9. CASE j = d
  <2>1. f = k
    BY <1>9 DEF From
  <2>2. \E q \in 1 .. d - 1 : x \in s[q].gives
    <3>1. CASE x \in s[1].gives
      BY <3>1
    <3>2. ASSUME NEW m \in DOMAIN s, s[m].kind = "MARK", x \in s[m].gives
          PROVE  m \in 1 .. d - 1
      <4>1. i \in DOMAIN s /\ i = m
        BY <1>2, <1>5, <1>7, <3>2 DEF Shape
      <4>2. m \in 1 .. k - 1
        BY <1>7, <2>1, <4>1
      <4> QED BY <3>2, <4>2
    <3> QED BY <1>5, <1>6, <3>1, <3>2 DEF LocalAt
  <2>3. PICK q \in 1 .. d - 1 : x \in s[q].gives
    BY <2>2
  <2>4. q \in 1 .. Len(s) /\ From(q, k, d) = q
    BY <1>2 DEF From
  <2> QED BY <1>3, <1>9, <2>3, <2>4
<1> QED BY <1>8, <1>9

\* The moved operator is the highest so far: with those below it already in
\* order, it comes to lie under every CREATE up to its old place.
LEMMA MoveLifts ==
    ASSUME NEW s, NEW h, NEW k \in 1 .. Len(s), NEW d \in 1 .. k - 1,
           Len(s) \in Nat, Moved(h, s, k, d), NEW kind, kind # "CREATE",
           s[k].kind = kind, s[d].kind = "CREATE",
           \A o \in 1 .. k - 1 : s[o].kind = "CREATE" => d <= o,
           CreatesAbove(s, kind, k - 1)
    PROVE  CreatesAbove(h, kind, k)
<1> SUFFICES ASSUME NEW i \in 1 .. k, NEW m \in 1 .. k,
                    h[i].kind = "CREATE", h[m].kind = kind
             PROVE  m < i
  BY DEF CreatesAbove
<1> DEFINE fi == From(i, k, d)
           fm == From(m, k, d)
<1>1. h[i] = s[fi] /\ h[m] = s[fm] /\ fi \in 1 .. k /\ fm \in 1 .. k
  BY DEF Moved, From
<1>2. fi # k /\ fi \in 1 .. k - 1 /\ d <= fi
  BY <1>1
<1>3. CASE m = d
  BY <1>2, <1>3 DEF From
<1>4. CASE m # d
  <2>1. fm \in 1 .. k - 1
    BY <1>1, <1>4 DEF From
  <2>2. fm < d
    BY <1>1, <2>1 DEF CreatesAbove
  <2> QED BY <1>2, <2>2 DEF From
<1> QED BY <1>3, <1>4

\* Operators of a kind the move does not touch stay below the CREATEs.
LEMMA MoveKeepsLifted ==
    ASSUME NEW s, NEW h, NEW k \in 1 .. Len(s), NEW d \in 1 .. k - 1,
           Len(s) \in Nat, Moved(h, s, k, d), NEW kind,
           s[k].kind # kind, s[k].kind # "CREATE", CreatesAbove(s, kind, Len(s))
    PROVE  CreatesAbove(h, kind, Len(h))
<1> SUFFICES ASSUME NEW i \in 1 .. Len(s), NEW m \in 1 .. Len(s),
                    h[i].kind = "CREATE", h[m].kind = kind
             PROVE  m < i
  BY DEF CreatesAbove, Moved
<1> DEFINE fi == From(i, k, d)
           fm == From(m, k, d)
<1>1. h[i] = s[fi] /\ h[m] = s[fm] /\ fi \in 1 .. Len(s) /\ fm \in 1 .. Len(s)
  BY DEF Moved
<1>2. i # d /\ m # d
  BY <1>1 DEF From
<1>3. fm < fi
  BY <1>1 DEF CreatesAbove
<1> QED BY <1>2, <1>3 DEF From

\* An operator that is not moved, because it is of another kind or no CREATE is
\* below it, is in order as well.
LEMMA VisitLifts ==
    ASSUME NEW s, NEW k \in 1 .. Len(s), Len(s) \in Nat, NEW kind, kind # "CREATE",
           s[k].kind = kind => \A o \in 1 .. k - 1 : s[o].kind # "CREATE",
           CreatesAbove(s, kind, k - 1)
    PROVE  CreatesAbove(s, kind, k)
<1> SUFFICES ASSUME NEW i \in 1 .. k, NEW m \in 1 .. k,
                    s[i].kind = "CREATE", s[m].kind = kind
             PROVE  m < i
  BY DEF CreatesAbove
<1>1. CASE i = k
  BY <1>1
<1>2. CASE m = k
  BY <1>2
<1>3. CASE i # k /\ m # k
  <2>1. i \in 1 .. k - 1 /\ m \in 1 .. k - 1
    BY <1>3
  <2> QED BY <2>1 DEF CreatesAbove
<1> QED BY <1>1, <1>2, <1>3

\* FindDeepestCreateFilter finds the lowest CREATE, if there is one.
LEMMA DeepestIs ==
    ASSUME NEW k \in Nat, KindsBelow(k, "CREATE") # {}
    PROVE  /\ DeepestCreate(k) \in 1 .. k - 1
           /\ spine[DeepestCreate(k)].kind = "CREATE"
           /\ \A o \in 1 .. k - 1 : spine[o].kind = "CREATE" => DeepestCreate(k) <= o
<1> DEFINE C == KindsBelow(k, "CREATE")
           R == OpToRel(<, Nat)
<1>1. C \subseteq Nat /\ C # {}
  BY DEF KindsBelow
<1> HIDE DEF C
<1>2. \E d \in C : \A o \in C : <<o, d>> \notin R
  BY <1>1, NatLessThanWellFounded, WFMin
<1>3. \A o, d \in Nat : o < d => <<o, d>> \in R
  BY DEF OpToRel
<1> HIDE DEF R
<1>4. PICK d \in C : \A o \in C : <<o, d>> \notin R
  BY <1>2
<1>5. \A o \in C : d <= o
  <2> TAKE o \in C
  <2>1. o \in Nat /\ d \in Nat /\ ~ (o < d)
    BY <1>1, <1>3, <1>4
  <2> QED BY <2>1
<1>6. \E e \in C : \A o \in C : e <= o
  BY <1>5
<1>7. DeepestCreate(k) \in C /\ \A o \in C : DeepestCreate(k) <= o
  BY <1>6 DEF DeepestCreate, C
<1> QED BY <1>7 DEF C, KindsBelow

-----------------------------------------------------------------------------
\* The steps.

LEMMA LiftInvInit ==
    ASSUME Init
    PROVE  LiftInv
<1>1. IsPlan(spine) /\ pass = "MARK" /\ cursor = 0
  BY SpinesAssumption DEF Init
<1>2. Shape(spine)
  BY <1>1 DEF IsPlan, Shape
<1>3. LocalsSee(spine)
  BY <1>1 DEF IsPlan, LocalsSee, Sees
<1>4. CreatesAbove(spine, "MARK", 0)
  BY DEF CreatesAbove
<1>5. cursor \in 0 .. Len(spine)
  BY <1>1 DEF IsPlan
<1> QED BY <1>1, <1>2, <1>3, <1>4, <1>5 DEF LiftInv, LiftedAbove

\* A visit moves the operator it looks at below the deepest CREATE, or leaves
\* the spine as it is.
LEMMA VisitIs ==
    ASSUME LiftInv, NEW kind \in {"MARK", "FILTER"}, Visit(kind)
    PROVE  \/ /\ spine' = spine
              /\ spine[cursor + 1].kind = kind =>
                    \A o \in 1 .. cursor : spine[o].kind # "CREATE"
           \/ \E d \in 1 .. cursor :
                /\ Moved(spine', spine, cursor + 1, d)
                /\ d # 1
                /\ spine[cursor + 1].kind = kind
                /\ spine[d].kind = "CREATE"
                /\ \A o \in 1 .. cursor : spine[o].kind = "CREATE" => d <= o
<1> DEFINE k == cursor + 1
           d == DeepestCreate(k)
<1>1. /\ spine \in Seq(Operators) /\ cursor \in Nat /\ k \in 1 .. Len(spine)
      /\ k \in Nat /\ k - 1 = cursor /\ DOMAIN spine = 1 .. Len(spine)
  BY DEF LiftInv, Shape, Visit
<1>2. CASE spine[k].kind = kind /\ KindsBelow(k, "CREATE") # {}
  <2>1. /\ d \in 1 .. k - 1 /\ spine[d].kind = "CREATE"
        /\ \A o \in 1 .. k - 1 : spine[o].kind = "CREATE" => d <= o
    BY <1>1, <1>2, DeepestIs
  <2>2. spine' = MoveBelow(k, d)
    BY <1>2 DEF Visit
  <2> HIDE DEF k, d
  <2>3. Moved(InsertAt(RemoveAt(spine, k), d, spine[k]), spine, k, d)
    BY <1>1, <2>1, PutBelowIs
  <2>4. Moved(spine', spine, k, d)
    BY <2>2, <2>3 DEF MoveBelow
  <2>5. d # 1
    <3>1. d \in DOMAIN spine /\ spine[d].kind # "SCAN"
      BY <1>1, <2>1
    <3> QED BY <3>1 DEF LiftInv, Shape
  <2> QED BY <1>1, <1>2, <2>1, <2>4, <2>5 DEF k
<1>3. CASE ~ (spine[k].kind = kind /\ KindsBelow(k, "CREATE") # {})
  <2>1. spine' = spine
    BY <1>3 DEF Visit
  <2>2. KindsBelow(k, "CREATE") = {} => \A o \in 1 .. k - 1 : spine[o].kind # "CREATE"
    BY DEF KindsBelow
  <2> QED BY <1>1, <1>3, <2>1, <2>2
<1> QED BY <1>2, <1>3

\* The visits of a pass keep the invariant.
LEMMA LiftInvVisit ==
    ASSUME LiftInv, NEW kind \in {"MARK", "FILTER"}, Visit(kind)
    PROVE  LiftInv'
<1>1. /\ pass = kind /\ pass' = kind /\ cursor' = cursor + 1
      /\ cursor \in Nat /\ cursor + 1 \in 1 .. Len(spine) /\ (cursor + 1) - 1 = cursor
      /\ Len(spine) \in Nat /\ kind # "CREATE"
  BY DEF LiftInv, Shape, Visit
<1>2. Shape(spine) /\ LocalsSee(spine) /\ CreatesAbove(spine, kind, cursor)
  BY <1>1 DEF LiftInv, LiftedAbove
<1>3. CASE /\ spine' = spine
           /\ spine[cursor + 1].kind = kind =>
                \A o \in 1 .. cursor : spine[o].kind # "CREATE"
  <2>1. CreatesAbove(spine, kind, cursor + 1)
    <3> DEFINE k == cursor + 1
    <3>1. /\ k \in 1 .. Len(spine) /\ k - 1 = cursor
          /\ spine[k].kind = kind => \A o \in 1 .. k - 1 : spine[o].kind # "CREATE"
      BY <1>1, <1>3
    <3>2. CreatesAbove(spine, kind, k - 1)
      BY <1>2, <3>1
    <3> HIDE DEF k
    <3>3. CreatesAbove(spine, kind, k)
      BY <1>1, <3>1, <3>2, VisitLifts
    <3> QED BY <3>3 DEF k
  <2>2. LiftedAbove(spine', pass', cursor')
    BY <1>1, <1>3, <2>1 DEF LiftInv, LiftedAbove
  <2>3. cursor' \in 0 .. Len(spine')
    BY <1>1, <1>3
  <2> QED BY <1>1, <1>2, <1>3, <2>2, <2>3 DEF LiftInv
<1>4. ASSUME NEW d \in 1 .. cursor,
             Moved(spine', spine, cursor + 1, d), d # 1,
             spine[cursor + 1].kind = kind, spine[d].kind = "CREATE",
             \A o \in 1 .. cursor : spine[o].kind = "CREATE" => d <= o
      PROVE  LiftInv'
  <2>1. Shape(spine')
    BY <1>1, <1>2, <1>4, MoveKeepsShape
  <2>2. \A m \in 1 .. cursor : spine[m].kind = "MARK" => m < d
    <3>1. CASE kind = "MARK"
      BY <1>2, <1>4, <3>1 DEF CreatesAbove
    <3>2. CASE kind = "FILTER"
      <4>1. CreatesAbove(spine, "MARK", Len(spine))
        BY <1>1, <3>2 DEF LiftInv, LiftedAbove
      <4>2. cursor \in 0 .. Len(spine)
        BY <1>1
      <4> QED BY <1>1, <1>4, <4>1, <4>2 DEF CreatesAbove
    <3> QED BY <3>1, <3>2
  <2>3. LocalsSee(spine')
    BY <1>1, <1>2, <1>4, <2>2, MoveKeepsLocals
  <2>4. CreatesAbove(spine', kind, cursor + 1)
    BY <1>1, <1>2, <1>4, MoveLifts
  <2>5. kind = "FILTER" => CreatesAbove(spine', "MARK", Len(spine'))
    <3> SUFFICES ASSUME kind = "FILTER"
                 PROVE  CreatesAbove(spine', "MARK", Len(spine'))
      OBVIOUS
    <3>1. CreatesAbove(spine, "MARK", Len(spine))
      BY <1>1 DEF LiftInv, LiftedAbove
    <3> QED BY <1>1, <1>4, <3>1, MoveKeepsLifted
  <2>6. LiftedAbove(spine', pass', cursor')
    BY <1>1, <2>4, <2>5 DEF LiftedAbove
  <2>7. cursor' \in 0 .. Len(spine')
    BY <1>1, <1>4 DEF Moved
  <2> QED BY <1>1, <2>1, <2>3, <2>6, <2>7 DEF LiftInv
<1> QED BY <1>3, <1>4, VisitIs

LEMMA LiftInvStep ==
    ASSUME LiftInv, [Next]_vars
    PROVE  LiftInv'
<1>1. CASE LiftCreateFilterAboveMarkJoin
  BY <1>1, LiftInvVisit DEF LiftCreateFilterAboveMarkJoin
<1>2. CASE LiftCreateFilterAboveFilter
  BY <1>2, LiftInvVisit DEF LiftCreateFilterAboveFilter
<1>3. CASE EndPass
  <2>1. /\ spine' = spine /\ cursor' = 0 /\ cursor = Len(spine) /\ Len(spine) \in Nat
        /\ pass \in {"MARK", "FILTER"} /\ pass' = IF pass = "MARK" THEN "FILTER" ELSE "done"
    BY <1>3 DEF EndPass, LiftInv, Shape
  <2>2. CreatesAbove(spine, "FILTER", 0)
    BY DEF CreatesAbove
  <2>3. LiftedAbove(spine', pass', cursor')
    BY <2>1, <2>2 DEF LiftInv, LiftedAbove
  <2> QED BY <2>1, <2>3 DEF LiftInv
<1>4. CASE UNCHANGED vars
  BY <1>4 DEF vars, LiftInv
<1> QED BY <1>1, <1>2, <1>3, <1>4 DEF Next

\* Whatever spines the passes start from, the inductive invariant holds.
THEOREM LiftInvariant == Spec => []LiftInv
<1>1. Init => LiftInv
  BY LiftInvInit
<1>2. LiftInv /\ [Next]_vars => LiftInv'
  BY LiftInvStep
<1> QED BY <1>1, <1>2, PTL DEF Spec

-----------------------------------------------------------------------------
\* The properties.

LEMMA LocalsResolve ==
    ASSUME LiftInv
    PROVE  LocalConditionsResolve
<1> SUFFICES ASSUME NEW k \in LocalConditions, NEW x \in spine[k].uses
             PROVE  x \in VisibleAt(k)
  BY DEF LocalConditionsResolve, Resolves
<1>1. DOMAIN spine = 1 .. Len(spine) /\ Len(spine) \in Nat /\ 1 \in 1 .. Len(spine)
  BY DEF LiftInv, Shape
<1>2. ScanColumns = spine[1].gives
  <2>1. ToSet(spine) = {spine[i] : i \in DOMAIN spine}
    BY DEF ToSet
  <2>2. {o \in ToSet(spine) : o.kind = "SCAN"} = {spine[1]}
    BY <1>1, <2>1 DEF LiftInv, Shape
  <2> QED BY <2>2 DEF ScanColumns
<1>3. k \in DOMAIN spine /\ LocalAt(spine, k)
  BY <1>2 DEF LocalConditions, LocalAt
<1>4. \E i \in 1 .. k - 1 : x \in spine[i].gives
  BY <1>3 DEF LiftInv, LocalsSee, Sees
<1> QED BY <1>4 DEF VisibleAt

\* The spine stays a list of operators, the pass one of the three, and the
\* recursion of a pass never runs past the end of the spine it rearranges
\* (LiftCreateFilterAboveMarkJoin, LiftCreateFilterAboveFilter).
THEOREM LiftTypes == Spec => []TypeOK
<1>1. LiftInv => TypeOK
  BY DEF LiftInv, Shape, TypeOK
<1> QED BY <1>1, LiftInvariant, PTL

\* For spines of any length, with any operators between the scan and its
\* conditions: once both passes of Optimize are through, every CREATE lies above
\* every MARK join and FILTER of its spine, so that its filters are built from
\* the rows that passed them.
THEOREM FiltersAreBuiltFromFilteredRows == Spec => []FiltersSeeFilteredRows
<1>1. LiftInv => FiltersSeeFilteredRows
  BY DEF LiftInv, Shape, LiftedAbove, CreatesAbove, FiltersSeeFilteredRows
<1> QED BY <1>1, LiftInvariant, PTL

\* For spines of any length: at every step of the two passes, an operator that
\* uses only columns of the scan and marks computed from it finds all of them
\* below it, although MoveBelow puts it under operators it was above.
THEOREM ConditionsResolve == Spec => []LocalConditionsResolve
<1>1. LiftInv => LocalConditionsResolve
  BY LocalsResolve
<1> QED BY <1>1, LiftInvariant, PTL

-----------------------------------------------------------------------------
\* The order of the filter operators.

FilterPositions(s) == {i \in DOMAIN s : s[i].kind \in {"CREATE", "PROBE"}}
Rank(s, i)         == Cardinality({j \in FilterPositions(s) : j < i})

\* Moving another operator leaves every filter operator as many below it as before.
LEMMA MoveKeepsRank ==
    ASSUME NEW s, NEW h, NEW k \in 1 .. Len(s), NEW d \in 1 .. k - 1,
           s \in Seq(Operators), Moved(h, s, k, d), k \notin FilterPositions(s),
           NEW j \in FilterPositions(h)
    PROVE  /\ From(j, k, d) \in FilterPositions(s)
           /\ h[j] = s[From(j, k, d)]
           /\ Rank(h, j) = Rank(s, From(j, k, d))
<1> DEFINE A == {i \in FilterPositions(h) : i < j}
           B == {i \in FilterPositions(s) : i < From(j, k, d)}
           from == [i \in A |-> From(i, k, d)]
<1>1. /\ Len(s) \in Nat /\ DOMAIN s = 1 .. Len(s) /\ DOMAIN h = 1 .. Len(s)
      /\ k \in 1 .. Len(s) /\ d \in 1 .. Len(s) /\ d < k
  BY DEF Moved
<1>2. \A i \in 1 .. Len(s) : From(i, k, d) \in 1 .. Len(s) /\ h[i] = s[From(i, k, d)]
  BY DEF Moved
<1>3. \A i \in FilterPositions(h) : /\ i \in 1 .. Len(s) /\ i # d
                                    /\ From(i, k, d) \in FilterPositions(s)
  <2>1. From(d, k, d) = k  BY <1>1 DEF From
  <2> QED BY <1>1, <1>2, <2>1 DEF FilterPositions
<1>4. \A i \in FilterPositions(h) : i < j <=> From(i, k, d) < From(j, k, d)
  BY <1>1, <1>3 DEF From
<1>5. \A i \in FilterPositions(h) : i # j => From(i, k, d) # From(j, k, d)
  BY <1>1, <1>3 DEF From
<1>6. \A i, l \in FilterPositions(h) : From(i, k, d) = From(l, k, d) => i = l
  BY <1>1, <1>3 DEF From
<1>7. ASSUME NEW i \in FilterPositions(s)
      PROVE  To(i, k, d) \in FilterPositions(h) /\ From(To(i, k, d), k, d) = i
  <2>1. i \in 1 .. Len(s) /\ i # k  BY <1>1 DEF FilterPositions
  <2>2. To(i, k, d) \in 1 .. Len(s) /\ From(To(i, k, d), k, d) = i
    BY <1>1, <2>1 DEF To, From
  <2> QED BY <1>1, <1>2, <2>2 DEF FilterPositions
<1>8. from \in Bijection(A, B)
  <2>1. from \in [A -> B]
    BY <1>3, <1>4
  <2>2. \A i, l \in A : from[i] = from[l] => i = l
    BY <1>6
  <2>3. \A i \in B : \E l \in A : from[l] = i
    <3> TAKE i \in B
    <3>1. To(i, k, d) \in A /\ from[To(i, k, d)] = i
      BY <1>4, <1>7
    <3> QED BY <3>1
  <2> HIDE DEF from, A, B
  <2>4. \A i, l \in DOMAIN from : from[i] = from[l] => i = l  BY <2>1, <2>2
  <2> QED BY <2>1, <2>3, <2>4 DEF Bijection, Injection, Surjection, IsInjective
<1>9. IsFiniteSet(A)
  <2>1. IsFiniteSet(1 .. Len(s))  BY <1>1, FS_Interval
  <2>2. A \in SUBSET (1 .. Len(s))  BY <1>3
  <2> QED BY <2>1, <2>2, FS_Subset
<1>10. Cardinality(A) = Cardinality(B)
  <2> HIDE DEF from, A, B
  <2>1. ExistsBijection(A, B)  BY <1>8 DEF ExistsBijection
  <2> QED BY <1>9, <2>1, FS_Bijection
<1>11. Rank(h, j) = Cardinality(A) /\ Rank(s, From(j, k, d)) = Cardinality(B)
  BY DEF Rank
<1> QED BY <1>2, <1>3, <1>10, <1>11

LEMMA MoveKeepsStack ==
    ASSUME NEW s, NEW h, NEW k \in 1 .. Len(s), NEW d \in 1 .. k - 1,
           s \in Seq(Operators), Moved(h, s, k, d), k \notin FilterPositions(s)
    PROVE  BuildsAndProbes(h) = BuildsAndProbes(s)
<1>1. \A q : BuildsAndProbes(q) = {<<Rank(q, i), q[i]>> : i \in FilterPositions(q)}
  BY DEF BuildsAndProbes, FilterPositions, Rank
<1>2. ASSUME NEW j \in FilterPositions(h)
      PROVE  /\ From(j, k, d) \in FilterPositions(s)
             /\ h[j] = s[From(j, k, d)]
             /\ Rank(h, j) = Rank(s, From(j, k, d))
  BY MoveKeepsRank
<1>3. ASSUME NEW i \in FilterPositions(s)
      PROVE  \E j \in FilterPositions(h) : From(j, k, d) = i
  <2>1. /\ Len(s) \in Nat /\ DOMAIN s = 1 .. Len(s) /\ DOMAIN h = 1 .. Len(s) /\ d < k
    BY DEF Moved
  <2>2. i \in 1 .. Len(s) /\ i # k  BY <2>1 DEF FilterPositions
  <2>3. To(i, k, d) \in 1 .. Len(s) /\ From(To(i, k, d), k, d) = i
    BY <2>1, <2>2 DEF To, From
  <2>4. h[To(i, k, d)] = s[i]
    BY <2>3 DEF Moved
  <2> QED BY <2>1, <2>3, <2>4 DEF FilterPositions
<1>4. \A x : x \in BuildsAndProbes(h) <=> x \in BuildsAndProbes(s)
  <2> TAKE x
  <2>1. ASSUME x \in BuildsAndProbes(h) PROVE x \in BuildsAndProbes(s)
    <3>1. PICK j \in FilterPositions(h) : x = <<Rank(h, j), h[j]>>
      BY <1>1, <2>1
    <3>2. x = <<Rank(s, From(j, k, d)), s[From(j, k, d)]>>
      BY <1>2, <3>1
    <3> QED BY <1>1, <1>2, <3>2
  <2>2. ASSUME x \in BuildsAndProbes(s) PROVE x \in BuildsAndProbes(h)
    <3>1. PICK i \in FilterPositions(s) : x = <<Rank(s, i), s[i]>>
      BY <1>1, <2>2
    <3>2. PICK j \in FilterPositions(h) : From(j, k, d) = i
      BY <1>3
    <3>3. x = <<Rank(h, j), h[j]>>
      BY <1>2, <3>1, <3>2
    <3> QED BY <1>1, <3>3
  <2> QED BY <2>1, <2>2
<1> QED BY <1>4

\* For spines of any length: no step of the passes exchanges two filter operators,
\* drops one or adds one; a whole block of them is lifted over a condition at a time.
THEOREM LiftKeepsStackOrder == Spec => StackOrderKept
<1>1. LiftInv /\ [Next]_vars => [BuildsAndProbes(spine') = BuildsAndProbes(spine)]_vars
  <2> SUFFICES ASSUME LiftInv, [Next]_vars
               PROVE  BuildsAndProbes(spine') = BuildsAndProbes(spine)
    OBVIOUS
  <2>1. ASSUME NEW kind \in {"MARK", "FILTER"}, Visit(kind)
        PROVE  BuildsAndProbes(spine') = BuildsAndProbes(spine)
    <3>1. CASE spine' = spine  BY <3>1
    <3>2. ASSUME NEW d \in 1 .. cursor, Moved(spine', spine, cursor + 1, d),
                 spine[cursor + 1].kind = kind
          PROVE  BuildsAndProbes(spine') = BuildsAndProbes(spine)
      <4>1. /\ spine \in Seq(Operators) /\ cursor \in Nat
            /\ cursor + 1 \in 1 .. Len(spine) /\ (cursor + 1) - 1 = cursor
        BY <2>1 DEF LiftInv, Shape, Visit
      <4>2. cursor + 1 \notin FilterPositions(spine)  BY <3>2 DEF FilterPositions
      <4> QED BY <3>2, <4>1, <4>2, MoveKeepsStack
    <3> QED BY <2>1, <3>1, <3>2, VisitIs
  <2>2. CASE LiftCreateFilterAboveMarkJoin
    BY <2>1, <2>2 DEF LiftCreateFilterAboveMarkJoin
  <2>3. CASE LiftCreateFilterAboveFilter
    BY <2>1, <2>3 DEF LiftCreateFilterAboveFilter
  <2>4. CASE EndPass \/ UNCHANGED vars
    BY <2>4 DEF EndPass, vars
  <2> QED BY <2>2, <2>3, <2>4 DEF Next
<1> QED BY <1>1, LiftInvariant, PTL DEF Spec, StackOrderKept

=============================================================================
